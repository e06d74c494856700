------------------------- MODULE AddrValidateProofs -------------------------
(***************************************************************************)
(* validate under any number of contexts that fit in the pipe: once the    *)
(* first call has opened the pipe alone, it stays open, has room for every *)
(* check, and readable memory is found readable.                           *)
(*                                                                         *)
(* The invariant has a part for each phase.  While write_fd is NoFd, at    *)
(* most one context is in validate and whatever pipe there is belongs to   *)
(* it.  From then on both atomics hold the ends of one pipe, nobody is in  *)
(* open_pipe, and the checks in the pipe and those between a read and a    *)
(* write are together no more than the contexts.                           *)
(*                                                                         *)
(* The walk of FrameWalk takes these steps of validate and no others, so   *)
(* it has the same invariant; what it reads has been validated, but for    *)
(* the words lost since, and errno is saved while it is anything but own.  *)
(***************************************************************************)
EXTENDS FrameWalk, FiniteSetTheorems, TLAPS

\* What the theorems assume beyond AddrValidateAssumption
Roomy == IsFiniteSet(Contexts) /\ Cardinality(Contexts) <= Capacity /\ FirstAlone

VType ==
  /\ read_fd \in Fds \cup {NoFd} /\ write_fd \in Fds \cup {NoFd}
  /\ fdtab \in [Fds -> PipeEnds \cup {Closed, OfApp}]
  /\ chunks \in [Pipes -> Nat]
  /\ vpc \in [Contexts -> Vpcs]
  /\ fd \in [Contexts -> Fds \cup {NoFd}]
  /\ spare \in [Contexts -> Fds \cup {NoFd}]
  /\ result \in [Contexts -> BOOLEAN]
  /\ DOMAIN addr = Contexts

\* The pipe whose ends are r and w is the only one.
IsPipe(p, r, w) ==
  /\ r \in Fds /\ w \in Fds
  /\ fdtab[r] = ReadEnd(p) /\ fdtab[w] = WriteEnd(p)
  /\ \A f \in Fds : fdtab[f] \in PipeEnds => f \in {r, w}

Pending == {c \in Contexts : vpc[c] \in {"load_write", "write"}}

OpenCtx(c) ==
  /\ vpc[c] \in {"idle", "load_read", "read", "load_write", "write", "done"}
  /\ vpc[c] = "read" => fd[c] = read_fd
  /\ vpc[c] = "write" => fd[c] = write_fd

OpenAt(p) ==
  /\ write_fd # NoFd
  /\ IsPipe(p, read_fd, write_fd)
  /\ chunks[p] + Cardinality(Pending) <= Cardinality(Contexts)
  /\ \A c \in Contexts : OpenCtx(c)

OpenInv == write_fd # NoFd => \E p \in Pipes : OpenAt(p)

ClosedCtx(c) ==
  /\ \A d \in Contexts : vpc[d] = "idle" \/ d = c
  /\ vpc[c] \notin {"load_write", "write"}
  /\ vpc[c] \in {"read", "close_read", "close_write"} => fd[c] = NoFd
  /\ vpc[c] \in {"store_read", "store_write"} =>
       \E p \in Pipes : IsPipe(p, fd[c], spare[c]) /\ chunks[p] = 0
  /\ vpc[c] = "store_write" => read_fd = fd[c]

ClosedInv ==
  write_fd = NoFd =>
    /\ \A c \in Contexts : vpc[c] # "idle" => ClosedCtx(c)
    /\ (\A c \in Contexts : vpc[c] # "store_write") => read_fd = NoFd
    /\ (\A c \in Contexts : vpc[c] \notin {"store_read", "store_write"}) =>
         \A f \in Fds : fdtab[f] \notin PipeEnds

VInv == VType /\ OpenInv /\ ClosedInv /\ ReadableAccepted

\* A step of validate's system, whatever the address asked about
AnyStep ==
  \/ \E c \in Contexts : ValidateStep(c) \/ Return(c) \/ \E a : Begin(c, a)
  \/ AppOpen \/ AppClose \/ \E a \in mapped : Unmap(a)

-----------------------------------------------------------------------------
(* Facts about descriptors                                                 *)

LEMMA NoFdFree == NoFd \notin Fds
  BY AddrValidateAssumption DEF NoFd

LEMMA EndsDiffer ==
  ASSUME NEW p, NEW q
  PROVE  /\ ReadEnd(p) # WriteEnd(q)
         /\ ReadEnd(p) # Closed /\ ReadEnd(p) # OfApp
         /\ WriteEnd(p) # Closed /\ WriteEnd(p) # OfApp
         /\ ReadEnd(p) = ReadEnd(q) => p = q
         /\ WriteEnd(p) = WriteEnd(q) => p = q
         /\ ReadEnd(p).pipe = p /\ WriteEnd(p).pipe = p
  BY DEF ReadEnd, WriteEnd, Closed, OfApp

LEMMA EndsAre ==
  /\ \A p \in Pipes : ReadEnd(p) \in PipeEnds /\ WriteEnd(p) \in PipeEnds
  /\ Closed \notin PipeEnds /\ OfApp \notin PipeEnds
  BY EndsDiffer DEF PipeEnds

-----------------------------------------------------------------------------
(* Types                                                                   *)

LEMMA InitType == PipeInit => VType
  BY DEF PipeInit, VType, Vpcs, Pipes

LEMMA ValidateStepType ==
  ASSUME VType, NEW c \in Contexts, ValidateStep(c) PROVE VType'
<1> USE DEF VType
<1>1. ASSUME NEW from, NEW to \in Vpcs, NEW atomic \in Fds \cup {NoFd},
             Load(c, from, to, atomic)
      PROVE  VType'
  BY <1>1 DEF Load, Move
<1>2. ASSUME NEW from, NEW to \in Vpcs, ClosePipe(c, from, to) PROVE VType'
  BY <1>2 DEF ClosePipe, Move
<1>3. ASSUME ReadPipe(c) PROVE VType'
  <2>1. chunks' \in [Pipes -> Nat]
    <3>1. CASE HasCheck(fd[c])
                 /\ chunks' = [chunks EXCEPT ![fdtab[fd[c]].pipe] = @ - 1]
      <4>1. PICK p \in Pipes : Entry(fd[c]) = ReadEnd(p) /\ chunks[p] > 0
        BY <3>1 DEF HasCheck
      <4>2. fd[c] \in Fds /\ fdtab[fd[c]] = ReadEnd(p)
        BY <4>1, EndsDiffer DEF Entry
      <4>3. chunks' = [chunks EXCEPT ![p] = @ - 1]
        BY <3>1, <4>2, EndsDiffer
      <4> QED BY <4>1, <4>3
    <3> QED BY <1>3, <3>1 DEF ReadPipe
  <2>2. vpc' \in [Contexts -> Vpcs]
    BY <1>3 DEF ReadPipe, Move, Vpcs, OpenPcs
  <2> QED BY <1>3, <2>1, <2>2 DEF ReadPipe
<1>4. ASSUME CreatePipe(c) PROVE VType'
  <2>1. vpc' \in [Contexts -> Vpcs]
    <3>1. Move(c, "create", "store_read") \/ Move(c, "create", "done")
      BY <1>4, Zenon DEF CreatePipe
    <3> QED BY <3>1 DEF Move, Vpcs, OpenPcs
  <2>2. CASE \E r, w \in Fds, p \in Pipes :
               /\ fdtab' = [fdtab EXCEPT ![r] = ReadEnd(p), ![w] = WriteEnd(p)]
               /\ chunks' = [chunks EXCEPT ![p] = 0]
               /\ fd' = [fd EXCEPT ![c] = r]
               /\ spare' = [spare EXCEPT ![c] = w]
    BY <1>4, <2>1, <2>2, EndsAre DEF CreatePipe
  <2>3. CASE UNCHANGED <<fdtab, chunks, fd, spare>>
    BY <1>4, <2>1, <2>3 DEF CreatePipe
  <2> QED BY <1>4, <2>2, <2>3 DEF CreatePipe
<1>5. ASSUME StoreRead(c) PROVE VType'
  BY <1>5 DEF StoreRead, Move, Vpcs, OpenPcs
<1>6. ASSUME StoreWrite(c) PROVE VType'
  BY <1>6 DEF StoreWrite, Move, Vpcs
<1>7. ASSUME WritePipe(c) PROVE VType'
  <2>1. chunks' \in [Pipes -> Nat]
    <3>1. CASE CanWrite(fd[c])
                 /\ chunks' = [chunks EXCEPT ![fdtab[fd[c]].pipe] = @ + 1]
      <4>1. PICK p \in Pipes : Entry(fd[c]) = WriteEnd(p)
        BY <3>1 DEF CanWrite
      <4>2. chunks' = [chunks EXCEPT ![p] = @ + 1]
        BY <3>1, <4>1, EndsDiffer DEF Entry
      <4> QED BY <4>1, <4>2
    <3> QED BY <1>7, <3>1 DEF WritePipe
  <2>2. result' \in [Contexts -> BOOLEAN]
    <3>1. ASSUME NEW b \in BOOLEAN, result' = [result EXCEPT ![c] = b]
          PROVE  result' \in [Contexts -> BOOLEAN]
      BY <3>1
    <3>2. \E b \in BOOLEAN : result' = [result EXCEPT ![c] = b]
      BY <1>7, Zenon DEF WritePipe
    <3> QED BY <3>1, <3>2
  <2>3. vpc' \in [Contexts -> Vpcs] /\ fd' \in [Contexts -> Fds \cup {NoFd}]
    BY <1>7 DEF WritePipe, Move, Vpcs
  <2> QED BY <1>7, <2>1, <2>2, <2>3 DEF WritePipe
<1>8. {"read", "load_close_read", "close_read", "load_close_write",
       "close_write", "create", "write"} \subseteq Vpcs
  BY DEF Vpcs, OpenPcs, FdPcs
<1> QED BY <1>1, <1>2, <1>3, <1>4, <1>5, <1>6, <1>7, <1>8 DEF ValidateStep

LEMMA StepType == ASSUME VType, AnyStep PROVE VType'
<1> USE DEF VType
<1>1. ASSUME NEW c \in Contexts, NEW a, Begin(c, a) PROVE VType'
  BY <1>1 DEF Begin, Move, Vpcs
<1>2. ASSUME NEW c \in Contexts, Return(c) PROVE VType'
  BY <1>2 DEF Return, Move, Vpcs
<1>3. ASSUME AppOpen PROVE VType'
  BY <1>3 DEF AppOpen, IsLowest, Free, callVars
<1>4. ASSUME AppClose PROVE VType'
  BY <1>4 DEF AppClose, callVars
<1>5. ASSUME NEW a, Unmap(a) PROVE VType'
  BY <1>5 DEF Unmap, callVars
<1> QED BY <1>1, <1>2, <1>3, <1>4, <1>5, ValidateStepType DEF AnyStep

-----------------------------------------------------------------------------
(* The pipe is open                                                        *)

LEMMA PendingSize ==
  ASSUME Roomy
  PROVE  /\ IsFiniteSet(Pending) /\ Cardinality(Pending) \in Nat
         /\ Cardinality(Pending) <= Cardinality(Contexts)
         /\ Cardinality(Contexts) \in Nat
  BY FS_Subset, FS_CardinalityType DEF Roomy, Pending

\* A context that enters or leaves the stretch between the read and the write
LEMMA PendingMove ==
  ASSUME Roomy, NEW c \in Contexts,
         \A d \in Contexts : d # c => vpc'[d] = vpc[d]
  PROVE  /\ (c \in Pending <=> c \in Pending') => Pending' = Pending
         /\ c \notin Pending /\ c \in Pending' =>
              /\ Cardinality(Pending') = Cardinality(Pending) + 1
              /\ Cardinality(Pending') <= Cardinality(Contexts)
         /\ c \in Pending /\ c \notin Pending' =>
              Cardinality(Pending') = Cardinality(Pending) - 1
<1>1. Pending' \ {c} = Pending \ {c}
  BY DEF Pending
<1>2. c \notin Pending /\ c \in Pending' => Pending' = Pending \cup {c}
  BY <1>1
<1>3. c \in Pending /\ c \notin Pending' => Pending' = Pending \ {c}
  BY <1>1
<1>4. Pending' \subseteq Contexts
  BY DEF Pending
<1>5. Cardinality(Pending') <= Cardinality(Contexts)
  BY <1>4, FS_Subset DEF Roomy
<1>6. IsFiniteSet(Pending)
  BY PendingSize
<1>7. c \notin Pending => Cardinality(Pending \cup {c}) = Cardinality(Pending) + 1
  BY <1>6, FS_AddElement
<1>8. c \in Pending => Cardinality(Pending \ {c}) = Cardinality(Pending) - 1
  BY <1>6, FS_RemoveElement
<1> QED BY <1>1, <1>2, <1>3, <1>5, <1>7, <1>8

\* What the pipe answers: a reader finds a check or an empty pipe, and a writer
\* finds room.
LEMMA PipeAnswers ==
  ASSUME Roomy, VType, NEW p \in Pipes, OpenAt(p), NEW c \in Contexts
  PROVE  /\ vpc[c] = "read" =>
              /\ fd[c] \in Fds /\ fdtab[fd[c]] = ReadEnd(p)
              /\ HasCheck(fd[c]) <=> chunks[p] > 0
              /\ WouldBlock(fd[c]) <=> chunks[p] = 0
         /\ vpc[c] = "write" =>
              fd[c] \in Fds /\ fdtab[fd[c]] = WriteEnd(p) /\ CanWrite(fd[c])
<1>1. /\ read_fd \in Fds /\ write_fd \in Fds
      /\ fdtab[read_fd] = ReadEnd(p) /\ fdtab[write_fd] = WriteEnd(p)
  BY DEF OpenAt, IsPipe
<1>2. HasEnd(ReadEnd(p)) /\ HasEnd(WriteEnd(p))
  BY <1>1 DEF HasEnd
<1>3. chunks[p] \in Nat
  BY DEF VType
<1>4. ASSUME vpc[c] = "read"
      PROVE  /\ fd[c] \in Fds /\ fdtab[fd[c]] = ReadEnd(p)
             /\ HasCheck(fd[c]) <=> chunks[p] > 0
             /\ WouldBlock(fd[c]) <=> chunks[p] = 0
  <2>1. fd[c] = read_fd
    BY <1>4 DEF OpenAt, OpenCtx
  <2>2. Entry(fd[c]) = ReadEnd(p)
    BY <1>1, <2>1 DEF Entry
  <2>3. HasCheck(fd[c]) <=> chunks[p] > 0
    BY <2>2, EndsDiffer DEF HasCheck
  <2>4. WouldBlock(fd[c]) <=> chunks[p] = 0
    BY <1>2, <2>2, EndsDiffer DEF WouldBlock
  <2> QED BY <1>1, <2>1, <2>3, <2>4
<1>5. ASSUME vpc[c] = "write"
      PROVE  fd[c] \in Fds /\ fdtab[fd[c]] = WriteEnd(p) /\ CanWrite(fd[c])
  <2>1. fd[c] = write_fd
    BY <1>5 DEF OpenAt, OpenCtx
  <2>2. Entry(fd[c]) = WriteEnd(p)
    BY <1>1, <2>1 DEF Entry
  <2>3. c \in Pending
    BY <1>5 DEF Pending
  <2>4. Cardinality(Pending) # 0
    BY <2>3, PendingSize, FS_EmptySet
  <2>5. chunks[p] + Cardinality(Pending) <= Cardinality(Contexts)
    BY DEF OpenAt
  <2>6. chunks[p] < Capacity
    BY <1>3, <2>4, <2>5, PendingSize, AddrValidateAssumption DEF Roomy
  <2>7. CanWrite(fd[c])
    BY <1>2, <2>2, <2>6 DEF CanWrite
  <2> QED BY <1>1, <2>1, <2>7
<1> QED BY <1>4, <1>5

\* Steps of c that leave the pipe alone and do not cross that stretch's ends
LEMMA OpenMove ==
  ASSUME Roomy, VType, NEW p \in Pipes, OpenAt(p), NEW c \in Contexts,
         UNCHANGED <<read_fd, write_fd, fdtab, chunks>>,
         \A d \in Contexts : d # c => vpc'[d] = vpc[d] /\ fd'[d] = fd[d],
         c \in Pending <=> c \in Pending', OpenCtx(c)'
  PROVE  OpenAt(p)'
<1>1. Pending' = Pending
  BY PendingMove
<1>2. \A d \in Contexts : OpenCtx(d)'
  BY DEF OpenAt, OpenCtx
<1> QED BY <1>1, <1>2 DEF OpenAt, IsPipe

LEMMA OpenReads ==
  ASSUME Roomy, VType, NEW p \in Pipes, OpenAt(p), NEW c \in Contexts, ReadPipe(c)
  PROVE  OpenAt(p)' /\ vpc'[c] = "load_write"
<1>1. vpc[c] = "read"
  BY Zenon DEF ReadPipe, Move
<1>2. /\ fd[c] \in Fds /\ fdtab[fd[c]] = ReadEnd(p)
      /\ HasCheck(fd[c]) <=> chunks[p] > 0
      /\ WouldBlock(fd[c]) <=> chunks[p] = 0
  BY <1>1, PipeAnswers
<1>3. chunks[p] \in Nat /\ chunks \in [Pipes -> Nat]
  BY DEF VType
<1>4. ~(~HasCheck(fd[c]) /\ ~WouldBlock(fd[c]))
  BY <1>2, <1>3
<1>5. Entry(fd[c]) # OfApp
  BY <1>2, EndsDiffer DEF Entry
<1>6. vpc' = [vpc EXCEPT ![c] = "load_write"]
  BY <1>4, Zenon DEF ReadPipe, Move
<1>7. vpc'[c] = "load_write" /\ \A d \in Contexts : d # c => vpc'[d] = vpc[d]
  BY <1>6 DEF VType
<1>8. UNCHANGED <<read_fd, write_fd, fdtab, fd>>
  BY DEF ReadPipe
<1>9. \/ HasCheck(fd[c]) /\ chunks' = [chunks EXCEPT ![fdtab[fd[c]].pipe] = @ - 1]
      \/ WouldBlock(fd[c]) /\ chunks' = chunks
  BY <1>4, <1>5, Zenon DEF ReadPipe
<1>10. \/ chunks[p] > 0 /\ chunks'[p] = chunks[p] - 1
       \/ chunks[p] = 0 /\ chunks'[p] = 0
  BY <1>2, <1>3, <1>9, EndsDiffer
<1>11. c \notin Pending /\ c \in Pending'
  BY <1>1, <1>7 DEF Pending
<1>12. /\ Cardinality(Pending') = Cardinality(Pending) + 1
       /\ Cardinality(Pending') <= Cardinality(Contexts)
  BY <1>7, <1>11, PendingMove
<1>13. chunks'[p] + Cardinality(Pending') <= Cardinality(Contexts)
  <2>1. chunks[p] + Cardinality(Pending) <= Cardinality(Contexts)
    BY DEF OpenAt
  <2> QED BY <1>3, <1>10, <1>12, <2>1, PendingSize
<1>14. \A d \in Contexts : OpenCtx(d)'
  BY <1>7, <1>8 DEF OpenAt, OpenCtx
<1> QED BY <1>7, <1>8, <1>13, <1>14 DEF OpenAt, IsPipe

LEMMA OpenWrites ==
  ASSUME Roomy, VType, NEW p \in Pipes, OpenAt(p), NEW c \in Contexts, WritePipe(c)
  PROVE  /\ OpenAt(p)'
         /\ Span(addr[c]) \subseteq mapped => result'[c]
<1>1. vpc[c] = "write" /\ vpc' = [vpc EXCEPT ![c] = "done"]
  BY DEF WritePipe, Move
<1>2. fd[c] \in Fds /\ fdtab[fd[c]] = WriteEnd(p) /\ CanWrite(fd[c])
  BY <1>1, PipeAnswers
<1>3. chunks[p] \in Nat /\ chunks \in [Pipes -> Nat] /\ result \in [Contexts -> BOOLEAN]
  BY DEF VType
<1>4. vpc'[c] = "done" /\ \A d \in Contexts : d # c => vpc'[d] = vpc[d]
  BY <1>1 DEF VType
<1>5. /\ UNCHANGED <<read_fd, write_fd, fdtab>>
      /\ \A d \in Contexts : d # c => fd'[d] = fd[d]
  BY DEF WritePipe, VType
<1>6. chunks' = chunks \/ chunks' = [chunks EXCEPT ![p] = @ + 1]
  BY <1>2, EndsDiffer DEF WritePipe
<1>7. chunks'[p] = chunks[p] \/ chunks'[p] = chunks[p] + 1
  BY <1>3, <1>6
<1>8. c \in Pending /\ c \notin Pending'
  BY <1>1, <1>4 DEF Pending
<1>9. Cardinality(Pending') = Cardinality(Pending) - 1
  BY <1>4, <1>8, PendingMove
<1>10. chunks'[p] + Cardinality(Pending') <= Cardinality(Contexts)
  <2>1. chunks[p] + Cardinality(Pending) <= Cardinality(Contexts)
    BY DEF OpenAt
  <2> QED BY <1>3, <1>7, <1>9, <2>1, PendingSize
<1>11. \A d \in Contexts : OpenCtx(d)'
  BY <1>4, <1>5 DEF OpenAt, OpenCtx
<1>12. OpenAt(p)'
  BY <1>5, <1>10, <1>11 DEF OpenAt, IsPipe
<1>13. ASSUME Span(addr[c]) \subseteq mapped PROVE result'[c]
  BY <1>2, <1>3, <1>13 DEF WritePipe
<1> QED BY <1>12, <1>13

\* Whatever anybody does, an open pipe stays as it is.
LEMMA OpenStep ==
  ASSUME Roomy, VType, NEW p \in Pipes, OpenAt(p), AnyStep PROVE OpenAt(p)'
<1>1. ASSUME NEW c \in Contexts, ValidateStep(c) PROVE OpenAt(p)'
  <2>1. vpc[c] \in {"idle", "load_read", "read", "load_write", "write", "done"}
    BY DEF OpenAt, OpenCtx
  <2>2. CASE Load(c, "load_read", "read", read_fd)
    <3>1. /\ vpc[c] = "load_read" /\ vpc'[c] = "read" /\ fd'[c] = read_fd
          /\ \A d \in Contexts : d # c => vpc'[d] = vpc[d] /\ fd'[d] = fd[d]
          /\ UNCHANGED <<read_fd, write_fd, fdtab, chunks>>
      BY <2>2 DEF Load, Move, VType
    <3>2. OpenCtx(c)' /\ (c \in Pending <=> c \in Pending')
      BY <3>1 DEF OpenCtx, Pending
    <3> QED BY <3>1, <3>2, OpenMove
  <2>3. CASE Load(c, "load_write", "write", write_fd)
    <3>1. /\ vpc[c] = "load_write" /\ vpc'[c] = "write" /\ fd'[c] = write_fd
          /\ \A d \in Contexts : d # c => vpc'[d] = vpc[d] /\ fd'[d] = fd[d]
          /\ UNCHANGED <<read_fd, write_fd, fdtab, chunks>>
      BY <2>3 DEF Load, Move, VType
    <3>2. OpenCtx(c)' /\ (c \in Pending <=> c \in Pending')
      BY <3>1 DEF OpenCtx, Pending
    <3> QED BY <3>1, <3>2, OpenMove
  <2>4. CASE ReadPipe(c)
    BY <2>4, OpenReads
  <2>5. CASE WritePipe(c)
    BY <2>5, OpenWrites
  <2>6. ~Load(c, "load_close_read", "close_read", read_fd)
        /\ ~Load(c, "load_close_write", "close_write", write_fd)
    BY <2>1 DEF Load, Move
  <2>7. ~ClosePipe(c, "close_read", "load_close_write")
        /\ ~ClosePipe(c, "close_write", "create")
    BY <2>1 DEF ClosePipe, Move
  <2>8. ~CreatePipe(c)
    <3>1. CreatePipe(c) => vpc[c] = "create"
      BY Zenon DEF CreatePipe, Move
    <3> QED BY <2>1, <3>1
  <2>9. ~StoreRead(c) /\ ~StoreWrite(c)
    BY <2>1 DEF StoreRead, StoreWrite, Move
  <2> QED BY <1>1, <2>2, <2>3, <2>4, <2>5, <2>6, <2>7, <2>8, <2>9 DEF ValidateStep
<1>2. ASSUME NEW c \in Contexts, Return(c) PROVE OpenAt(p)'
  <2>1. /\ vpc[c] = "done" /\ vpc'[c] = "idle"
        /\ \A d \in Contexts : d # c => vpc'[d] = vpc[d] /\ fd'[d] = fd[d]
        /\ UNCHANGED <<read_fd, write_fd, fdtab, chunks>>
    BY <1>2 DEF Return, Move, VType
  <2>2. OpenCtx(c)' /\ (c \in Pending <=> c \in Pending')
    BY <2>1 DEF OpenCtx, Pending
  <2> QED BY <2>1, <2>2, OpenMove
<1>3. ASSUME NEW c \in Contexts, NEW a, Begin(c, a) PROVE OpenAt(p)'
  <2>1. /\ vpc[c] = "idle" /\ vpc'[c] \in {"done", "load_read"}
        /\ \A d \in Contexts : d # c => vpc'[d] = vpc[d] /\ fd'[d] = fd[d]
        /\ UNCHANGED <<read_fd, write_fd, fdtab, chunks>>
    BY <1>3 DEF Begin, Move, VType
  <2>2. OpenCtx(c)' /\ (c \in Pending <=> c \in Pending')
    BY <2>1 DEF OpenCtx, Pending
  <2> QED BY <2>1, <2>2, OpenMove
<1>4. ASSUME UNCHANGED <<read_fd, write_fd, chunks, vpc, fd>>,
             \A f \in Fds : fdtab'[f] = fdtab[f] \/ (fdtab[f] \notin PipeEnds
                                                   /\ fdtab'[f] \notin PipeEnds)
      PROVE  OpenAt(p)'
  <2>1. IsPipe(p, read_fd, write_fd)'
    BY <1>4, EndsAre DEF OpenAt, IsPipe
  <2>2. Pending' = Pending /\ \A c \in Contexts : OpenCtx(c)'
    BY <1>4 DEF Pending, OpenAt, OpenCtx
  <2> QED BY <1>4, <2>1, <2>2 DEF OpenAt
<1>5. CASE AppOpen
  BY <1>4, <1>5, EndsAre DEF AppOpen, IsLowest, Free, callVars, VType
<1>6. CASE AppClose
  BY <1>4, <1>6, EndsAre DEF AppClose, callVars, VType
<1>7. CASE \E a \in mapped : Unmap(a)
  BY <1>4, <1>7 DEF Unmap, callVars
<1> QED BY <1>1, <1>2, <1>3, <1>5, <1>6, <1>7 DEF AnyStep

-----------------------------------------------------------------------------
(* No pipe, or one that is being made                                      *)

LEMMA NobodyThere ==
  ASSUME ClosedInv, write_fd = NoFd, NEW c \in Contexts, vpc[c] # "idle"
  PROVE  /\ \A d \in Contexts : d # c => vpc[d] = "idle"
         /\ ClosedCtx(c)
         /\ vpc[c] # "store_write" => read_fd = NoFd
         /\ vpc[c] \notin {"store_read", "store_write"} =>
              \A f \in Fds : fdtab[f] \notin PipeEnds
<1>1. ClosedCtx(c)
  BY DEF ClosedInv
<1>2. \A d \in Contexts : d # c => vpc[d] = "idle"
  BY <1>1 DEF ClosedCtx
<1>3. vpc[c] # "store_write" => \A d \in Contexts : vpc[d] # "store_write"
  BY <1>2
<1>4. vpc[c] \notin {"store_read", "store_write"} =>
        \A d \in Contexts : vpc[d] \notin {"store_read", "store_write"}
  BY <1>2
<1> QED BY <1>1, <1>2, <1>3, <1>4 DEF ClosedInv

LEMMA ClosedMove ==
  ASSUME NEW c \in Contexts, \A d \in Contexts : d # c => vpc'[d] = "idle",
         write_fd' = NoFd, vpc'[c] # "idle" => ClosedCtx(c)',
         vpc'[c] # "store_write" => read_fd' = NoFd,
         vpc'[c] \notin {"store_read", "store_write"} =>
           \A f \in Fds : fdtab'[f] \notin PipeEnds
  PROVE  ClosedInv'
  BY DEF ClosedInv, ClosedCtx

\* As long as its steps find and leave no pipe
LEMMA ClosedPlain ==
  ASSUME VType, ClosedInv, write_fd = NoFd, NEW c \in Contexts, vpc[c] # "idle",
         vpc[c] \notin {"store_read", "store_write"},
         NEW to \in Vpcs \ {"load_write", "write", "store_read", "store_write"},
         vpc' = [vpc EXCEPT ![c] = to], UNCHANGED <<read_fd, write_fd, fdtab>>,
         to \in {"read", "close_read", "close_write"} => fd'[c] = NoFd
  PROVE  ClosedInv'
<1>1. /\ \A d \in Contexts : d # c => vpc[d] = "idle"
      /\ read_fd = NoFd /\ \A f \in Fds : fdtab[f] \notin PipeEnds
  BY NobodyThere
<1>2. vpc'[c] = to /\ \A d \in Contexts : d # c => vpc'[d] = "idle"
  BY <1>1 DEF VType
<1>3. ClosedCtx(c)'
  BY <1>2 DEF ClosedCtx
<1> QED BY <1>1, <1>2, <1>3, ClosedMove

LEMMA ClosedCreate ==
  ASSUME VType, ClosedInv, write_fd = NoFd, NEW c \in Contexts, CreatePipe(c)
  PROVE  ClosedInv'
<1>1. vpc[c] = "create" /\ UNCHANGED <<read_fd, write_fd>>
  BY Zenon DEF CreatePipe, Move
<1>2. /\ \A d \in Contexts : d # c => vpc[d] = "idle"
      /\ read_fd = NoFd /\ \A f \in Fds : fdtab[f] \notin PipeEnds
  BY <1>1, NobodyThere
<1>3. ASSUME NEW r \in Fds, NEW w \in Fds, NEW p \in Pipes,
             IsLowest(r, Free), IsLowest(w, Free \ {r}),
             fdtab' = [fdtab EXCEPT ![r] = ReadEnd(p), ![w] = WriteEnd(p)],
             chunks' = [chunks EXCEPT ![p] = 0],
             fd' = [fd EXCEPT ![c] = r], spare' = [spare EXCEPT ![c] = w],
             Move(c, "create", "store_read")
      PROVE  ClosedInv'
  <2>1. r # w
    BY <1>3 DEF IsLowest
  <2>2. fdtab'[r] = ReadEnd(p) /\ fdtab'[w] = WriteEnd(p)
    BY <1>3, <2>1 DEF VType
  <2>3. \A f \in Fds : fdtab'[f] \in PipeEnds => f \in {r, w}
    BY <1>2, <1>3 DEF VType
  <2>4. fd'[c] = r /\ spare'[c] = w /\ chunks'[p] = 0
    BY <1>3 DEF VType, Pipes
  <2>5. vpc'[c] = "store_read" /\ \A d \in Contexts : d # c => vpc'[d] = "idle"
    BY <1>2, <1>3 DEF Move, VType
  <2>6. IsPipe(p, fd[c], spare[c])'
    BY <2>2, <2>3, <2>4 DEF IsPipe
  <2>7. ClosedCtx(c)'
    BY <2>4, <2>5, <2>6 DEF ClosedCtx
  <2> QED BY <1>1, <1>2, <2>5, <2>7, ClosedMove
<1>4. ASSUME Move(c, "create", "done"), UNCHANGED <<fdtab, chunks, fd, spare>>
      PROVE  ClosedInv'
  BY <1>1, <1>4, ClosedPlain DEF Move, Vpcs
<1> QED BY <1>3, <1>4, Zenon DEF CreatePipe

LEMMA ClosedStoreRead ==
  ASSUME VType, ClosedInv, write_fd = NoFd, NEW c \in Contexts, StoreRead(c)
  PROVE  ClosedInv'
<1>1. /\ vpc[c] = "store_read" /\ vpc' = [vpc EXCEPT ![c] = "store_write"]
      /\ read_fd' = fd[c] /\ UNCHANGED <<write_fd, fdtab, chunks, fd, spare>>
  BY DEF StoreRead, Move
<1>2. /\ \A d \in Contexts : d # c => vpc[d] = "idle"
      /\ ClosedCtx(c)
  BY <1>1, NobodyThere
<1>3. vpc'[c] = "store_write" /\ \A d \in Contexts : d # c => vpc'[d] = "idle"
  BY <1>1, <1>2 DEF VType
<1>4. PICK p \in Pipes : IsPipe(p, fd[c], spare[c]) /\ chunks[p] = 0
  BY <1>1, <1>2 DEF ClosedCtx
<1>5. (IsPipe(p, fd[c], spare[c]) /\ chunks[p] = 0)'
  BY <1>1, <1>4 DEF IsPipe
<1>6. ClosedCtx(c)'
  BY <1>1, <1>3, <1>5 DEF ClosedCtx
<1> QED BY <1>1, <1>3, <1>6, ClosedMove

\* The last store of open_pipe opens it for everybody.
LEMMA ClosedStoreWrite ==
  ASSUME Roomy, VType, ClosedInv, write_fd = NoFd, NEW c \in Contexts, StoreWrite(c)
  PROVE  \E p \in Pipes : OpenAt(p)'
<1>1. /\ vpc[c] = "store_write" /\ vpc' = [vpc EXCEPT ![c] = "load_write"]
      /\ write_fd' = spare[c] /\ UNCHANGED <<read_fd, fdtab, chunks, fd>>
  BY DEF StoreWrite, Move
<1>2. /\ \A d \in Contexts : d # c => vpc[d] = "idle"
      /\ ClosedCtx(c)
  BY <1>1, NobodyThere
<1>3. vpc'[c] = "load_write" /\ \A d \in Contexts : d # c => vpc'[d] = "idle"
  BY <1>1, <1>2 DEF VType
<1>4. PICK p \in Pipes : IsPipe(p, fd[c], spare[c]) /\ chunks[p] = 0
  BY <1>1, <1>2 DEF ClosedCtx
<1>5. IsPipe(p, read_fd, write_fd)'
  BY <1>1, <1>2, <1>4 DEF IsPipe, ClosedCtx
<1>6. chunks'[p] + Cardinality(Pending') <= Cardinality(Contexts)
  <2>1. Pending' \subseteq Contexts
    BY DEF Pending
  <2>2. Cardinality(Pending') \in Nat /\ Cardinality(Pending') <= Cardinality(Contexts)
    BY <2>1, FS_Subset, FS_CardinalityType DEF Roomy
  <2> QED BY <1>1, <1>4, <2>2
<1>7. write_fd' # NoFd
  BY <1>1, <1>4, NoFdFree DEF IsPipe
<1>8. \A d \in Contexts : OpenCtx(d)'
  BY <1>3 DEF OpenCtx
<1> QED BY <1>5, <1>6, <1>7, <1>8 DEF OpenAt

LEMMA ClosedStep ==
  ASSUME Roomy, VType, ClosedInv, write_fd = NoFd, AnyStep
  PROVE  (write_fd' = NoFd /\ ClosedInv') \/ \E p \in Pipes : OpenAt(p)'
<1>1. ASSUME NEW c \in Contexts, ValidateStep(c)
      PROVE  (write_fd' = NoFd /\ ClosedInv') \/ \E p \in Pipes : OpenAt(p)'
  <2>1. ASSUME NEW from, NEW to, NEW atomic, Load(c, from, to, atomic)
        PROVE  /\ vpc[c] = from /\ vpc' = [vpc EXCEPT ![c] = to]
               /\ UNCHANGED <<read_fd, write_fd, fdtab>> /\ fd'[c] = atomic
    BY <2>1 DEF Load, Move, VType
  <2>2. CASE Load(c, "load_read", "read", read_fd)
    BY <2>1, <2>2, NobodyThere, ClosedPlain DEF Vpcs, FdPcs
  <2>3. CASE Load(c, "load_close_read", "close_read", read_fd)
    BY <2>1, <2>3, NobodyThere, ClosedPlain DEF Vpcs, FdPcs
  <2>4. CASE Load(c, "load_close_write", "close_write", write_fd)
    BY <2>1, <2>4, NobodyThere, ClosedPlain DEF Vpcs, FdPcs
  <2>5. CASE Load(c, "load_write", "write", write_fd)
    BY <2>1, <2>5, NobodyThere DEF ClosedCtx
  <2>6. CASE ReadPipe(c)
    <3>1. vpc[c] = "read"
      BY <2>6, Zenon DEF ReadPipe, Move
    <3>2. fd[c] = NoFd
      BY <3>1, NobodyThere DEF ClosedCtx
    <3>3. Entry(fd[c]) = Closed
      BY <3>2, NoFdFree DEF Entry
    <3>4. ~HasCheck(fd[c]) /\ ~WouldBlock(fd[c]) /\ Entry(fd[c]) # OfApp
      BY <3>3, EndsDiffer DEF HasCheck, WouldBlock, Closed, OfApp
    <3>5. vpc' = [vpc EXCEPT ![c] = "load_close_read"]
      BY <2>6, <3>4, Zenon DEF ReadPipe, Move
    <3>6. UNCHANGED <<read_fd, write_fd, fdtab>>
      BY <2>6 DEF ReadPipe
    <3> QED BY <3>1, <3>5, <3>6, ClosedPlain DEF Vpcs, OpenPcs
  <2>7. ASSUME NEW from \in {"close_read", "close_write"},
               NEW to \in {"load_close_write", "create"}, ClosePipe(c, from, to)
        PROVE  write_fd' = NoFd /\ ClosedInv'
    <3>1. vpc[c] = from /\ vpc' = [vpc EXCEPT ![c] = to] /\ UNCHANGED <<read_fd, write_fd>>
      BY <2>7 DEF ClosePipe, Move
    <3>2. fd[c] = NoFd
      BY <3>1, NobodyThere DEF ClosedCtx
    <3>3. fdtab' = fdtab
      BY <2>7, <3>2, NoFdFree DEF ClosePipe, VType
    <3> QED BY <3>1, <3>3, ClosedPlain DEF Vpcs, OpenPcs
  <2>8. CASE CreatePipe(c)
    BY <2>8, ClosedCreate DEF CreatePipe
  <2>9. CASE StoreRead(c)
    BY <2>9, ClosedStoreRead DEF StoreRead
  <2>10. CASE StoreWrite(c)
    BY <2>10, ClosedStoreWrite
  <2>11. CASE WritePipe(c)
    BY <2>11, NobodyThere DEF WritePipe, Move, ClosedCtx
  <2> QED BY <1>1, <2>2, <2>3, <2>4, <2>5, <2>6, <2>7, <2>8, <2>9, <2>10, <2>11
          DEF ValidateStep
<1>2. ASSUME NEW c \in Contexts, Return(c) PROVE write_fd' = NoFd /\ ClosedInv'
  BY <1>2, ClosedPlain DEF Return, Move, Vpcs
<1>3. ASSUME NEW c \in Contexts, NEW a, Begin(c, a) PROVE write_fd' = NoFd /\ ClosedInv'
  <2>1. \A d \in Contexts : vpc[d] = "idle"
    BY <1>3 DEF Begin, Roomy
  <2>2. read_fd = NoFd /\ \A f \in Fds : fdtab[f] \notin PipeEnds
    BY <2>1 DEF ClosedInv
  <2>3. /\ UNCHANGED <<read_fd, write_fd, fdtab>>
        /\ vpc'[c] \in {"done", "load_read"}
        /\ \A d \in Contexts : d # c => vpc'[d] = "idle"
    BY <1>3, <2>1 DEF Begin, Move, VType
  <2>4. ClosedCtx(c)'
    BY <2>3 DEF ClosedCtx
  <2> QED BY <2>2, <2>3, <2>4, ClosedMove
<1>4. ASSUME UNCHANGED <<read_fd, write_fd, chunks, vpc, fd, spare>>,
             \A f \in Fds : fdtab'[f] = fdtab[f] \/ (fdtab[f] \notin PipeEnds
                                                   /\ fdtab'[f] \notin PipeEnds)
      PROVE  write_fd' = NoFd /\ ClosedInv'
  <2>1. ASSUME NEW p \in Pipes, NEW r, NEW w, IsPipe(p, r, w)
        PROVE  /\ r \in Fds /\ w \in Fds
               /\ fdtab'[r] = ReadEnd(p) /\ fdtab'[w] = WriteEnd(p)
               /\ \A f \in Fds : fdtab'[f] \in PipeEnds => f \in {r, w}
    BY <1>4, <2>1, EndsAre DEF IsPipe
  <2>2. ASSUME NEW c \in Contexts, vpc[c] # "idle" PROVE ClosedCtx(c)'
    <3>1. ClosedCtx(c)
      BY <2>2 DEF ClosedInv
    <3> QED BY <1>4, <2>1, <3>1 DEF ClosedCtx, IsPipe
  <2> QED BY <1>4, <2>2 DEF ClosedInv
<1>5. CASE AppOpen
  BY <1>4, <1>5, EndsAre DEF AppOpen, IsLowest, Free, callVars, VType
<1>6. CASE AppClose
  BY <1>4, <1>6, EndsAre DEF AppClose, callVars, VType
<1>7. CASE \E a \in mapped : Unmap(a)
  BY <1>4, <1>7 DEF Unmap, callVars
<1> QED BY <1>1, <1>2, <1>3, <1>5, <1>6, <1>7 DEF AnyStep

-----------------------------------------------------------------------------
(* What validate returns                                                   *)

\* What a context has to do with a step of another one
LEMMA OthersStay ==
  ASSUME VType, NEW c \in Contexts, NEW d \in Contexts, c # d,
         ValidateStep(c) \/ Return(c) \/ (\E a : Begin(c, a))
  PROVE  /\ vpc'[d] = vpc[d] /\ addr'[d] = addr[d] /\ result'[d] = result[d]
         /\ mapped' = mapped
<1> USE DEF VType, Move
<1>1. ASSUME NEW from, NEW to, NEW atomic, Load(c, from, to, atomic)
      PROVE  vpc'[d] = vpc[d] /\ UNCHANGED <<addr, result, mapped>>
  BY <1>1 DEF Load
<1>2. ASSUME NEW from, NEW to, ClosePipe(c, from, to)
      PROVE  vpc'[d] = vpc[d] /\ UNCHANGED <<addr, result, mapped>>
  BY <1>2 DEF ClosePipe
<1>3. CASE ReadPipe(c)
  <2>1. \E to : vpc' = [vpc EXCEPT ![c] = to]
    BY <1>3, Zenon DEF ReadPipe
  <2> QED BY <1>3, <2>1 DEF ReadPipe
<1>4. CASE CreatePipe(c)
  <2>1. \E to : vpc' = [vpc EXCEPT ![c] = to]
    BY <1>4, Zenon DEF CreatePipe
  <2> QED BY <1>4, <2>1 DEF CreatePipe
<1>5. CASE StoreRead(c) \/ StoreWrite(c)
  BY <1>5 DEF StoreRead, StoreWrite
<1>6. CASE WritePipe(c)
  <2>1. \E b : result' = [result EXCEPT ![c] = b]
    BY <1>6, Zenon DEF WritePipe
  <2> QED BY <1>6, <2>1 DEF WritePipe
<1>7. CASE Return(c)
  BY <1>7 DEF Return
<1>8. CASE \E a : Begin(c, a)
  BY <1>8 DEF Begin
<1> QED BY <1>1, <1>2, <1>3, <1>4, <1>5, <1>6, <1>7, <1>8 DEF ValidateStep

\* A step of a context in validate that ends at "done"
LEMMA DoneStep ==
  ASSUME VType, NEW c \in Contexts, ValidateStep(c), vpc'[c] = "done"
  PROVE  CreatePipe(c) \/ WritePipe(c)
<1>1. ASSUME NEW from, NEW to, NEW atomic, Load(c, from, to, atomic) PROVE vpc'[c] = to
  BY <1>1 DEF Load, Move, VType
<1>2. ASSUME NEW from, NEW to, ClosePipe(c, from, to) PROVE vpc'[c] = to
  BY <1>2 DEF ClosePipe, Move, VType
<1>3. ASSUME ReadPipe(c) PROVE vpc'[c] \in {"load_write", "load_close_read"}
  <2>1. Move(c, "read", "load_write") \/ Move(c, "read", "load_close_read")
    BY <1>3, Zenon DEF ReadPipe
  <2> QED BY <2>1 DEF Move, VType
<1>4. ASSUME StoreRead(c) \/ StoreWrite(c) PROVE vpc'[c] \in {"store_write", "load_write"}
  BY <1>4 DEF StoreRead, StoreWrite, Move, VType
<1> QED BY <1>1, <1>2, <1>3, <1>4 DEF ValidateStep

LEMMA AcceptedStep ==
  ASSUME Roomy, VInv, AnyStep PROVE ReadableAccepted'
<1> SUFFICES ASSUME NEW d \in Contexts, vpc'[d] = "done", addr'[d] # Null,
                    Span(addr'[d]) \subseteq mapped', write_fd' # NoFd
             PROVE  result'[d]
  BY DEF ReadableAccepted
<1> USE DEF VInv
\* A context that was done already is done with the pipe there.
<1>1. ASSUME vpc[d] = "done", addr'[d] = addr[d], result'[d] = result[d],
             mapped' \subseteq mapped, write_fd' = write_fd
      PROVE  result'[d]
  BY <1>1 DEF ReadableAccepted
<1>2. ASSUME NEW c \in Contexts, c # d,
             ValidateStep(c) \/ Return(c) \/ (\E a : Begin(c, a))
      PROVE  result'[d]
  <2>1. /\ vpc[d] = "done" /\ addr'[d] = addr[d] /\ result'[d] = result[d]
        /\ mapped' = mapped
    BY <1>2, OthersStay
  <2>2. CASE write_fd # NoFd
    BY <2>1, <2>2 DEF ReadableAccepted
  <2>3. CASE write_fd = NoFd
    <3>1. vpc[c] = "idle"
      BY <1>2, <2>1, <2>3, NobodyThere
    <3>2. ~StoreWrite(c)
      BY <3>1 DEF StoreWrite, Move
    <3>3. write_fd' = write_fd
      BY <1>2, <3>2 DEF ValidateStep, Load, ReadPipe, ClosePipe, CreatePipe, StoreRead,
                        WritePipe, Return, Begin
    <3> QED BY <2>3, <3>3
  <2> QED BY <2>2, <2>3
<1>3. ASSUME ValidateStep(d) PROVE result'[d]
  <2>1. CASE CreatePipe(d)
    <3>1. vpc[d] = "create" /\ write_fd' = write_fd
      BY <2>1, Zenon DEF CreatePipe, Move
    <3> QED BY <3>1 DEF OpenInv, OpenAt, OpenCtx
  <2>2. CASE WritePipe(d)
    <3>1. write_fd' = write_fd /\ addr' = addr /\ mapped' = mapped
      BY <2>2 DEF WritePipe
    <3>2. PICK p \in Pipes : OpenAt(p)
      BY <3>1 DEF OpenInv
    <3> QED BY <2>2, <3>1, <3>2, OpenWrites
  <2> QED BY <1>3, <2>1, <2>2, DoneStep
<1>4. ASSUME Return(d) PROVE FALSE
  BY <1>4 DEF Return, Move, VType
<1>5. ASSUME NEW a, Begin(d, a) PROVE FALSE
  BY <1>5 DEF Begin, Move, VType
<1>6. CASE AppOpen
  BY <1>1, <1>6 DEF AppOpen, callVars
<1>7. CASE AppClose
  BY <1>1, <1>7 DEF AppClose, callVars
<1>8. CASE \E a \in mapped : Unmap(a)
  BY <1>1, <1>8 DEF Unmap, callVars
<1> QED BY <1>2, <1>3, <1>4, <1>5, <1>6, <1>7, <1>8 DEF AnyStep

-----------------------------------------------------------------------------
(* The invariant, and the theorems about validate                          *)

LEMMA InitVInv == PipeInit => VInv
<1>1. PipeInit => VType
  BY InitType
<1>2. PipeInit => write_fd = NoFd /\ OpenInv /\ ReadableAccepted
  BY DEF PipeInit, OpenInv, ReadableAccepted
<1>3. PipeInit => ClosedInv
  BY EndsAre DEF PipeInit, ClosedInv
<1> QED BY <1>1, <1>2, <1>3 DEF VInv

LEMMA StepVInv == ASSUME Roomy, VInv, AnyStep PROVE VInv'
<1>1. VType'
  BY StepType DEF VInv
<1>2. ReadableAccepted'
  BY AcceptedStep
<1>3. OpenInv' /\ ClosedInv'
  <2>1. CASE write_fd # NoFd
    <3>1. PICK p \in Pipes : OpenAt(p)
      BY <2>1 DEF VInv, OpenInv
    <3>2. OpenAt(p)'
      BY <3>1, OpenStep DEF VInv
    <3> QED BY <3>2 DEF OpenInv, OpenAt, ClosedInv
  <2>2. CASE write_fd = NoFd
    <3>1. (write_fd' = NoFd /\ ClosedInv') \/ \E p \in Pipes : OpenAt(p)'
      BY <2>2, ClosedStep DEF VInv
    <3> QED BY <3>1 DEF OpenInv, OpenAt, ClosedInv
  <2> QED BY <2>1, <2>2
<1> QED BY <1>1, <1>2, <1>3 DEF VInv

LEMMA StutterVInv == VInv /\ UNCHANGED validateVars => VInv'
  BY DEF VInv, VType, OpenInv, OpenAt, OpenCtx, IsPipe, Pending, ClosedInv, ClosedCtx,
         ReadableAccepted, validateVars, callVars

LEMMA VInvConsequences == VInv => OwnDescriptors /\ NoPipeLeak
<1> SUFFICES ASSUME VInv PROVE OwnDescriptors /\ NoPipeLeak
  OBVIOUS
<1>1. CASE write_fd # NoFd
  <2>1. PICK p \in Pipes : OpenAt(p)
    BY <1>1 DEF VInv, OpenInv
  <2>2. OwnDescriptors
    BY <2>1, EndsDiffer DEF OwnDescriptors, OpenAt, OpenCtx, IsPipe, FdPcs, Entry
  <2>3. NoPipeLeak
    BY <2>1 DEF NoPipeLeak, OpenAt, IsPipe
  <2> QED BY <2>2, <2>3
<1>2. CASE write_fd = NoFd
  <2>1. ASSUME NEW c \in Contexts, vpc[c] \in FdPcs PROVE Entry(fd[c]) # OfApp
    <3>1. ClosedCtx(c)
      BY <1>2, <2>1, NobodyThere DEF VInv, FdPcs
    <3>2. fd[c] = NoFd
      BY <2>1, <3>1 DEF ClosedCtx, FdPcs
    <3> QED BY <3>2, NoFdFree DEF Entry, Closed, OfApp
  <2>2. NoPipeLeak
    BY <1>2 DEF VInv, ClosedInv, NoPipeLeak, OpenPcs
  <2> QED BY <2>1, <2>2 DEF OwnDescriptors
<1> QED BY <1>1, <1>2

LEMMA ValidateNextIsStep == ValidateNext => AnyStep
  BY Zenon DEF ValidateNext, AnyStep

LEMMA ValidateInv == ASSUME Roomy PROVE ValidateSpec => []VInv
<1>1. PipeInit => VInv
  BY InitVInv
<1>2. VInv /\ [ValidateNext]_validateVars => VInv'
  BY StepVInv, StutterVInv, ValidateNextIsStep
<1> QED BY <1>1, <1>2, PTL DEF ValidateSpec

\* validate(addr), called by any number of threads and handlers of which the
\* first opened the pipe undisturbed, never declares readable memory unreadable.
THEOREM ValidateAccepts == ASSUME Roomy PROVE ValidateSpec => []ReadableAccepted
<1>1. VInv => ReadableAccepted
  BY DEF VInv
<1> QED BY <1>1, ValidateInv, PTL

\* Nor does it read, write or close a descriptor of the application.
THEOREM ValidateDescriptors == ASSUME Roomy PROVE ValidateSpec => []OwnDescriptors
BY ValidateInv, VInvConsequences, PTL

\* No pipe stays open that is not in the atomics, however the threads and the
\* handlers that replace it interleave.
THEOREM ValidateKeepsPipes == ASSUME Roomy PROVE ValidateSpec => []NoPipeLeak
BY ValidateInv, VInvConsequences, PTL

\* Validating keeps the types, whatever words are asked about.
LEMMA StepPipeType ==
  ASSUME PipeTypeOK, AnyStep, addr' \in [Contexts -> Nat] PROVE PipeTypeOK'
<1>1. VType
  <2>1. 0 .. Capacity \subseteq Nat
    BY AddrValidateAssumption
  <2>2. chunks \in [Pipes -> Nat]
    BY <2>1 DEF PipeTypeOK
  <2> QED BY <2>2 DEF PipeTypeOK, VType
<1>2. VType'
  BY <1>1, StepType
<1>3. ASSUME NEW c \in Contexts, ValidateStep(c)
      PROVE  addr' = addr /\ mapped' = mapped /\ chunks' \in [Pipes -> 0 .. Capacity]
  <2>1. addr' = addr /\ mapped' = mapped
    BY <1>3 DEF ValidateStep, Load, ReadPipe, ClosePipe, CreatePipe, StoreRead,
                StoreWrite, WritePipe
  <2>2. chunks' \in [Pipes -> 0 .. Capacity]
    <3>1. chunks \in [Pipes -> 0 .. Capacity] /\ chunks' \in [Pipes -> Nat]
      BY <1>2 DEF PipeTypeOK, VType
    <3>2. CASE chunks' = chunks
      BY <3>1, <3>2
    <3>3. CASE \E p \in Pipes : chunks' = [chunks EXCEPT ![p] = 0]
      BY <3>1, <3>3, AddrValidateAssumption
    <3>4. CASE HasCheck(fd[c]) /\ chunks' = [chunks EXCEPT ![fdtab[fd[c]].pipe] = @ - 1]
      <4>1. PICK p \in Pipes : Entry(fd[c]) = ReadEnd(p) /\ chunks[p] > 0
        BY <3>4 DEF HasCheck
      <4>2. chunks' = [chunks EXCEPT ![p] = @ - 1]
        BY <3>4, <4>1, EndsDiffer DEF Entry
      <4> QED BY <3>1, <4>1, <4>2, AddrValidateAssumption
    <3>5. CASE CanWrite(fd[c]) /\ chunks' = [chunks EXCEPT ![fdtab[fd[c]].pipe] = @ + 1]
      <4>1. PICK p \in Pipes : Entry(fd[c]) = WriteEnd(p) /\ chunks[p] < Capacity
        BY <3>5 DEF CanWrite
      <4>2. chunks' = [chunks EXCEPT ![p] = @ + 1]
        BY <3>5, <4>1, EndsDiffer DEF Entry
      <4> QED BY <3>1, <4>1, <4>2, AddrValidateAssumption
    <3>6. CASE ReadPipe(c)
      BY <3>2, <3>4, <3>6, Zenon DEF ReadPipe
    <3>7. CASE CreatePipe(c)
      BY <3>2, <3>3, <3>7, Zenon DEF CreatePipe
    <3>8. CASE WritePipe(c)
      BY <3>2, <3>5, <3>8 DEF WritePipe
    <3>9. CASE ~ReadPipe(c) /\ ~CreatePipe(c) /\ ~WritePipe(c)
      BY <1>3, <3>2, <3>9 DEF ValidateStep, Load, ClosePipe, StoreRead, StoreWrite
    <3> QED BY <3>6, <3>7, <3>8, <3>9
  <2> QED BY <2>1, <2>2
<1>4. mapped' \subseteq Readable /\ chunks' \in [Pipes -> 0 .. Capacity]
  <2>1. CASE \E c \in Contexts : ValidateStep(c)
    BY <1>3, <2>1 DEF PipeTypeOK
  <2>2. CASE \E c \in Contexts : Return(c) \/ \E a : Begin(c, a)
    BY <2>2 DEF Return, Begin, PipeTypeOK
  <2>3. CASE AppOpen \/ AppClose
    BY <2>3 DEF AppOpen, AppClose, callVars, PipeTypeOK
  <2>4. CASE \E a \in mapped : Unmap(a)
    BY <2>4 DEF Unmap, callVars, PipeTypeOK
  <2> QED BY <2>1, <2>2, <2>3, <2>4 DEF AnyStep
<1> QED BY <1>2, <1>4 DEF VType, PipeTypeOK

\* Every variable of validate has its type; a pipe never holds more checks than
\* it has room for.
THEOREM ValidateTypes == ValidateSpec => []PipeTypeOK
<1>1. PipeInit => PipeTypeOK
  BY AddrValidateAssumption DEF PipeInit, PipeTypeOK, Vpcs, Pipes, Null
<1>2. ASSUME PipeTypeOK, ValidateNext PROVE PipeTypeOK'
  <2>1. addr' \in [Contexts -> Nat]
    <3>1. CASE \E c \in Contexts : ValidateStep(c)
      BY <1>2, <3>1 DEF ValidateStep, Load, ReadPipe, ClosePipe, CreatePipe, StoreRead,
                        StoreWrite, WritePipe, PipeTypeOK
    <3>2. CASE \E c \in Contexts : Return(c)
      BY <1>2, <3>2 DEF Return, PipeTypeOK, Null
    <3>3. CASE \E c \in Contexts, a \in Addresses : Begin(c, a)
      BY <1>2, <3>3, AddrValidateAssumption DEF Begin, PipeTypeOK
    <3>4. CASE AppOpen \/ AppClose \/ \E a \in mapped : Unmap(a)
      BY <1>2, <3>4 DEF AppOpen, AppClose, Unmap, callVars, PipeTypeOK
    <3> QED BY <1>2, <3>1, <3>2, <3>3, <3>4 DEF ValidateNext
  <2> QED BY <1>2, <2>1, StepPipeType, ValidateNextIsStep
<1>3. PipeTypeOK /\ UNCHANGED validateVars => PipeTypeOK'
  BY DEF PipeTypeOK, validateVars, callVars
<1>4. PipeTypeOK /\ [ValidateNext]_validateVars => PipeTypeOK'
  BY <1>2, <1>3
<1> QED BY <1>1, <1>4, PTL DEF ValidateSpec

-----------------------------------------------------------------------------
(* The walk of the handler                                                 *)

\* What the walk does to the pipe are steps of validate's system.
LEMMA WalkStepsValidate ==
  ASSUME [WalkNext]_vars PROVE AnyStep \/ UNCHANGED validateVars
<1>0. Sampler \in Contexts
  BY FrameWalkAssumption
<1>1. CASE Interrupt \/ ReadRet \/ ReadNext \/ HopRead \/ HopFrame \/ Callback \/ Record
             \/ ReturnFromHandler
  BY <1>1 DEF Interrupt, ReadRet, ReadNext, HopRead, HopFrame, Callback, Record,
              ReturnFromHandler
<1>2. CASE CheckFrame
  BY <1>0, <1>2 DEF CheckFrame, Ask, AnyStep
<1>3. CASE HopAsk
  BY <1>0, <1>3 DEF HopAsk, Ask, AnyStep
<1>4. CASE Validating \/ Validated \/ HopValidated
  BY <1>0, <1>4 DEF Validating, Validated, HopValidated, AnyStep
<1>5. CASE OthersStep
  BY <1>5 DEF OthersStep, AnyStep
<1>6. CASE OthersUnmap
  BY <1>6 DEF OthersUnmap, Unmap, AnyStep
<1>7. CASE UNCHANGED vars
  BY <1>7 DEF vars
<1> QED BY <1>1, <1>2, <1>3, <1>4, <1>5, <1>6, <1>7 DEF WalkNext, HandlerStep

LEMMA WalkVInv == ASSUME Roomy PROVE WalkSpec => []VInv
<1>1. WalkInit => VInv
  BY InitVInv DEF WalkInit
<1>2. VInv /\ [WalkNext]_vars => VInv'
  BY WalkStepsValidate, StepVInv, StutterVInv
<1> QED BY <1>1, <1>2, PTL DEF WalkSpec

\* Under the same conditions the handler's walks find readable memory readable
\* and touch no descriptor but the pipe's: there is room for a check of each
\* context, and no other thread is in validate until the first call has opened the
\* pipe.  What other threads do from then on, in any order, changes nothing.
THEOREM WalkAccepts ==
  ASSUME Roomy PROVE WalkSpec => [](ReadableAccepted /\ OwnDescriptors /\ NoPipeLeak)
<1>1. VInv => ReadableAccepted
  BY DEF VInv
<1> QED BY <1>1, WalkVInv, VInvConsequences, PTL

\* The words at fp are readable, or were unmapped since they were found so.
Checked == FrameWords(fp) \subseteq mapped \cup lost

FaultInv ==
  /\ backend \in {"frame-pointer", "framehop"}
  /\ wpc \in {"check", "validating", "read_ret", "read_next"} => backend = "frame-pointer"
  /\ wpc \in {"hop", "hop_validating", "hop_read"} => backend = "framehop"
  /\ wpc \in {"hop_validating", "hop_read"} => fp \in Nat
  /\ wpc \notin {"validating", "hop_validating"} => vpc[Sampler] = "idle"
  /\ wpc \in {"validating", "hop_validating"} =>
       addr[Sampler] = fp /\ (result[Sampler] => Checked)
  /\ wpc \in {"read_ret", "read_next", "hop_read"} => Checked
  /\ wpc = "callback" /\ backend = "frame-pointer" => Checked
  /\ FaultOnlyIfLost

ErrnoInv ==
  /\ wpc = "off" => errno = "own"
  /\ wpc # "off" => saved = "own"

WalkInv == VType /\ FaultInv /\ ErrnoInv

\* A step of validate that its caller does not see the end of
LEMMA SamplerValidates ==
  ASSUME VType, NEW c \in Contexts, ValidateStep(c)
  PROVE  /\ addr' = addr /\ mapped' = mapped /\ vpc[c] # "idle"
         /\ result'[c] => result[c] \/ Span(addr[c]) \subseteq mapped
<1>1. addr' = addr /\ mapped' = mapped
  BY DEF ValidateStep, Load, ReadPipe, ClosePipe, CreatePipe, StoreRead, StoreWrite, WritePipe
<1>2. vpc[c] # "idle"
  <2>1. ReadPipe(c) \/ CreatePipe(c) => vpc[c] # "idle"
    BY Zenon DEF ReadPipe, CreatePipe, Move
  <2> QED BY <2>1 DEF ValidateStep, Load, ClosePipe, StoreRead, StoreWrite, WritePipe, Move
<1>3. CASE WritePipe(c)
  <2>1. CASE Span(addr[c]) \subseteq mapped
    BY <1>1, <1>2, <2>1
  <2>2. CASE ~(Span(addr[c]) \subseteq mapped)
    <3>1. \E b \in {FALSE, Entry(fd[c]) = OfApp /\ Span(addr[c]) \subseteq mapped} :
            result' = [result EXCEPT ![c] = b]
      BY <1>3, <2>2, Zenon DEF WritePipe
    <3>2. PICK b : b = FALSE /\ result' = [result EXCEPT ![c] = b]
      BY <2>2, <3>1
    <3> QED BY <1>1, <1>2, <3>2 DEF VType
  <2> QED BY <2>1, <2>2
<1>4. CASE ~WritePipe(c)
  BY <1>1, <1>2, <1>4 DEF ValidateStep, Load, ReadPipe, ClosePipe, CreatePipe, StoreRead, StoreWrite
<1> QED BY <1>3, <1>4

LEMMA InitWalkInv == WalkInit => WalkInv
<1>1. WalkInit => VType
  BY InitType DEF WalkInit
<1>2. WalkInit => FaultInv /\ ErrnoInv
  BY FrameWalkAssumption DEF WalkInit, PipeInit, FaultInv, ErrnoInv, FaultOnlyIfLost
<1> QED BY <1>1, <1>2 DEF WalkInv

LEMMA StepFaultInv == ASSUME WalkInv, [WalkNext]_vars PROVE FaultInv'
<1>0. Sampler \in Contexts
  BY FrameWalkAssumption
<1> USE DEF WalkInv, FaultInv, Checked, FaultOnlyIfLost
<1>1. CASE Interrupt
  BY <1>1 DEF Interrupt, StartWalk, StartHop, At, Goto, validateVars, callVars, walkVars
<1>2. CASE Callback
  BY <1>2 DEF Callback, At, Goto, validateVars, callVars
<1>3. CASE Record
  BY <1>3 DEF Record, At, Goto, validateVars, callVars, walkVars
<1>4. CASE ReturnFromHandler
  BY <1>4 DEF ReturnFromHandler, At, Goto, validateVars, callVars
<1>5. ASSUME NEW a, NEW to \in {"validating", "hop_validating"}, Ask(a, to)
      PROVE  /\ wpc' = to /\ addr'[Sampler] = a /\ ~result'[Sampler]
             /\ mapped' = mapped /\ lost' = {}
  BY <1>0, <1>5 DEF Ask, Goto, Begin, VType
<1>6. CASE CheckFrame
  <2>1. UNCHANGED <<backend, fp>> /\ wpc = "check"
    BY <1>6 DEF CheckFrame, At, walkVars
  <2>2. CASE Ask(fp, "validating")
    BY <1>5, <2>1, <2>2
  <2>3. CASE wpc' = "record" /\ UNCHANGED <<validateVars, lost>>
    BY <2>1, <2>3 DEF validateVars, callVars
  <2> QED BY <1>6, <2>2, <2>3 DEF CheckFrame, Goto
<1>7. CASE HopAsk
  <2>1. PICK a \in Addresses : Ask(a, "hop_validating") /\ fp' = a
    BY <1>7 DEF HopAsk
  <2>2. UNCHANGED backend /\ wpc = "hop"
    BY <1>7 DEF HopAsk, At
  <2> QED BY <1>5, <2>1, <2>2, AddrValidateAssumption
<1>8. CASE Validating
  <2>1. /\ UNCHANGED <<backend, wpc, fp, lost>> /\ ValidateStep(Sampler)
    BY <1>8 DEF Validating, walkVars
  <2>2. /\ addr' = addr /\ mapped' = mapped /\ vpc[Sampler] # "idle"
        /\ result'[Sampler] => result[Sampler] \/ Span(addr[Sampler]) \subseteq mapped
    BY <1>0, <2>1, SamplerValidates
  <2> QED BY <2>1, <2>2 DEF Span, FrameWords
<1>9. ASSUME Return(Sampler) PROVE vpc'[Sampler] = "idle" /\ mapped' = mapped
  BY <1>0, <1>9 DEF Return, Move, VType
<1>10. CASE Validated
  BY <1>9, <1>10 DEF Validated, At, Goto
<1>11. CASE HopValidated
  BY <1>9, <1>11 DEF HopValidated, At, Goto, walkVars
<1>12. CASE ReadRet
  BY <1>12 DEF ReadRet, At, Goto, validateVars, callVars
<1>13. CASE ReadNext
  BY <1>13 DEF ReadNext, At, Goto, validateVars, callVars
<1>14. CASE HopRead
  <2>1. fp \in FrameWords(fp) /\ wpc = "hop_read"
    BY <1>14 DEF HopRead, At, FrameWords
  <2> QED BY <1>14, <2>1 DEF HopRead, At, Goto, validateVars, callVars, walkVars
<1>15. CASE HopFrame
  BY <1>15 DEF HopFrame, At, Goto, validateVars, callVars
<1>16. CASE OthersStep
  <2>1. UNCHANGED <<backend, wpc, fp, lost>>
    BY <1>16 DEF OthersStep, walkVars
  <2>2. /\ vpc'[Sampler] = vpc[Sampler] /\ addr'[Sampler] = addr[Sampler]
        /\ result'[Sampler] = result[Sampler] /\ mapped' = mapped
    <3>1. CASE AppOpen \/ AppClose
      BY <3>1 DEF AppOpen, AppClose, callVars
    <3>2. CASE \E c \in Contexts \ {Sampler} :
                 ValidateStep(c) \/ Return(c) \/ (\E a : Begin(c, a))
      BY <1>0, <3>2, OthersStay
    <3> QED BY <1>16, <3>1, <3>2, Zenon DEF OthersStep
  <2> QED BY <2>1, <2>2
<1>17. CASE OthersUnmap
  <2>1. PICK a : Unmap(a) /\ lost' = lost \cup {a}
    BY <1>17 DEF OthersUnmap
  <2>2. /\ UNCHANGED <<backend, wpc, fp, vpc, addr, result>>
        /\ mapped' \cup lost' = mapped \cup lost /\ lost \subseteq lost'
    BY <1>17, <2>1 DEF OthersUnmap, Unmap, callVars, walkVars
  <2> QED BY <2>2
<1>18. CASE UNCHANGED vars
  BY <1>18 DEF vars, validateVars, callVars, walkVars
<1> QED BY <1>1, <1>2, <1>3, <1>4, <1>6, <1>7, <1>8, <1>10, <1>11, <1>12, <1>13, <1>14, <1>15,
           <1>16, <1>17, <1>18 DEF WalkNext, HandlerStep

LEMMA StepErrnoInv == ASSUME WalkInv, [WalkNext]_vars PROVE ErrnoInv'
<1> USE DEF WalkInv, ErrnoInv
<1>1. CASE Interrupt
  BY <1>1 DEF Interrupt, StartWalk, StartHop, At, Goto
<1>2. CASE ReturnFromHandler
  BY <1>2 DEF ReturnFromHandler, At, Goto
<1>3. CASE Validating
  <2>1. vpc[Sampler] # "idle"
    BY <1>3, FrameWalkAssumption, SamplerValidates DEF Validating
  <2>2. wpc # "off" /\ UNCHANGED <<wpc, saved>>
    BY <1>3, <2>1 DEF Validating, FaultInv
  <2> QED BY <2>2
<1>4. CASE CheckFrame \/ HopAsk
  BY <1>4 DEF CheckFrame, HopAsk, Ask, At, Goto, threadVars
<1>5. CASE Validated \/ ReadRet \/ ReadNext \/ HopValidated \/ HopRead \/ HopFrame
  BY <1>5 DEF Validated, ReadRet, ReadNext, HopValidated, HopRead, HopFrame, At, Goto, threadVars
<1>6. CASE Callback \/ Record
  BY <1>6 DEF Callback, Record, At, Goto, threadVars
<1>7. CASE OthersStep \/ OthersUnmap
  BY <1>7 DEF OthersStep, OthersUnmap, threadVars
<1>8. CASE UNCHANGED vars
  BY <1>8 DEF vars, threadVars
<1> QED BY <1>1, <1>2, <1>3, <1>4, <1>5, <1>6, <1>7, <1>8 DEF WalkNext, HandlerStep

LEMMA WalkInvariant == WalkSpec => []WalkInv
<1>1. WalkInv /\ [WalkNext]_vars => VType'
  BY WalkStepsValidate, StepType DEF WalkInv, VType, validateVars, callVars
<1>2. WalkInv /\ [WalkNext]_vars => WalkInv'
  BY <1>1, StepFaultInv, StepErrnoInv DEF WalkInv
<1> QED BY <1>2, InitWalkInv, PTL DEF WalkSpec

\* The handler reads no memory that it has not found readable: whatever the
\* stack holds and whoever shares the pipe, it can only fault on words unmapped
\* after they were validated.
THEOREM WalkFaults == WalkSpec => []FaultOnlyIfLost
<1>1. WalkInv => FaultOnlyIfLost
  BY DEF WalkInv, FaultInv
<1> QED BY <1>1, WalkInvariant, PTL

\* The interrupted thread finds its errno as it was, on every path out.
THEOREM WalkErrno == WalkSpec => []ErrnoPreserved
<1>1. WalkInv => ErrnoPreserved
  BY DEF WalkInv, ErrnoInv, ErrnoPreserved
<1> QED BY <1>1, WalkInvariant, PTL
=============================================================================
