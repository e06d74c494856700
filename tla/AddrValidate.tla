---------------------------- MODULE AddrValidate ----------------------------
(***************************************************************************)
(* validate(addr): is the memory at addr readable?  The kernel is asked by *)
(* writing that memory into a pipe all callers share, whose two ends are   *)
(* kept in a pair of atomics and opened by the first caller.               *)
(*                                                                         *)
(* The callers are SIGPROF handlers, which PROFILER serialises, and any    *)
(* thread of the application, since the crate exports validate.  One step  *)
(* is one access to an atomic or one system call.  EINTR leads back to the *)
(* same call and changes nothing, so it is a stuttering step.              *)
(***************************************************************************)
EXTENDS Integers

CONSTANTS Contexts,    \* the threads and handlers that call validate
          Addresses,   \* the words a caller may ask about, Null among them
          Readable,    \* the words that are readable at first
          Fds,         \* the descriptors the process may still open
          Capacity,    \* how many checks the pipe has room for
          FirstAlone   \* TRUE: nobody calls while the pipe is being opened

ASSUME AddrValidateAssumption ==
  /\ Addresses \subseteq Nat
  /\ Readable \subseteq Nat
  /\ Fds \subseteq Nat
  /\ Capacity \in Nat
  /\ FirstAlone \in BOOLEAN

VARIABLES
  read_fd, write_fd,   \* MEM_VALIDATE_PIPE
  fdtab,               \* kernel: what each descriptor refers to
  chunks,              \* kernel: checks written to a pipe and not yet read
  mapped,              \* kernel: the words that are readable
  vpc,                 \* where each context is in validate
  addr,                \* its argument
  fd,                  \* the descriptor it loaded, or made
  spare,               \* the write end create_pipe gave it
  result               \* what validate returns to it

callVars == <<vpc, addr, fd, spare, result>>
validateVars == <<read_fd, write_fd, fdtab, chunks, mapped, callVars>>

Null == 0
NoFd == -1

\* Mutant: only one word is checked.
OneWord(a) == {a}

\* The words a check covers: CHECK_LENGTH is two of them.
Span(a) == a .. (a + 1)

Pipes  == Fds
Closed == [end |-> "closed", pipe |-> NoFd]
OfApp  == [end |-> "app", pipe |-> NoFd]
ReadEnd(p)  == [end |-> "read", pipe |-> p]
WriteEnd(p) == [end |-> "write", pipe |-> p]
PipeEnds == UNION {{ReadEnd(p), WriteEnd(p)} : p \in Pipes}

OpenPcs == {"load_close_read", "close_read", "load_close_write",
            "close_write", "create", "store_read", "store_write"}
FdPcs == {"read", "close_read", "close_write", "write"}
Vpcs == {"idle", "load_read", "load_write", "done"} \cup OpenPcs \cup FdPcs

PipeTypeOK ==
  /\ read_fd \in Fds \cup {NoFd} /\ write_fd \in Fds \cup {NoFd}
  /\ fdtab \in [Fds -> PipeEnds \cup {Closed, OfApp}]
  /\ chunks \in [Pipes -> 0 .. Capacity]
  /\ mapped \subseteq Readable
  /\ vpc \in [Contexts -> Vpcs]
  /\ addr \in [Contexts -> Nat]
  /\ fd \in [Contexts -> Fds \cup {NoFd}]
  /\ spare \in [Contexts -> Fds \cup {NoFd}]
  /\ result \in [Contexts -> BOOLEAN]

PipeInit ==
  /\ read_fd = NoFd /\ write_fd = NoFd
  /\ fdtab = [f \in Fds |-> Closed]
  /\ chunks = [p \in Pipes |-> 0]
  /\ mapped = Readable
  /\ vpc = [c \in Contexts |-> "idle"]
  /\ addr = [c \in Contexts |-> Null]
  /\ fd = [c \in Contexts |-> NoFd]
  /\ spare = [c \in Contexts |-> NoFd]
  /\ result = [c \in Contexts |-> FALSE]

-----------------------------------------------------------------------------
(* The kernel's side                                                       *)

Entry(f)   == IF f \in Fds THEN fdtab[f] ELSE Closed
Free       == {f \in Fds : fdtab[f] = Closed}
HasEnd(e)  == \E f \in Fds : fdtab[f] = e
Unused     == {p \in Pipes : ~HasEnd(ReadEnd(p)) /\ ~HasEnd(WriteEnd(p))}
IsLowest(f, S) == f \in S /\ \A g \in S : f <= g

\* What read(f) finds: a check, an empty pipe that may still be written to, or
\* else its end or no pipe at all.
HasCheck(f)   == \E p \in Pipes : Entry(f) = ReadEnd(p) /\ chunks[p] > 0
WouldBlock(f) == \E p \in Pipes : Entry(f) = ReadEnd(p) /\ chunks[p] = 0
                                  /\ HasEnd(WriteEnd(p))

\* write(f) to a pipe that has a reader and room for the check
CanWrite(f) == \E p \in Pipes : Entry(f) = WriteEnd(p) /\ HasEnd(ReadEnd(p))
                                /\ chunks[p] < Capacity

-----------------------------------------------------------------------------
(* validate                                                                *)

Move(c, from, to) == vpc[c] = from /\ vpc' = [vpc EXCEPT ![c] = to]

\* A null address is refused at once.
Begin(c, a) ==
  /\ FirstAlone => write_fd # NoFd \/ \A d \in Contexts : vpc[d] = "idle"
  /\ Move(c, "idle", IF a = Null THEN "done" ELSE "load_read")
  /\ addr' = [addr EXCEPT ![c] = a]
  /\ result' = [result EXCEPT ![c] = FALSE]
  /\ UNCHANGED <<read_fd, write_fd, fdtab, chunks, mapped, fd, spare>>

\* One of the four loads of an atomic
Load(c, from, to, atomic) ==
  /\ Move(c, from, to)
  /\ fd' = [fd EXCEPT ![c] = atomic]
  /\ UNCHANGED <<read_fd, write_fd, fdtab, chunks, mapped, addr, spare, result>>

\* Mutant: EAGAIN counts as a broken pipe.
ReadPipeBlocking(c) ==
  /\ \/ /\ HasCheck(fd[c])
        /\ chunks' = [chunks EXCEPT ![fdtab[fd[c]].pipe] = @ - 1]
        /\ Move(c, "read", "load_write")
     \/ /\ ~HasCheck(fd[c])
        /\ Move(c, "read", "load_close_read")
        /\ UNCHANGED chunks
  /\ UNCHANGED <<read_fd, write_fd, fdtab, mapped, addr, fd, spare, result>>

\* The pipe works if a check is read from it, or if it is empty; a file of the
\* application's, whatever is in it.
ReadPipe(c) ==
  /\ \/ /\ HasCheck(fd[c])
        /\ chunks' = [chunks EXCEPT ![fdtab[fd[c]].pipe] = @ - 1]
        /\ Move(c, "read", "load_write")
     \/ /\ WouldBlock(fd[c]) \/ Entry(fd[c]) = OfApp
        /\ Move(c, "read", "load_write")
        /\ UNCHANGED chunks
     \/ /\ ~HasCheck(fd[c]) /\ ~WouldBlock(fd[c])
        /\ Move(c, "read", "load_close_read")
        /\ UNCHANGED chunks
  /\ UNCHANGED <<read_fd, write_fd, fdtab, mapped, addr, fd, spare, result>>

\* close, whose result is ignored
ClosePipe(c, from, to) ==
  /\ Move(c, from, to)
  /\ fdtab' = [f \in Fds |-> IF f = fd[c] THEN Closed ELSE fdtab[f]]
  /\ UNCHANGED <<read_fd, write_fd, chunks, mapped, addr, fd, spare, result>>

\* create_pipe takes the two lowest free descriptors, or fails for want of two:
\* then validate refuses and the atomics keep what they held.
CreatePipe(c) ==
  /\ \/ /\ \E r, w \in Fds, p \in Pipes :
             /\ IsLowest(r, Free) /\ IsLowest(w, Free \ {r}) /\ IsLowest(p, Unused)
             /\ fdtab' = [fdtab EXCEPT ![r] = ReadEnd(p), ![w] = WriteEnd(p)]
             /\ chunks' = [chunks EXCEPT ![p] = 0]
             /\ fd' = [fd EXCEPT ![c] = r]
             /\ spare' = [spare EXCEPT ![c] = w]
        /\ Move(c, "create", "store_read")
     \/ /\ \A f, g \in Free : f = g
        /\ Move(c, "create", "done")
        /\ UNCHANGED <<fdtab, chunks, fd, spare>>
  /\ UNCHANGED <<read_fd, write_fd, mapped, addr, result>>

StoreRead(c) ==
  /\ Move(c, "store_read", "store_write")
  /\ read_fd' = fd[c]
  /\ UNCHANGED <<write_fd, fdtab, chunks, mapped, addr, fd, spare, result>>

\* Mutant: both atomics get the read end.
StoreWriteSame(c) ==
  /\ Move(c, "store_write", "load_write")
  /\ write_fd' = fd[c]
  /\ UNCHANGED <<read_fd, fdtab, chunks, mapped, addr, fd, spare, result>>

StoreWrite(c) ==
  /\ Move(c, "store_write", "load_write")
  /\ write_fd' = spare[c]
  /\ spare' = [spare EXCEPT ![c] = NoFd]
  /\ UNCHANGED <<read_fd, fdtab, chunks, mapped, addr, fd, result>>

\* The write that asks the question.  EFAULT, a full pipe and a pipe that is
\* gone all mean "not readable".
WritePipe(c) ==
  /\ Move(c, "write", "done")
  /\ fd' = [fd EXCEPT ![c] = NoFd]
  /\ IF CanWrite(fd[c]) /\ Span(addr[c]) \subseteq mapped
       THEN /\ chunks' = [chunks EXCEPT ![fdtab[fd[c]].pipe] = @ + 1]
            /\ result' = [result EXCEPT ![c] = TRUE]
       ELSE /\ \E b \in {FALSE, Entry(fd[c]) = OfApp /\ Span(addr[c]) \subseteq mapped} :
                 result' = [result EXCEPT ![c] = b]
            /\ UNCHANGED chunks
  /\ UNCHANGED <<read_fd, write_fd, fdtab, mapped, addr, spare>>

Return(c) ==
  /\ Move(c, "done", "idle")
  /\ addr' = [addr EXCEPT ![c] = Null]
  /\ result' = [result EXCEPT ![c] = FALSE]
  /\ fd' = [fd EXCEPT ![c] = NoFd]
  /\ UNCHANGED <<read_fd, write_fd, fdtab, chunks, mapped, spare>>

\* validate goes on.
ValidateStep(c) ==
  \/ Load(c, "load_read", "read", read_fd) \/ ReadPipe(c)
  \/ Load(c, "load_close_read", "close_read", read_fd)
  \/ ClosePipe(c, "close_read", "load_close_write")
  \/ Load(c, "load_close_write", "close_write", write_fd)
  \/ ClosePipe(c, "close_write", "create")
  \/ CreatePipe(c) \/ StoreRead(c) \/ StoreWrite(c)
  \/ Load(c, "load_write", "write", write_fd) \/ WritePipe(c)

-----------------------------------------------------------------------------
(* The application, in the meantime                                        *)

AppOpen ==
  /\ \E f \in Fds : IsLowest(f, Free) /\ fdtab' = [fdtab EXCEPT ![f] = OfApp]
  /\ UNCHANGED <<read_fd, write_fd, chunks, mapped, callVars>>

AppClose ==
  /\ \E f \in Fds : fdtab[f] = OfApp /\ fdtab' = [fdtab EXCEPT ![f] = Closed]
  /\ UNCHANGED <<read_fd, write_fd, chunks, mapped, callVars>>

Unmap(a) ==
  /\ a \in mapped
  /\ mapped' = mapped \ {a}
  /\ UNCHANGED <<read_fd, write_fd, fdtab, chunks, callVars>>

ValidateNext ==
  \/ \E c \in Contexts : ValidateStep(c) \/ Return(c) \/ \E a \in Addresses : Begin(c, a)
  \/ AppOpen \/ AppClose \/ \E a \in mapped : Unmap(a)

ValidateSpec == PipeInit /\ [][ValidateNext]_validateVars

-----------------------------------------------------------------------------
(* Properties                                                              *)

\* Memory that is readable is never declared unreadable because of what other
\* callers do to the shared pipe: once it is open, it stays open and never
\* fills up, whoever calls validate at the same time.
ReadableAccepted ==
  \A c \in Contexts :
    vpc[c] = "done" /\ addr[c] # Null /\ Span(addr[c]) \subseteq mapped /\ write_fd # NoFd
      => result[c]

\* validate never reads from, writes to or closes a descriptor that belongs to
\* the application, whose files may have any number that was ever free.
OwnDescriptors ==
  \A c \in Contexts : vpc[c] \in FdPcs => Entry(fd[c]) # OfApp

\* No pipe is left behind (issue 198): outside open_pipe the process has no
\* pipe of this module open but the one in the atomics.
NoPipeLeak ==
  (\A c \in Contexts : vpc[c] \notin OpenPcs) =>
    \A f \in Fds : fdtab[f] \in PipeEnds => f \in {read_fd, write_fd}
=============================================================================
