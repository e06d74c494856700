----------------------------- MODULE FrameWalk ------------------------------
(***************************************************************************)
(* What perf_signal_handler does to the interrupted thread once it has the *)
(* PROFILER lock: it looks at the interrupted instruction, walks the stack *)
(* with one of the two backends that validate what they read, records the  *)
(* frames, and gives the thread its errno back.                            *)
(*                                                                         *)
(* Every word is validated (AddrValidate) before it is read, one call for  *)
(* each frame, while other threads call validate, open and close files and *)
(* unmap memory.  Memory is a sequence of words; a saved frame pointer is  *)
(* the number of a word, and so are instruction pointers, beyond them.     *)
(* The lock makes the handler the only one of its kind: it is one context. *)
(***************************************************************************)
EXTENDS AddrValidate, Sequences

CONSTANTS Sampler,    \* the context of the handler
          Backends,   \* the builds: "frame-pointer", "framehop"
          Memories,   \* what the stack may hold when SIGPROF arrives
          Ips,        \* the instructions that may be interrupted
          Starts,     \* what their frame-pointer register may hold
          Volatile,   \* bound: the words other threads may unmap
          Segments,   \* Profiler.blocklist_segments, pairs <<start, end>>
          MaxDepth    \* MAX_DEPTH

ASSUME FrameWalkAssumption ==
  /\ Sampler \in Contexts
  /\ Backends \subseteq {"frame-pointer", "framehop"}
  /\ Ips \subseteq Nat /\ Starts \subseteq Nat
  /\ Memories # {} /\ Memories \subseteq Seq(Nat)
  /\ MaxDepth \in Nat

VARIABLES backend,   \* the build this is
          mem,       \* the words of the stack
          wpc,       \* where the handler is
          start,     \* history: the frame pointer of the ucontext
          fp,        \* frame_pointer, or the word framehop asks for
          last,      \* last_frame_pointer
          frame,     \* the ip of the frame passed to the callback
          bt,        \* the backtrace: a sequence of ips
          lost,      \* history: words unmapped since the walk last asked
          errno,     \* of the interrupted thread
          saved      \* ErrnoProtector

walkVars  == <<start, fp, last, frame, bt>>
threadVars == <<errno, saved>>
vars == <<validateVars, backend, mem, wpc, walkVars, lost, threadVars>>

\* The interrupted code may be about to look at the errno of its last call.
Errnos == {"own", "clobbered"}
Wpcs == {"off", "check", "validating", "read_ret", "callback", "read_next",
         "hop", "hop_validating", "hop_read", "record", "return", "dead"}

HandlerTypeOK ==
  /\ backend \in Backends
  /\ mem \in Memories
  /\ wpc \in Wpcs
  /\ {start, fp, last, frame} \subseteq Nat
  /\ bt \in Seq(Nat) /\ Len(bt) <= MaxDepth
  /\ lost \subseteq Readable
  /\ errno \in Errnos /\ saved \in Errnos

WalkTypeOK == PipeTypeOK /\ HandlerTypeOK

AtRest == start = Null /\ fp = Null /\ last = Null /\ frame = Null /\ bt = <<>>

WalkInit ==
  /\ PipeInit
  /\ backend \in Backends
  /\ mem = CHOOSE m \in Memories : TRUE
  /\ wpc = "off"
  /\ AtRest
  /\ lost = {}
  /\ errno = "own" /\ saved = "own"

Word(m, a) == IF a \in DOMAIN m THEN m[a] ELSE Null

\* The words of a FramePointerLayout
FrameWords(p) == p .. (p + 1)

\* Profiler::is_blocklisted: the first byte of a segment is not in it.
IsBlocklisted(a) == \E s \in Segments : a > s[1] /\ a < s[2]

At(p) == wpc = p
Goto(p) == wpc' = p

-----------------------------------------------------------------------------
(* perf_signal_handler, before and after the walk                          *)

\* The stack may hold anything the program put there; the frame pointer may be
\* any value, since code built without frame pointers uses its register freely.
StartWalk ==
  /\ backend = "frame-pointer"
  /\ mem' \in Memories
  /\ start' \in Starts /\ fp' = start'
  /\ Goto("check")
  /\ UNCHANGED <<last, frame, bt>>

\* framehop starts at the interrupted instruction, or, on aarch64 Linux, at the
\* address in the link register, which may be any.
StartHop ==
  /\ backend = "framehop"
  /\ frame' \in Ips
  /\ Goto("callback")
  /\ UNCHANGED <<mem, start, fp, last, bt>>

Interrupt ==
  /\ At("off")
  /\ \E ip \in Ips :
       IF IsBlocklisted(ip)
         THEN Goto("return") /\ UNCHANGED <<mem, walkVars>>
         ELSE StartWalk \/ StartHop
  /\ saved' = errno
  /\ UNCHANGED <<validateVars, backend, lost, errno>>

\* Mutant: a backtrace that is full does not end the walk.
CallbackFull ==
  /\ At("callback")
  /\ IF backend = "frame-pointer" /\ IsBlocklisted(frame)
       THEN Goto("record") /\ UNCHANGED <<bt, frame>>
       ELSE /\ bt' = IF Len(bt) < MaxDepth THEN Append(bt, frame) ELSE bt
            /\ frame' = Null
            /\ Goto(IF backend = "framehop" THEN "hop" ELSE "read_next")
  /\ UNCHANGED <<validateVars, backend, mem, start, fp, last, lost, threadVars>>

\* Mutant: one frame too many is kept.
CallbackOffByOne ==
  /\ At("callback")
  /\ IF Len(bt) > MaxDepth
       THEN Goto("record") /\ UNCHANGED bt
       ELSE /\ bt' = Append(bt, frame)
            /\ Goto(IF backend = "framehop" THEN "hop" ELSE "read_next")
  /\ UNCHANGED <<validateVars, backend, mem, start, fp, last, frame, lost, threadVars>>

\* The callback of TraceImpl::trace; only the frame-pointer build looks at the
\* blocklist for every frame.
Callback ==
  /\ At("callback")
  /\ frame' = Null
  /\ IF \/ backend = "frame-pointer" /\ IsBlocklisted(frame)
        \/ Len(bt) = MaxDepth
       THEN Goto("record") /\ UNCHANGED bt
       ELSE /\ bt' = Append(bt, frame)
            /\ Goto(IF backend = "framehop" THEN "hop" ELSE "read_next")
  /\ UNCHANGED <<validateVars, backend, mem, start, fp, last, lost, threadVars>>

Record ==
  /\ At("record")
  /\ Goto("return")
  /\ UNCHANGED <<validateVars, backend, mem, walkVars, lost, threadVars>>

\* Mutant: errno is left as the walk's system calls set it.
ReturnClobbered ==
  /\ At("return")
  /\ Goto("off")
  /\ start' = Null /\ fp' = Null /\ last' = Null /\ frame' = Null /\ bt' = <<>>
  /\ UNCHANGED <<validateVars, backend, mem, lost, threadVars>>

\* Drop for ErrnoProtector, on every path out of the handler
ReturnFromHandler ==
  /\ At("return")
  /\ Goto("off")
  /\ errno' = saved
  /\ start' = Null /\ fp' = Null /\ last' = Null /\ frame' = Null /\ bt' = <<>>
  /\ UNCHANGED <<validateVars, backend, mem, lost, saved>>

-----------------------------------------------------------------------------
(* validate, called by the walk                                            *)

Ask(a, to) == Begin(Sampler, a) /\ Goto(to) /\ lost' = {}

\* Its system calls may fail, which sets errno.
Validating ==
  /\ ValidateStep(Sampler)
  /\ errno' \in Errnos
  /\ UNCHANGED <<backend, mem, wpc, walkVars, lost, saved>>

-----------------------------------------------------------------------------
(* The frame-pointer backend                                               *)

\* Mutant: the stack is taken to grow upwards.
CheckFrameInverted ==
  /\ At("check")
  /\ IF last # Null /\ fp > last
       THEN Goto("record") /\ UNCHANGED <<validateVars, lost>>
       ELSE Ask(fp, "validating")
  /\ UNCHANGED <<backend, mem, walkVars, threadVars>>

\* The walk ends when the frame pointer is below the last one.
CheckFrame ==
  /\ At("check")
  /\ IF last # Null /\ fp < last
       THEN Goto("record") /\ UNCHANGED <<validateVars, lost>>
       ELSE Ask(fp, "validating")
  /\ UNCHANGED <<backend, mem, walkVars, threadVars>>

Validated ==
  /\ At("validating")
  /\ Return(Sampler)
  /\ IF result[Sampler]
       THEN last' = fp /\ Goto("read_ret")
       ELSE Goto("record") /\ UNCHANGED last
  /\ UNCHANGED <<backend, mem, start, fp, frame, bt, lost, threadVars>>

\* The two reads of the frame; memory that has gone is a SIGSEGV.
ReadRet ==
  /\ At("read_ret")
  /\ IF FrameWords(fp) \subseteq mapped
       THEN frame' = Word(mem, fp + 1) /\ Goto("callback")
       ELSE Goto("dead") /\ UNCHANGED frame
  /\ UNCHANGED <<validateVars, backend, mem, start, fp, last, bt, lost, threadVars>>

ReadNext ==
  /\ At("read_next")
  /\ IF FrameWords(fp) \subseteq mapped
       THEN fp' = Word(mem, fp) /\ Goto("check")
       ELSE Goto("dead") /\ UNCHANGED fp
  /\ UNCHANGED <<validateVars, backend, mem, start, last, frame, bt, lost, threadVars>>

-----------------------------------------------------------------------------
(* The framehop backend: the crate's unwinder, which is external, asks for *)
(* words of the stack through read_stack and yields frames as it sees fit. *)

HopAsk ==
  /\ At("hop")
  /\ \E a \in Addresses : Ask(a, "hop_validating") /\ fp' = a
  /\ UNCHANGED <<backend, mem, start, last, frame, bt, threadVars>>

\* read_stack: a word that is not readable is an error for the unwinder.
HopValidated ==
  /\ At("hop_validating")
  /\ Return(Sampler)
  /\ Goto(IF result[Sampler] THEN "hop_read" ELSE "hop")
  /\ UNCHANGED <<backend, mem, walkVars, lost, threadVars>>

HopRead ==
  /\ At("hop_read")
  /\ Goto(IF fp \in mapped THEN "hop" ELSE "dead")
  /\ UNCHANGED <<validateVars, backend, mem, walkVars, lost, threadVars>>

HopFrame ==
  /\ At("hop")
  /\ \/ \E ip \in Ips : frame' = ip /\ Goto("callback")
     \/ Goto("record") /\ UNCHANGED frame
  /\ UNCHANGED <<validateVars, backend, mem, start, fp, last, bt, lost, threadVars>>

-----------------------------------------------------------------------------
(* The rest of the process.  Its threads call validate once the handler's  *)
(* first call has opened the pipe (FirstAlone).                            *)

OthersStep ==
  /\ \/ \E c \in Contexts \ {Sampler} :
          \/ ValidateStep(c) \/ Return(c)
          \/ write_fd # NoFd /\ \E a \in Addresses : Begin(c, a)
     \/ AppOpen \/ AppClose
  /\ UNCHANGED <<backend, mem, wpc, walkVars, lost, threadVars>>

OthersUnmap ==
  /\ \E a \in Volatile : Unmap(a) /\ lost' = lost \cup {a}
  /\ UNCHANGED <<backend, mem, wpc, walkVars, threadVars>>

HandlerStep ==
  \/ Validating \/ CheckFrame \/ Validated \/ ReadRet \/ ReadNext
  \/ HopAsk \/ HopValidated \/ HopRead \/ HopFrame
  \/ Callback \/ Record \/ ReturnFromHandler

WalkNext == Interrupt \/ HandlerStep \/ OthersStep \/ OthersUnmap

\* A handler runs until it returns; nothing is assumed of the other threads.
WalkSpec == WalkInit /\ [][WalkNext]_vars /\ WF_vars(HandlerStep)

-----------------------------------------------------------------------------
(* Properties                                                              *)

\* The walk reads nothing that it has not found readable: it can only crash if
\* another thread unmaps the frame between validate and the read.
FaultOnlyIfLost == wpc = "dead" => FrameWords(fp) \cap lost # {}

\* The saved frame pointers from p lead up the stack to Null.
InOrder(m, p) ==
  \E S \in SUBSET DOMAIN m :
    /\ p \in S
    /\ \A q \in S : q + 1 \in DOMAIN m /\ (m[q] = Null \/ (q < m[q] /\ m[q] \in S))

\* The return addresses along the frames from each word on
CallersFrom(m) ==
  LET above[p \in DOMAIN m] ==
        <<Word(m, p + 1)>> \o (IF m[p] \in (p + 1) .. Len(m) THEN above[m[p]] ELSE <<>>)
  IN above

WellFormed == InOrder(mem, start)
Callers == CallersFrom(mem)[start]

\* Of a stack in order, whose memory stays, every frame is recorded up to the
\* depth limit or the first blocklisted one: no call of validate by another
\* thread, on the pipe they share, cuts it short.
StackComplete ==
  /\ wpc = "record" /\ backend = "frame-pointer" /\ WellFormed
  /\ DOMAIN mem \subseteq mapped /\ write_fd # NoFd
  => LET kept(n) == n <= MaxDepth /\ \A i \in 1 .. n : ~IsBlocklisted(Callers[i])
         depth == CHOOSE n \in 0 .. Len(Callers) :
                    kept(n) /\ (n < Len(Callers) => ~kept(n + 1))
     IN bt = SubSeq(Callers, 1, depth)

\* The interrupted code finds the errno of its own last call, whatever the
\* system calls of the walk have set.
ErrnoPreserved == wpc = "off" => errno = "own"

\* A walk ends, whatever the stack holds: a frame that points at itself, or
\* around a loop, does not keep the handler in the lock for ever.
WalkEnds ==
  backend = "frame-pointer" /\ wpc = "check" ~> wpc \in {"off", "dead"}
=============================================================================
