----------------------------- MODULE Libgraprof -----------------------------
(***************************************************************************)
(* The library inside the profiled program (libgraprof/): the constructor  *)
(* that opens the trace, the hooks on function entry and exit and on the   *)
(* allocator, one statement a step, and the destructor that closes the     *)
(* trace.  A thread may be interrupted between any two statements by a     *)
(* signal handler that is itself instrumented; the handlers pile up as     *)
(* contexts, and only the topmost one runs.                                *)
(***************************************************************************)
EXTENDS Tracebuffer, FiniteSets, SequencesExt

CONSTANTS
  Threads,
  Functions,      (* the instrumented functions                            *)
  NoFunction,
  ObjectFiles,    (* how many object files the process has                 *)
  MaxCalls,       (* bound: hooked calls the program makes                 *)
  MaxSignals      (* bound: signals delivered                              *)

ASSUME ObjectFilesAssumption == ObjectFiles \in Nat
ASSUME BoundsAssumption == MaxCalls \in Nat /\ MaxSignals \in Nat

VARIABLES
  phase,          (* "opening", "profiling", "off" (the trace could not be
                     opened), "closed", "unclosed" (the program has ended
                     with the hooks off), "killed" or "corrupt"            *)
  libgraprof_hooked,
  clock,          (* highrestimer_get, which never goes back               *)
  static_packet,  (* the static tracebuffer_packet of each hook            *)
  contexts,       (* per thread: the program, its handlers above it        *)
  errno,          (* per thread *)
  ncalls, nsignals,
  recorded,       (* history: the packets the hooks meant to append        *)
  program_errno   (* history: errno without the library, per thread        *)

hookvars == <<libgraprof_hooked, static_packet>>
history  == <<recorded, program_errno>>
vars     == <<tracebuffer_buffer, tracebuffer_index, header_count, entries, packets,
              failed, phase, libgraprof_hooked, static_packet, clock, contexts, errno, ncalls,
              nsignals, recorded, program_errno>>

-----------------------------------------------------------------------------
(* The kinds of packets: function entry, function exit, and "+" for any of *)
(* malloc, calloc, realloc and free, whose hooks are built the same way.   *)
Kinds == {"e", "x", "+"}

(* The statements of a hook.  The wrappers of the allocator call the real  *)
(* one first and save errno after it; the other two have nothing to call.  *)
StepsSavingFirst(kind) ==
  IF kind = "+"
  THEN <<"check", "disarm", "save", "real", "fill", "read", "store", "flush", "rearm">>
  ELSE <<"check", "save", "disarm", "fill", "read", "store", "flush", "rearm">>

StepsArmed(kind) ==
  IF kind = "+"
  THEN <<"check", "real", "save", "fill", "read", "store", "flush", "rearm">>
  ELSE <<"check", "save", "fill", "read", "store", "flush", "rearm">>

Steps(kind) ==
  IF kind = "+"
  THEN <<"check", "disarm", "real", "save", "fill", "read", "store", "flush", "rearm">>
  ELSE <<"check", "save", "disarm", "fill", "read", "store", "flush", "rearm">>

NoHook == [kind |-> "none"]

NewHook(kind, func) ==
  [kind |-> kind, func |-> func, step |-> 1, errnum |-> "none", slot |-> 0, time |-> 0]

(* calls: the instrumented functions entered and not left in the context.  *)
NewContext == [calls |-> <<>>, hook |-> NoHook]

Packet(kind, func, time) == [kind |-> kind, func |-> func, time |-> time]

Top(t)  == Last(contexts[t])
Hook(t) == Top(t).hook

Idle(t)   == Hook(t) = NoHook
At(t, s)  == ~Idle(t) /\ Steps(Hook(t).kind)[Hook(t).step] = s
Nested(t) == Len(contexts[t]) > 1

SetTop(t, c)  == contexts' = [contexts EXCEPT ![t] = Append(Front(@), c)]
SetHook(t, h) == SetTop(t, [Top(t) EXCEPT !.hook = h])
Advance(t, h) == SetHook(t, [h EXCEPT !.step = @ + 1])

Running == phase \in {"profiling", "off"}

Init ==
  /\ TracebufferInit
  /\ phase = "opening"
  /\ libgraprof_hooked = FALSE
  /\ static_packet = [kind \in Kinds |-> Packet(kind, NoFunction, 0)]
  /\ clock = 0
  /\ contexts = [t \in Threads |-> <<NewContext>>]
  /\ errno = [t \in Threads |-> "none"]
  /\ ncalls = 0
  /\ nsignals = 0
  /\ recorded = <<>>
  /\ program_errno = [t \in Threads |-> "none"]

-----------------------------------------------------------------------------
(* libgraprof_init: one header entry per object file, then the count, then *)
(* the hooks.  Whatever fails leaves the hooks off for good.               *)
WriteHeaderEntry ==
  /\ phase = "opening"
  /\ entries < ObjectFiles
  /\ tracebuffer_append_header
  /\ UNCHANGED <<phase, hookvars, clock, contexts, errno, ncalls, nsignals, history>>

FinishHeader ==
  /\ phase = "opening"
  /\ entries = ObjectFiles
  /\ tracebuffer_finish_header
  /\ phase' = "profiling"
  /\ libgraprof_hooked' = TRUE
  /\ UNCHANGED <<static_packet, clock, contexts, errno, ncalls, nsignals, history>>

OpeningFails ==
  /\ phase = "opening"
  /\ phase' = "off"
  /\ UNCHANGED <<filevars, failed, buffervars, hookvars, clock, contexts, errno, ncalls,
                 nsignals, history>>

-----------------------------------------------------------------------------
(* What the program does between hooks: it calls an instrumented function, *)
(* returns from one, or calls the allocator, which a handler may not do.   *)
Begin(t, kind, func, calls) ==
  /\ Running
  /\ Idle(t)
  /\ SetTop(t, [calls |-> calls, hook |-> NewHook(kind, func)])
  /\ UNCHANGED <<filevars, failed, buffervars, phase, hookvars, clock, errno, nsignals,
                 history>>

Counted == ncalls < MaxCalls /\ ncalls' = ncalls + 1

CallFunction(t, f) == Begin(t, "e", f, Append(Top(t).calls, f)) /\ Counted

ReturnFromFunction(t) ==
  /\ Top(t).calls # <<>>
  /\ Begin(t, "x", Last(Top(t).calls), Front(Top(t).calls))
  /\ UNCHANGED ncalls

CallAllocator(t) ==
  /\ ~Nested(t)
  /\ Begin(t, "+", NoFunction, Top(t).calls)
  /\ Counted

(* A signal arrives, at any statement; its handler returns.                *)
Signal(t) ==
  /\ Running
  /\ nsignals < MaxSignals
  /\ nsignals' = nsignals + 1
  /\ contexts' = [contexts EXCEPT ![t] = Append(@, NewContext)]
  /\ UNCHANGED <<filevars, failed, buffervars, phase, hookvars, clock, errno, ncalls, history>>

ReturnFromHandler(t) ==
  /\ Running
  /\ Nested(t)
  /\ Idle(t) /\ Top(t).calls = <<>>
  /\ contexts' = [contexts EXCEPT ![t] = Front(@)]
  /\ UNCHANGED <<filevars, failed, buffervars, phase, hookvars, clock, errno, ncalls, nsignals,
                 history>>

-----------------------------------------------------------------------------
(* The hooks, one statement after another.                                 *)
LibcCall(t) ==
  \/ UNCHANGED <<errno, program_errno>>
  \/ /\ errno' = [errno EXCEPT ![t] = "ENOMEM"]
     /\ program_errno' = [program_errno EXCEPT ![t] = "ENOMEM"]

(* A hook that is off does nothing; a wrapper only calls the C library.    *)
CheckEntriesOnly(t) ==
  /\ At(t, "check")
  /\ IF libgraprof_hooked \/ Hook(t).kind = "x"
     THEN Advance(t, Hook(t)) /\ UNCHANGED <<errno, program_errno>>
     ELSE /\ SetHook(t, NoHook)
          /\ IF Hook(t).kind = "+" THEN LibcCall(t) ELSE UNCHANGED <<errno, program_errno>>
  /\ UNCHANGED <<filevars, failed, buffervars, phase, hookvars, clock, ncalls, nsignals,
                 recorded>>

Check(t) ==
  /\ At(t, "check")
  /\ IF libgraprof_hooked
     THEN Advance(t, Hook(t)) /\ UNCHANGED <<errno, program_errno>>
     ELSE /\ SetHook(t, NoHook)
          /\ IF Hook(t).kind = "+" THEN LibcCall(t) ELSE UNCHANGED <<errno, program_errno>>
  /\ UNCHANGED <<filevars, failed, buffervars, phase, hookvars, clock, ncalls, nsignals,
                 recorded>>

Disarm(t) ==
  /\ At(t, "disarm")
  /\ libgraprof_hooked' = FALSE
  /\ Advance(t, Hook(t))
  /\ UNCHANGED <<filevars, failed, buffervars, phase, static_packet, clock, errno, ncalls,
                 nsignals, history>>

(* The hook of malloc calls malloc, which is the wrapper again: with the   *)
(* hooks off it goes straight to the C library.                            *)
RealCall(t) ==
  /\ At(t, "real")
  /\ IF libgraprof_hooked
     THEN /\ contexts' = [contexts EXCEPT ![t] =
                 Append(Append(Front(@), [Top(t) EXCEPT !.hook.step = @ + 1]),
                        [NewContext EXCEPT !.hook = NewHook("+", NoFunction)])]
          /\ Counted
          /\ UNCHANGED <<errno, program_errno>>
     ELSE Advance(t, Hook(t)) /\ LibcCall(t) /\ UNCHANGED ncalls
  /\ UNCHANGED <<filevars, failed, buffervars, phase, hookvars, clock, nsignals, recorded>>

SaveErrno(t) ==
  /\ At(t, "save")
  /\ Advance(t, [Hook(t) EXCEPT !.errnum = errno[t]])
  /\ UNCHANGED <<filevars, failed, buffervars, phase, hookvars, clock, errno, ncalls,
                 nsignals, history>>

Fill(t) ==
  /\ At(t, "fill")
  /\ clock' = clock + 1
  /\ static_packet' = [static_packet EXCEPT ![Hook(t).kind] =
                          Packet(Hook(t).kind, Hook(t).func, clock')]
  /\ Advance(t, [Hook(t) EXCEPT !.time = clock'])
  /\ UNCHANGED <<filevars, failed, buffervars, phase, libgraprof_hooked, errno, ncalls,
                 nsignals, history>>

ReadIndex(t) ==
  /\ At(t, "read")
  /\ Advance(t, [Hook(t) EXCEPT !.slot = tracebuffer_index])
  /\ UNCHANGED <<filevars, failed, buffervars, phase, hookvars, clock, errno, ncalls,
                 nsignals, history>>

StorePacket(t) ==
  /\ At(t, "store")
  /\ Store(Hook(t).slot, static_packet[Hook(t).kind])
  /\ recorded' = Append(recorded, Packet(Hook(t).kind, Hook(t).func, Hook(t).time))
  /\ Advance(t, Hook(t))
  /\ UNCHANGED <<phase, hookvars, clock, errno, ncalls, nsignals, program_errno>>

(* The packet goes where the array ends: from here on anything may happen. *)
StoreBeyond(t) ==
  /\ At(t, "store")
  /\ Hook(t).slot >= BUFSIZE
  /\ phase' = "corrupt"
  /\ UNCHANGED <<filevars, failed, buffervars, hookvars, clock, contexts, errno, ncalls,
                 nsignals, history>>

(* The index compared with BUFSIZE is the one just stored or, if another   *)
(* thread has come in between and it is read again, the present one.       *)
Seen(t) == {Hook(t).slot + 1, tracebuffer_index}

NoFlush(t) ==
  /\ At(t, "flush")
  /\ Seen(t) # {BUFSIZE}
  /\ Advance(t, Hook(t))
  /\ UNCHANGED <<filevars, failed, buffervars, phase, hookvars, clock, errno, ncalls,
                 nsignals, history>>

Flush(t) ==
  /\ At(t, "flush")
  /\ BUFSIZE \in Seen(t)
  /\ Advance(t, Hook(t))
  /\ \/ FlushDone /\ UNCHANGED errno
     \/ \E n \in 0 .. BUFSIZE : FlushFailed(n) /\ errno' = [errno EXCEPT ![t] = "EIO"]
  /\ UNCHANGED <<phase, hookvars, clock, ncalls, nsignals, history>>

RearmForgotten(t) ==
  /\ At(t, "rearm")
  /\ errno' = [errno EXCEPT ![t] = Hook(t).errnum]
  /\ SetHook(t, NoHook)
  /\ UNCHANGED <<filevars, failed, buffervars, phase, hookvars, clock, ncalls, nsignals,
                 history>>

Rearm(t) ==
  /\ At(t, "rearm")
  /\ libgraprof_hooked' = TRUE
  /\ errno' = [errno EXCEPT ![t] = Hook(t).errnum]
  /\ SetHook(t, NoHook)
  /\ UNCHANGED <<filevars, failed, buffervars, phase, static_packet, clock, ncalls,
                 nsignals, history>>

HookStep(t) ==
  /\ Running
  /\ \/ Check(t) \/ Disarm(t) \/ RealCall(t) \/ SaveErrno(t) \/ Fill(t) \/ ReadIndex(t)
     \/ StorePacket(t) \/ StoreBeyond(t) \/ NoFlush(t) \/ Flush(t) \/ Rearm(t)

-----------------------------------------------------------------------------
(* exit, from the program or from a handler: libgraprof_fini closes the    *)
(* trace if the hooks are on.                                              *)
Exit(t) ==
  /\ phase = "profiling"
  /\ Idle(t)
  /\ \/ /\ libgraprof_hooked
        /\ libgraprof_hooked' = FALSE
        /\ tracebuffer_close
        /\ phase' = "closed"
     \/ /\ ~libgraprof_hooked
        /\ phase' = "unclosed"
        /\ UNCHANGED <<filevars, failed, buffervars, libgraprof_hooked>>
  /\ UNCHANGED <<static_packet, clock, contexts, errno, ncalls, nsignals, history>>

(* SIGKILL, at any time.                                                   *)
Kill ==
  /\ phase \in {"opening", "profiling"}
  /\ phase' = "killed"
  /\ \E n \in 0 .. Len(packets) : Truncate(n)
  /\ UNCHANGED <<hookvars, clock, contexts, errno, ncalls, nsignals, history>>

Next ==
  \/ WriteHeaderEntry \/ FinishHeader \/ OpeningFails \/ Kill
  \/ \E t \in Threads :
       \/ HookStep(t) \/ Signal(t) \/ ReturnFromHandler(t) \/ Exit(t)
       \/ ReturnFromFunction(t) \/ CallAllocator(t)
       \/ \E f \in Functions : CallFunction(t, f)

(* A thread gets on with the hook it is in, and a handler returns.         *)
LeaveHandler(t) == Nested(t) /\ (ReturnFromFunction(t) \/ ReturnFromHandler(t))

Spec ==
  /\ Init
  /\ [][Next]_vars
  /\ \A t \in Threads : WF_vars(HookStep(t)) /\ WF_vars(LeaveHandler(t))

-----------------------------------------------------------------------------
AnyPacket == [kind : Kinds, func : Functions \cup {NoFunction}, time : 0 .. clock]

AnyHook ==
  {NoHook} \cup
  [kind : Kinds, func : Functions \cup {NoFunction}, step : 1 .. 9,
   errnum : {"none", "ENOMEM", "EIO"}, slot : 0 .. BUFSIZE, time : 0 .. clock]

(* Types, and the slots below the index all hold packets.                  *)
TypeOK ==
  /\ tracebuffer_index \in 0 .. BUFSIZE
  /\ 0 .. tracebuffer_index - 1 \subseteq DOMAIN tracebuffer_buffer
  /\ DOMAIN tracebuffer_buffer \subseteq 0 .. BUFSIZE - 1
  /\ \A slot \in DOMAIN tracebuffer_buffer : tracebuffer_buffer[slot] \in AnyPacket
  /\ entries \in 0 .. ObjectFiles /\ header_count \in 0 .. ObjectFiles
  /\ packets \in Seq(AnyPacket) /\ recorded \in Seq(AnyPacket)
  /\ failed \in BOOLEAN /\ libgraprof_hooked \in BOOLEAN
  /\ phase \in {"opening", "profiling", "off", "closed", "unclosed", "killed", "corrupt"}
  /\ static_packet \in [Kinds -> AnyPacket]
  /\ clock \in Nat
  /\ \A t \in Threads : \A k \in 1 .. Len(contexts[t]) :
       contexts[t][k] \in [calls : Seq(Functions), hook : AnyHook]
  /\ errno \in [Threads -> {"none", "ENOMEM", "EIO"}]
  /\ program_errno \in [Threads -> {"none", "ENOMEM"}]
  /\ ncalls \in 0 .. MaxCalls /\ nsignals \in 0 .. MaxSignals

(* Until an fwrite fails, the file followed by the buffer is what the      *)
(* hooks have recorded: no packet lost, doubled, mixed up with another or  *)
(* out of order, whenever the buffer was flushed.  What is in the file is  *)
(* always the beginning of it, and after a normal exit it is all of it.    *)
NothingLost ==
  ~failed =>
    /\ phase = "profiling" => packets \o Buffered(tracebuffer_index) = recorded
    /\ IsPrefix(packets, recorded)
    /\ phase = "closed" => packets = recorded

(* The stack of functions entered and not left, after k packets.           *)
OpenAfter(log) ==
  LET open[k \in 0 .. Len(log)] ==
        IF k = 0 THEN <<>>
        ELSE CASE log[k].kind = "e" -> Append(open[k - 1], log[k].func)
               [] log[k].kind = "x" -> IF open[k - 1] = <<>> THEN <<>> ELSE Front(open[k - 1])
               [] OTHER             -> open[k - 1]
  IN  open

(* A thread's packets are well nested, though handlers interrupt the hooks *)
(* at any statement and their own calls go unrecorded while the hooks are  *)
(* off: every exit in the trace leaves the function entered last.          *)
WellNested ==
  LET open == OpenAfter(recorded)
  IN  \A k \in 1 .. Len(recorded) :
        recorded[k].kind = "x" =>
          open[k - 1] # <<>> /\ Last(open[k - 1]) = recorded[k].func

(* The packets carry their times in the order in which they are written,   *)
(* on which the reader's subtractions of one time from a later one rely,   *)
(* whatever handlers run between reading the clock and storing the packet. *)
TimesAscend ==
  \A k \in 2 .. Len(recorded) : recorded[k - 1].time <= recorded[k].time

(* What the reader of a trace takes for granted.                           *)
TraceReadable == WellNested /\ TimesAscend

(* Between hooks a program sees the errno its own calls have left, also    *)
(* when writing the trace has failed in between.                           *)
ErrnoKept ==
  \A t \in Threads :
    (\A k \in 1 .. Len(contexts[t]) : contexts[t][k].hook = NoHook) =>
      errno[t] = program_errno[t]

(* exit called outside the hooks closes the trace.                         *)
ExitCloses ==
  phase = "unclosed" =>
    \E t \in Threads : \E k \in 1 .. Len(contexts[t]) : contexts[t][k].hook # NoHook

(* No packet is written past the end of the buffer.                        *)
NoOverrun == phase # "corrupt"

(* Nor is one as long as every flush has succeeded.                        *)
OverrunOnlyAfterFailure == ~NoOverrun => failed

(* The hooks do not stay off: whatever hook has disarmed them arms them    *)
(* again, unless the program ends first.                                   *)
HooksRearmed ==
  phase = "profiling" /\ ~libgraprof_hooked
    ~> libgraprof_hooked \/ phase # "profiling"

=============================================================================
