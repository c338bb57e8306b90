-------------------------- MODULE Libgraprof_proofs --------------------------
(***************************************************************************)
(* Theorems about the library inside the profiled program.                 *)
(***************************************************************************)
EXTENDS Libgraprof, SequenceTheorems, Sums

(* The types of TypeOK at a given time: what has one keeps it as the clock *)
(* goes on.                                                                *)
PacketAt(time) == [kind : Kinds, func : Functions \cup {NoFunction}, time : 0 .. time]

HookAt(time) ==
  [kind : Kinds, func : Functions \cup {NoFunction}, step : 1 .. 9,
   errnum : {"none", "ENOMEM", "EIO"}, slot : 0 .. BUFSIZE, time : 0 .. time]

ContextAt(time) == [calls : Seq(Functions), hook : {NoHook} \cup HookAt(time)]

(* The step of a hook at which each statement stands.                      *)
Disarming(kind) == IF kind = "+" THEN 2 ELSE 3
Saving(kind)    == IF kind = "+" THEN 4 ELSE 2
Filling(kind)   == IF kind = "+" THEN 5 ELSE 4
Reading(kind)   == Filling(kind) + 1
Storing(kind)   == Filling(kind) + 2
Flushing(kind)  == Filling(kind) + 3
Rearming(kind)  == Filling(kind) + 4

(* A hook about to store has a slot up to which the buffer is filled.      *)
GoodHook(h, slots) ==
  h # NoHook =>
    /\ h.step <= Rearming(h.kind)
    /\ h.step = Storing(h.kind) => 0 .. h.slot - 1 \subseteq slots

BufferTypes ==
  /\ tracebuffer_index \in 0 .. BUFSIZE
  /\ 0 .. tracebuffer_index - 1 \subseteq DOMAIN tracebuffer_buffer
  /\ DOMAIN tracebuffer_buffer \subseteq 0 .. BUFSIZE - 1
  /\ \A slot \in DOMAIN tracebuffer_buffer : tracebuffer_buffer[slot] \in PacketAt(clock)
  /\ packets \in Seq(PacketAt(clock))
  /\ failed \in BOOLEAN

LogTypes ==
  /\ clock \in Nat
  /\ recorded \in Seq(PacketAt(clock))
  /\ static_packet \in [Kinds -> PacketAt(clock)]

TypedContexts(cs, time, slots) ==
  /\ cs \in [Threads -> Seq(ContextAt(time))]
  /\ \A t \in Threads :
       /\ cs[t] # <<>>
       /\ \A k \in 1 .. Len(cs[t]) : GoodHook(cs[t][k].hook, slots)

ContextTypes == TypedContexts(contexts, clock, DOMAIN tracebuffer_buffer)

OtherTypes ==
  /\ entries \in 0 .. ObjectFiles /\ header_count \in 0 .. ObjectFiles
  /\ libgraprof_hooked \in BOOLEAN
  /\ phase \in {"opening", "profiling", "off", "closed", "unclosed", "killed", "corrupt"}
  /\ errno \in [Threads -> {"none", "ENOMEM", "EIO"}]
  /\ program_errno \in [Threads -> {"none", "ENOMEM"}]
  /\ ncalls \in 0 .. MaxCalls /\ nsignals \in 0 .. MaxSignals

TypeInv == BufferTypes /\ LogTypes /\ ContextTypes /\ OtherTypes

-----------------------------------------------------------------------------
(* The sequence that remains, and what it is with another last element.    *)
LEMMA FrontFacts ==
  ASSUME NEW S, NEW cs \in Seq(S), cs # <<>>
  PROVE  /\ Len(cs) \in Nat \ {0}
         /\ Last(cs) = cs[Len(cs)] /\ Last(cs) \in S
         /\ Front(cs) \in Seq(S)
         /\ Len(Front(cs)) = Len(cs) - 1
         /\ \A i \in 1 .. Len(cs) - 1 : Front(cs)[i] = cs[i]
<1>1. Len(cs) \in Nat \ {0}
  BY EmptySeq
<1>2. \A i \in 1 .. Len(cs) : cs[i] \in S
  BY ElementOfSeq
<1>3. /\ SubSeq(cs, 1, Len(cs) - 1) \in Seq(S)
      /\ Len(SubSeq(cs, 1, Len(cs) - 1)) = Len(cs) - 1
      /\ \A i \in 1 .. Len(cs) - 1 : SubSeq(cs, 1, Len(cs) - 1)[i] = cs[i]
  <2> DEFINE n == Len(cs) - 1
  <2>1. n \in Nat /\ 1 \in Int /\ \A i \in 1 .. n : cs[i] \in S
    BY <1>1, <1>2
  <2> HIDE DEF n
  <2>2. /\ SubSeq(cs, 1, n) \in Seq(S)
        /\ Len(SubSeq(cs, 1, n)) = IF 1 <= n THEN n - 1 + 1 ELSE 0
        /\ \A i \in 1 .. n - 1 + 1 : SubSeq(cs, 1, n)[i] = cs[1 + i - 1]
    BY <2>1, SubSeqProperties
  <2>3. /\ SubSeq(cs, 1, n) \in Seq(S)
        /\ Len(SubSeq(cs, 1, n)) = n
        /\ \A i \in 1 .. n : SubSeq(cs, 1, n)[i] = cs[i]
    BY <2>1, <2>2
  <2> QED
    BY <2>3 DEF n
<1> QED
  BY <1>1, <1>2, <1>3 DEF Front, Last

LEMMA NewTopFacts ==
  ASSUME NEW S, NEW cs \in Seq(S), cs # <<>>, NEW c \in S
  PROVE  LET new == Append(Front(cs), c)
         IN  /\ new \in Seq(S) /\ new # <<>>
             /\ Len(new) = Len(cs)
             /\ \A i \in 1 .. Len(cs) : new[i] = IF i = Len(cs) THEN c ELSE cs[i]
<1>1. /\ Len(cs) \in Nat \ {0}
      /\ Front(cs) \in Seq(S)
      /\ Len(Front(cs)) = Len(cs) - 1
      /\ \A i \in 1 .. Len(cs) - 1 : Front(cs)[i] = cs[i]
  BY FrontFacts
<1>2. /\ Append(Front(cs), c) \in Seq(S) /\ Append(Front(cs), c) # <<>>
      /\ Len(Append(Front(cs), c)) = Len(Front(cs)) + 1
      /\ \A i \in 1 .. Len(Front(cs)) : Append(Front(cs), c)[i] = Front(cs)[i]
      /\ Append(Front(cs), c)[Len(Front(cs)) + 1] = c
  BY <1>1, AppendProperties
<1> QED
  BY <1>1, <1>2

(* What has a type at one time has it later.                               *)
LEMMA LaterTypes ==
  ASSUME NEW now \in Nat, NEW later \in Nat, now <= later
  PROVE  /\ PacketAt(now) \subseteq PacketAt(later)
         /\ ContextAt(now) \subseteq ContextAt(later)
         /\ Seq(PacketAt(now)) \subseteq Seq(PacketAt(later))
         /\ Seq(ContextAt(now)) \subseteq Seq(ContextAt(later))
<1>1. PacketAt(now) \subseteq PacketAt(later)
  BY DEF PacketAt
<1>2. HookAt(now) \subseteq HookAt(later)
  BY DEF HookAt
<1>3. ContextAt(now) \subseteq ContextAt(later)
  BY <1>2 DEF ContextAt
<1> QED
  BY <1>1, <1>3, SeqMonotonic

(* A hook is at one statement, which its step tells.                       *)
LEMMA AtFacts ==
  ASSUME ContextTypes, NEW t \in Threads, NEW s, At(t, s)
  PROVE  /\ Hook(t) \in HookAt(clock) /\ Hook(t) # NoHook
         /\ GoodHook(Hook(t), DOMAIN tracebuffer_buffer)
         /\ s = "check"  => Hook(t).step = 1
         /\ s = "disarm" => Hook(t).step = Disarming(Hook(t).kind)
         /\ s = "real"   => Hook(t).kind = "+" /\ Hook(t).step = 3
         /\ s = "save"   => Hook(t).step = Saving(Hook(t).kind)
         /\ s = "fill"   => Hook(t).step = Filling(Hook(t).kind)
         /\ s = "read"   => Hook(t).step = Reading(Hook(t).kind)
         /\ s = "store"  => Hook(t).step = Storing(Hook(t).kind)
         /\ s = "flush"  => Hook(t).step = Flushing(Hook(t).kind)
         /\ s = "rearm"  => Hook(t).step = Rearming(Hook(t).kind)
<1>1. /\ Top(t) = contexts[t][Len(contexts[t])] /\ Top(t) \in ContextAt(clock)
      /\ Len(contexts[t]) \in 1 .. Len(contexts[t])
  BY FrontFacts DEF ContextTypes, TypedContexts, Top
<1>2. Hook(t) \in HookAt(clock) /\ Hook(t) # NoHook /\ GoodHook(Hook(t), DOMAIN tracebuffer_buffer)
  BY <1>1 DEF ContextTypes, TypedContexts, At, Idle, Hook, ContextAt
<1>3. /\ Hook(t).kind \in Kinds /\ Hook(t).step \in 1 .. 9
      /\ Hook(t).step <= Rearming(Hook(t).kind)
  BY <1>2 DEF HookAt, GoodHook
<1>4. Steps(Hook(t).kind)[Hook(t).step] = s
  BY DEF At
<1> DEFINE h == Hook(t)
<1> HIDE DEF h
<1>5. CASE h.kind = "+"
  <2>1. h.step \in 1 .. 9 /\ s = <<"check", "disarm", "real", "save", "fill", "read",
                                   "store", "flush", "rearm">>[h.step]
    BY <1>3, <1>4, <1>5 DEF Steps, h
  <2> QED
    BY <1>2, <1>5, <2>1 DEF h, Disarming, Saving, Filling, Reading, Storing, Flushing, Rearming
<1>6. CASE h.kind # "+"
  <2>1. h.step \in 1 .. 8 /\ s = <<"check", "save", "disarm", "fill", "read",
                                   "store", "flush", "rearm">>[h.step]
    BY <1>3, <1>4, <1>6 DEF Steps, h, Rearming, Filling
  <2> QED
    BY <1>2, <1>6, <2>1 DEF h, Disarming, Saving, Filling, Reading, Storing, Flushing, Rearming
<1> QED
  BY <1>5, <1>6

-----------------------------------------------------------------------------
(* Contexts stay typed as the clock goes on and the buffer fills up, and   *)
(* when one thread's stack gets another top, one more context or one less. *)
LEMMA TypedLater ==
  ASSUME NEW cs, NEW now \in Nat, NEW later \in Nat, now <= later,
         NEW slots, NEW more, slots \subseteq more, TypedContexts(cs, now, slots)
  PROVE  TypedContexts(cs, later, more)
<1>1. Seq(ContextAt(now)) \subseteq Seq(ContextAt(later))
  BY LaterTypes
<1>2. cs \in [Threads -> Seq(ContextAt(later))]
  BY <1>1 DEF TypedContexts
<1>3. \A h : GoodHook(h, slots) => GoodHook(h, more)
  BY DEF GoodHook
<1> QED
  BY <1>2, <1>3 DEF TypedContexts

LEMMA TypedChange ==
  ASSUME NEW cs, NEW time, NEW slots, TypedContexts(cs, time, slots),
         NEW t \in Threads, NEW new \in Seq(ContextAt(time)), new # <<>>,
         \A k \in 1 .. Len(new) : GoodHook(new[k].hook, slots)
  PROVE  TypedContexts([cs EXCEPT ![t] = new], time, slots)
<1> DEFINE ncs == [cs EXCEPT ![t] = new]
<1>1. /\ ncs \in [Threads -> Seq(ContextAt(time))]
      /\ \A u \in Threads : ncs[u] = IF u = t THEN new ELSE cs[u]
  BY DEF TypedContexts
<1> HIDE DEF ncs
<1>2. TypedContexts(ncs, time, slots)
  BY <1>1 DEF TypedContexts
<1> QED
  BY <1>2 DEF ncs

LEMMA TypedTop ==
  ASSUME NEW cs, NEW time, NEW slots, TypedContexts(cs, time, slots),
         NEW t \in Threads, NEW c \in ContextAt(time), GoodHook(c.hook, slots)
  PROVE  TypedContexts([cs EXCEPT ![t] = Append(Front(@), c)], time, slots)
<1> DEFINE new == Append(Front(cs[t]), c)
<1>1. cs[t] \in Seq(ContextAt(time)) /\ cs[t] # <<>>
  BY DEF TypedContexts
<1>2. /\ new \in Seq(ContextAt(time)) /\ new # <<>>
      /\ Len(new) = Len(cs[t])
      /\ \A i \in 1 .. Len(cs[t]) : new[i] = IF i = Len(cs[t]) THEN c ELSE cs[t][i]
  BY <1>1, NewTopFacts
<1> HIDE DEF new
<1>3. \A k \in 1 .. Len(new) : GoodHook(new[k].hook, slots)
  BY <1>2 DEF TypedContexts
<1>4. TypedContexts([cs EXCEPT ![t] = new], time, slots)
  BY <1>2, <1>3, TypedChange
<1> QED
  BY <1>4 DEF new

LEMMA TypedPush ==
  ASSUME NEW cs, NEW time, NEW slots, TypedContexts(cs, time, slots),
         NEW t \in Threads, NEW c \in ContextAt(time), GoodHook(c.hook, slots)
  PROVE  TypedContexts([cs EXCEPT ![t] = Append(@, c)], time, slots)
<1> DEFINE new == Append(cs[t], c)
<1>1. cs[t] \in Seq(ContextAt(time)) /\ Len(cs[t]) \in Nat
  BY LenProperties DEF TypedContexts
<1>2. /\ new \in Seq(ContextAt(time)) /\ new # <<>>
      /\ Len(new) = Len(cs[t]) + 1
      /\ \A i \in 1 .. Len(cs[t]) : new[i] = cs[t][i]
      /\ new[Len(cs[t]) + 1] = c
  BY <1>1, AppendProperties
<1> HIDE DEF new
<1>3. \A k \in 1 .. Len(new) : GoodHook(new[k].hook, slots)
  BY <1>1, <1>2 DEF TypedContexts
<1>4. TypedContexts([cs EXCEPT ![t] = new], time, slots)
  BY <1>2, <1>3, TypedChange
<1> QED
  BY <1>4 DEF new

LEMMA TypedPop ==
  ASSUME NEW cs, NEW time, NEW slots, TypedContexts(cs, time, slots),
         NEW t \in Threads, Len(cs[t]) > 1
  PROVE  TypedContexts([cs EXCEPT ![t] = Front(@)], time, slots)
<1> DEFINE new == Front(cs[t])
<1>1. cs[t] \in Seq(ContextAt(time)) /\ cs[t] # <<>>
  BY DEF TypedContexts
<1>2. /\ new \in Seq(ContextAt(time)) /\ Len(cs[t]) \in Nat
      /\ Len(new) = Len(cs[t]) - 1
      /\ \A i \in 1 .. Len(cs[t]) - 1 : new[i] = cs[t][i]
  BY <1>1, FrontFacts
<1> HIDE DEF new
<1>3. new # <<>> /\ \A k \in 1 .. Len(new) : GoodHook(new[k].hook, slots)
  BY <1>2, EmptySeq DEF TypedContexts
<1>4. TypedContexts([cs EXCEPT ![t] = new], time, slots)
  BY <1>2, <1>3, TypedChange
<1> QED
  BY <1>4 DEF new

(* What the statements of the hooks do to the top context.                 *)
LEMMA TopTyped ==
  ASSUME NEW time, NEW slots, TypedContexts(contexts, time, slots), NEW t \in Threads
  PROVE  Top(t) \in ContextAt(time)
BY FrontFacts DEF TypedContexts, Top

LEMMA AdvanceTyped ==
  ASSUME NEW time, NEW slots, TypedContexts(contexts, time, slots), NEW t \in Threads,
         NEW h \in HookAt(time), h.step < Rearming(h.kind),
         h.step + 1 = Storing(h.kind) => 0 .. h.slot - 1 \subseteq slots,
         Advance(t, h)
  PROVE  TypedContexts(contexts', time, slots)
<1> DEFINE next == [h EXCEPT !.step = @ + 1]
           c    == [Top(t) EXCEPT !.hook = next]
<1>1. /\ next \in HookAt(time)
      /\ next.step = h.step + 1 /\ next.kind = h.kind /\ next.slot = h.slot
  BY DEF HookAt, Rearming, Filling
<1>2. GoodHook(next, slots)
  BY <1>1 DEF GoodHook, HookAt, Rearming, Filling
<1>3. Top(t) \in ContextAt(time)
  BY TopTyped
<1> HIDE DEF next
<1>4. c \in ContextAt(time) /\ c.hook = next
  BY <1>1, <1>3 DEF ContextAt
<1>5. contexts' = [contexts EXCEPT ![t] = Append(Front(@), c)]
  BY DEF Advance, SetHook, SetTop, next
<1> HIDE DEF c
<1> QED
  BY <1>2, <1>4, <1>5, TypedTop

LEMMA EndTyped ==
  ASSUME NEW time, NEW slots, TypedContexts(contexts, time, slots), NEW t \in Threads,
         SetHook(t, NoHook)
  PROVE  TypedContexts(contexts', time, slots)
<1> DEFINE c == [Top(t) EXCEPT !.hook = NoHook]
<1>1. c \in ContextAt(time) /\ c.hook = NoHook
  BY TopTyped DEF ContextAt
<1>2. contexts' = [contexts EXCEPT ![t] = Append(Front(@), c)]
  BY DEF SetHook, SetTop
<1> HIDE DEF c
<1> QED
  BY <1>1, <1>2, TypedTop DEF GoodHook

(* A hook that begins, in a context with whatever calls.                   *)
LEMMA NewHookTyped ==
  ASSUME NEW time \in Nat, NEW slots, NEW kind \in Kinds,
         NEW func \in Functions \cup {NoFunction}, NEW calls \in Seq(Functions)
  PROVE  /\ [calls |-> calls, hook |-> NewHook(kind, func)] \in ContextAt(time)
         /\ GoodHook(NewHook(kind, func), slots)
<1>1. NewHook(kind, func) \in HookAt(time)
  BY BUFSIZEAssumption DEF NewHook, HookAt
<1>2. GoodHook(NewHook(kind, func), slots)
  BY DEF NewHook, GoodHook, Rearming, Storing, Filling
<1> QED
  BY <1>1, <1>2 DEF ContextAt

LEMMA BeginTyped ==
  ASSUME NEW time \in Nat, NEW slots, TypedContexts(contexts, time, slots),
         NEW t \in Threads, NEW kind \in Kinds,
         NEW func \in Functions \cup {NoFunction}, NEW calls \in Seq(Functions),
         Begin(t, kind, func, calls)
  PROVE  TypedContexts(contexts', time, slots)
<1> DEFINE c == [calls |-> calls, hook |-> NewHook(kind, func)]
<1>1. c \in ContextAt(time) /\ GoodHook(c.hook, slots)
  BY NewHookTyped
<1>2. contexts' = [contexts EXCEPT ![t] = Append(Front(@), c)]
  BY DEF Begin, SetTop
<1> HIDE DEF c
<1> QED
  BY <1>1, <1>2, TypedTop

-----------------------------------------------------------------------------
(* Every step keeps the types.                                             *)
LEMMA InitTypes == Init => TypeInv
<1> SUFFICES ASSUME Init PROVE TypeInv
  OBVIOUS
<1> USE DEF Init, TracebufferInit
<1>1. BufferTypes
  <2>1. /\ tracebuffer_index = 0 /\ packets \in Seq(PacketAt(clock))
        /\ DOMAIN tracebuffer_buffer = {}
    BY EmptySeq
  <2>2. 0 \in 0 .. BUFSIZE /\ 0 .. 0 - 1 = {}
    BY BUFSIZEAssumption
  <2> QED
    BY <2>1, <2>2 DEF BufferTypes
<1>2. \A kind \in Kinds : Packet(kind, NoFunction, 0) \in PacketAt(0)
  BY DEF Packet, PacketAt
<1>3. LogTypes
  BY <1>2, EmptySeq DEF LogTypes
<1>4. NewContext \in ContextAt(0) /\ NewContext.hook = NoHook
  BY EmptySeq DEF NewContext, ContextAt
<1>5. /\ <<NewContext>> \in Seq(ContextAt(0)) /\ <<NewContext>> # <<>>
      /\ Len(<<NewContext>>) = 1 /\ <<NewContext>>[1] = NewContext
  BY <1>4
<1>6. ContextTypes
  BY <1>4, <1>5 DEF ContextTypes, TypedContexts, GoodHook
<1>7. OtherTypes
  <2>1. /\ entries \in 0 .. ObjectFiles /\ header_count \in 0 .. ObjectFiles
        /\ ncalls \in 0 .. MaxCalls /\ nsignals \in 0 .. MaxSignals
    BY ObjectFilesAssumption, BoundsAssumption
  <2>2. /\ errno \in [Threads -> {"none", "ENOMEM", "EIO"}]
        /\ program_errno \in [Threads -> {"none", "ENOMEM"}]
    OBVIOUS
  <2> QED
    BY <2>1, <2>2 DEF OtherTypes
<1> QED
  BY <1>1, <1>3, <1>6, <1>7 DEF TypeInv

(* The packets of the buffer, and the file after they have been written.   *)
LEMMA BufferedFacts ==
  ASSUME BufferTypes, NEW n \in 0 .. tracebuffer_index
  PROVE  /\ Buffered(n) \in Seq(PacketAt(clock))
         /\ Len(Buffered(n)) = n
         /\ \A k \in 1 .. n : Buffered(n)[k] = tracebuffer_buffer[k - 1]
         /\ packets \o Buffered(n) \in Seq(PacketAt(clock))
<1>1. n \in Nat /\ \A k \in 1 .. n : tracebuffer_buffer[k - 1] \in PacketAt(clock)
  BY BUFSIZEAssumption DEF BufferTypes
<1>2. Buffered(n) \in [1 .. n -> PacketAt(clock)]
  BY <1>1 DEF Buffered
<1>3. Buffered(n) \in Seq(PacketAt(clock)) /\ Len(Buffered(n)) = n
  BY <1>1, <1>2
<1>4. packets \o Buffered(n) \in Seq(PacketAt(clock))
  BY <1>3, ConcatProperties DEF BufferTypes
<1> QED
  BY <1>3, <1>4 DEF Buffered

LEMMA FlushTypes ==
  ASSUME BufferTypes, clock' = clock,
         FlushDone \/ \E n \in 0 .. BUFSIZE : FlushFailed(n)
  PROVE  BufferTypes'
<1>1. tracebuffer_index \in 0 .. tracebuffer_index
  BY BUFSIZEAssumption DEF BufferTypes
<1>2. CASE FlushDone
  <2>1. packets' \in Seq(PacketAt(clock)) /\ tracebuffer_index' = 0
    BY <1>1, <1>2, BufferedFacts DEF FlushDone
  <2>2. tracebuffer_buffer' = tracebuffer_buffer /\ failed' = failed
    BY <1>2 DEF FlushDone
  <2>3. 0 \in 0 .. BUFSIZE /\ 0 .. 0 - 1 = {}
    BY BUFSIZEAssumption
  <2> QED
    BY <2>1, <2>2, <2>3 DEF BufferTypes
<1>3. ASSUME NEW n \in 0 .. BUFSIZE, FlushFailed(n) PROVE BufferTypes'
  <2>1. n \in 0 .. tracebuffer_index
    BY <1>3, BUFSIZEAssumption DEF FlushFailed, BufferTypes
  <2> QED
    BY <1>3, <2>1, BufferedFacts DEF FlushFailed, buffervars, BufferTypes
<1> QED
  BY <1>2, <1>3

LEMMA TruncateTypes ==
  ASSUME BufferTypes, clock' = clock, NEW n \in 0 .. Len(packets), Truncate(n)
  PROVE  BufferTypes'
<1>1. packets \in Seq(PacketAt(clock))
  BY DEF BufferTypes
<1>2. n \in Int /\ \A i \in 1 .. n : packets[i] \in PacketAt(clock)
  BY <1>1, ElementOfSeq, LenProperties
<1>3. SubSeq(packets, 1, n) \in Seq(PacketAt(clock))
  BY <1>2, SubSeqProperties
<1> QED
  BY <1>3 DEF Truncate, buffervars, BufferTypes

(* The opening of the trace and its end.                                   *)
LEMMA OpenCloseTypes ==
  ASSUME TypeInv,
         \/ WriteHeaderEntry \/ FinishHeader \/ OpeningFails \/ Kill
         \/ \E t \in Threads : Exit(t)
  PROVE  TypeInv'
<1> USE DEF TypeInv, filevars, buffervars, hookvars, history
<1>1. /\ UNCHANGED <<clock, contexts, recorded, static_packet, errno, program_errno,
                     ncalls, nsignals>>
      /\ DOMAIN tracebuffer_buffer' = DOMAIN tracebuffer_buffer
  BY DEF WriteHeaderEntry, FinishHeader, OpeningFails, Kill, Exit, tracebuffer_append_header,
         tracebuffer_finish_header, tracebuffer_close, FlushDone, FlushFailed, Truncate
<1>2. LogTypes' /\ ContextTypes'
  BY <1>1 DEF LogTypes, ContextTypes
<1>3. CASE WriteHeaderEntry \/ FinishHeader \/ OpeningFails
  <2>1. BufferTypes'
    BY <1>1, <1>3 DEF BufferTypes, WriteHeaderEntry, FinishHeader, OpeningFails,
       tracebuffer_append_header, tracebuffer_finish_header
  <2>2. OtherTypes'
    <3>1. entries' \in 0 .. ObjectFiles /\ header_count' \in 0 .. ObjectFiles
      BY <1>3, ObjectFilesAssumption DEF OtherTypes, WriteHeaderEntry, FinishHeader,
         OpeningFails, tracebuffer_append_header, tracebuffer_finish_header
    <3>2. /\ libgraprof_hooked' \in BOOLEAN
          /\ phase' \in {"opening", "profiling", "off", "closed", "unclosed", "killed", "corrupt"}
      BY <1>3 DEF OtherTypes, WriteHeaderEntry, FinishHeader, OpeningFails
    <3> QED
      BY <1>1, <3>1, <3>2 DEF OtherTypes
  <2> QED
    BY <1>2, <2>1, <2>2
<1>4. CASE Kill
  <2>1. BufferTypes'
    BY <1>1, <1>4, TruncateTypes DEF Kill
  <2>2. OtherTypes'
    BY <1>1, <1>4 DEF OtherTypes, Kill, Truncate
  <2> QED
    BY <1>2, <2>1, <2>2
<1>5. ASSUME NEW t \in Threads, Exit(t) PROVE TypeInv'
  <2>1. CASE tracebuffer_close
    <3>1. \/ UNCHANGED <<filevars, failed, buffervars>>
          \/ FlushDone \/ \E n \in 0 .. BUFSIZE : FlushFailed(n)
      BY <2>1, BUFSIZEAssumption DEF tracebuffer_close, BufferTypes
    <3>2. BufferTypes'
      BY <1>1, <3>1, FlushTypes DEF BufferTypes
    <3>3. UNCHANGED <<entries, header_count>>
      BY <2>1 DEF tracebuffer_close, FlushDone, FlushFailed
    <3>4. OtherTypes'
      BY <1>1, <1>5, <3>3 DEF OtherTypes, Exit
    <3> QED
      BY <1>2, <3>2, <3>4
  <2>2. CASE UNCHANGED <<filevars, failed, buffervars, libgraprof_hooked>>
    <3>1. BufferTypes' /\ OtherTypes'
      BY <1>1, <1>5, <2>2 DEF BufferTypes, OtherTypes, Exit
    <3> QED
      BY <1>2, <3>1
  <2> QED
    BY <1>5, <2>1, <2>2 DEF Exit
<1> QED
  BY <1>3, <1>4, <1>5

(* What the program and its handlers do between hooks.                     *)
LEMMA ProgramTypes ==
  ASSUME TypeInv, NEW t \in Threads,
         \/ Signal(t) \/ ReturnFromHandler(t) \/ ReturnFromFunction(t) \/ CallAllocator(t)
         \/ \E f \in Functions : CallFunction(t, f)
  PROVE  TypeInv'
<1> USE DEF TypeInv, filevars, buffervars, hookvars, history
<1> DEFINE slots == DOMAIN tracebuffer_buffer
<1>1. /\ UNCHANGED <<filevars, failed, buffervars, phase, hookvars, clock, errno, history>>
      /\ ncalls' \in 0 .. MaxCalls /\ nsignals' \in 0 .. MaxSignals
  <2>1. UNCHANGED <<filevars, failed, buffervars, phase, hookvars, clock, errno, history>>
    BY DEF Signal, ReturnFromHandler, ReturnFromFunction, CallAllocator, CallFunction, Begin
  <2>2. /\ ncalls' = ncalls \/ (ncalls < MaxCalls /\ ncalls' = ncalls + 1)
        /\ nsignals' = nsignals \/ (nsignals < MaxSignals /\ nsignals' = nsignals + 1)
    BY DEF Signal, ReturnFromHandler, ReturnFromFunction, CallAllocator, CallFunction, Begin,
       Counted
  <2>3. ncalls \in 0 .. MaxCalls /\ nsignals \in 0 .. MaxSignals
    BY DEF OtherTypes
  <2> QED
    BY <2>1, <2>2, <2>3, BoundsAssumption
<1>2. BufferTypes' /\ LogTypes' /\ OtherTypes'
  BY <1>1 DEF BufferTypes, LogTypes, OtherTypes
<1>3. TypedContexts(contexts, clock, slots) /\ clock \in Nat
  BY DEF ContextTypes, LogTypes
<1>4. Top(t) \in ContextAt(clock) /\ Top(t).calls \in Seq(Functions)
  BY <1>3, TopTyped DEF ContextAt
<1> HIDE DEF slots
<1>5. TypedContexts(contexts', clock, slots)
  <2>1. CASE Signal(t)
    <3>1. NewContext \in ContextAt(clock) /\ GoodHook(NewContext.hook, slots)
      BY EmptySeq DEF NewContext, ContextAt, GoodHook
    <3> QED
      BY <1>3, <2>1, <3>1, TypedPush DEF Signal
  <2>2. CASE ReturnFromHandler(t)
    BY <1>3, <2>2, TypedPop DEF ReturnFromHandler, Nested
  <2>3. CASE ReturnFromFunction(t)
    <3>1. /\ Last(Top(t).calls) \in Functions
          /\ Front(Top(t).calls) \in Seq(Functions)
      BY <1>4, <2>3, FrontFacts DEF ReturnFromFunction
    <3> QED
      BY <1>3, <2>3, <3>1, BeginTyped DEF ReturnFromFunction, Kinds
  <2>4. CASE CallAllocator(t)
    BY <1>3, <1>4, <2>4, BeginTyped DEF CallAllocator, Kinds
  <2>5. ASSUME NEW f \in Functions, CallFunction(t, f)
        PROVE  TypedContexts(contexts', clock, slots)
    <3>1. Append(Top(t).calls, f) \in Seq(Functions)
      BY <1>4, AppendProperties
    <3> QED
      BY <1>3, <2>5, <3>1, BeginTyped DEF CallFunction, Kinds
  <2> QED
    BY <2>1, <2>2, <2>3, <2>4, <2>5
<1>6. ContextTypes'
  BY <1>1, <1>5 DEF ContextTypes, slots
<1> QED
  BY <1>2, <1>6

(* A hook that only gets on, keeping what the variables of LogTypes and    *)
(* BufferTypes are.                                                        *)
Getting(t) ==
  \/ Check(t) \/ Disarm(t) \/ RealCall(t) \/ SaveErrno(t) \/ ReadIndex(t)
  \/ NoFlush(t) \/ Rearm(t) \/ StoreBeyond(t)

LEMMA GettingTypes ==
  ASSUME TypeInv, NEW t \in Threads, Getting(t)
  PROVE  TypeInv'
<1> USE DEF TypeInv, filevars, buffervars, hookvars, history
<1> DEFINE slots == DOMAIN tracebuffer_buffer
           h     == Hook(t)
<1>1. UNCHANGED <<filevars, failed, buffervars, static_packet, clock, nsignals, recorded>>
  BY DEF Getting, Check, Disarm, RealCall, SaveErrno, ReadIndex, NoFlush, Rearm, StoreBeyond
<1>2. BufferTypes' /\ LogTypes'
  BY <1>1 DEF BufferTypes, LogTypes
<1>3. TypedContexts(contexts, clock, slots) /\ clock \in Nat
  BY DEF ContextTypes, LogTypes
<1>4. \A s : At(t, s) =>
        /\ h \in HookAt(clock)
        /\ s = "check"  => h.step = 1
        /\ s = "disarm" => h.step = Disarming(h.kind)
        /\ s = "real"   => h.kind = "+" /\ h.step = 3
        /\ s = "save"   => h.step = Saving(h.kind)
        /\ s = "read"   => h.step = Reading(h.kind)
        /\ s = "flush"  => h.step = Flushing(h.kind)
        /\ s = "rearm"  => h.step = Rearming(h.kind)
  BY AtFacts
<1> USE DEF Disarming, Saving, Reading, Storing, Flushing, Rearming, Filling
<1>5. /\ h \in HookAt(clock) => h.errnum \in {"none", "ENOMEM", "EIO"}
      /\ errno[t] \in {"none", "ENOMEM", "EIO"}
      /\ tracebuffer_index \in 0 .. BUFSIZE /\ 0 .. tracebuffer_index - 1 \subseteq slots
  BY DEF HookAt, OtherTypes, BufferTypes
<1> HIDE DEF slots, h
<1>6. TypedContexts(contexts', clock, slots)
  <2>1. CASE Check(t)
    <3>1. (h \in HookAt(clock) /\ h.step = 1 /\ Advance(t, h)) \/ SetHook(t, NoHook)
      BY <1>4, <2>1 DEF Check, h
    <3>2. h.step = 1 => h.step < Rearming(h.kind) /\ h.step + 1 # Storing(h.kind)
      OBVIOUS
    <3> QED
      BY <1>3, <3>1, <3>2, AdvanceTyped, EndTyped
  <2>2. CASE Disarm(t)
    <3>1. h \in HookAt(clock) /\ h.step = Disarming(h.kind) /\ Advance(t, h)
      BY <1>4, <2>2 DEF Disarm, h
    <3> QED
      BY <1>3, <3>1, AdvanceTyped
  <2>3. CASE RealCall(t)
    <3>1. h \in HookAt(clock) /\ h.kind = "+" /\ h.step = 3
      BY <1>4, <2>3 DEF RealCall
    <3>2. CASE Advance(t, h)
      BY <1>3, <3>1, <3>2, AdvanceTyped
    <3>3. CASE contexts' = [contexts EXCEPT ![t] =
                 Append(Append(Front(@), [Top(t) EXCEPT !.hook.step = @ + 1]),
                        [NewContext EXCEPT !.hook = NewHook("+", NoFunction)])]
      <4> DEFINE c   == [Top(t) EXCEPT !.hook = [h EXCEPT !.step = @ + 1]]
                 d   == [NewContext EXCEPT !.hook = NewHook("+", NoFunction)]
                 mid == [contexts EXCEPT ![t] = Append(Front(@), c)]
      <4>1. Top(t) \in ContextAt(clock) /\ h = Top(t).hook
        BY <1>3, TopTyped DEF h, Hook
      <4>2. [h EXCEPT !.step = @ + 1] \in HookAt(clock)
        BY <3>1 DEF HookAt
      <4>3. /\ c \in ContextAt(clock) /\ c.hook = [h EXCEPT !.step = @ + 1]
            /\ c = [Top(t) EXCEPT !.hook.step = @ + 1]
        BY <4>1, <4>2 DEF ContextAt
      <4>4. [h EXCEPT !.step = @ + 1].step = 4 /\ [h EXCEPT !.step = @ + 1].kind = "+"
        BY <3>1 DEF HookAt
      <4> DEFINE g == [h EXCEPT !.step = @ + 1]
      <4>5. GoodHook(c.hook, slots)
        <5>1. g.step = 4 /\ g.kind = "+" /\ c.hook = g
          BY <4>3, <4>4
        <5> HIDE DEF g, c
        <5> QED
          BY <5>1 DEF GoodHook
      <4>6. d = [calls |-> <<>>, hook |-> NewHook("+", NoFunction)]
        BY DEF NewContext
      <4>7. <<>> \in Seq(Functions) /\ "+" \in Kinds
        BY EmptySeq DEF Kinds
      <4>8. d \in ContextAt(clock) /\ GoodHook(d.hook, slots)
        <5>1. /\ [calls |-> <<>>, hook |-> NewHook("+", NoFunction)] \in ContextAt(clock)
              /\ GoodHook(NewHook("+", NoFunction), slots)
          BY <1>3, <4>7, NewHookTyped
        <5> QED
          BY <4>6, <5>1
      <4> HIDE DEF c, d
      <4>9. TypedContexts(mid, clock, slots)
        BY <1>3, <4>3, <4>5, TypedTop
      <4>10. contexts' = [mid EXCEPT ![t] = Append(@, d)]
        <5>1. t \in DOMAIN contexts
          BY <1>3 DEF TypedContexts
        <5>2. contexts' = [contexts EXCEPT ![t] = Append(Append(Front(@), c), d)]
          BY <3>3, <4>3 DEF d
        <5> QED
          BY <5>1, <5>2
      <4> HIDE DEF mid
      <4> QED
        BY <4>8, <4>9, <4>10, TypedPush
    <3> QED
      BY <2>3, <3>2, <3>3 DEF RealCall, h
  <2>4. CASE SaveErrno(t)
    <3> DEFINE g == [h EXCEPT !.errnum = errno[t]]
    <3>1. h \in HookAt(clock) /\ h.step = Saving(h.kind) /\ Advance(t, g)
      BY <1>4, <2>4 DEF SaveErrno, h
    <3>2. g \in HookAt(clock) /\ g.step = h.step /\ g.kind = h.kind
      BY <1>5, <3>1 DEF HookAt
    <3> HIDE DEF g
    <3> QED
      BY <1>3, <3>1, <3>2, AdvanceTyped
  <2>5. CASE ReadIndex(t)
    <3> DEFINE g == [h EXCEPT !.slot = tracebuffer_index]
    <3>1. h \in HookAt(clock) /\ h.step = Reading(h.kind) /\ Advance(t, g)
      BY <1>4, <2>5 DEF ReadIndex, h
    <3>2. /\ g \in HookAt(clock) /\ g.step = h.step /\ g.kind = h.kind
          /\ g.slot = tracebuffer_index
      BY <1>5, <3>1 DEF HookAt
    <3> HIDE DEF g
    <3> QED
      BY <1>3, <1>5, <3>1, <3>2, AdvanceTyped
  <2>6. CASE NoFlush(t)
    <3>1. h \in HookAt(clock) /\ h.step = Flushing(h.kind) /\ Advance(t, h)
      BY <1>4, <2>6 DEF NoFlush, h
    <3> QED
      BY <1>3, <3>1, AdvanceTyped
  <2>7. CASE Rearm(t)
    BY <1>3, <2>7, EndTyped DEF Rearm
  <2>8. CASE StoreBeyond(t)
    BY <1>3, <2>8 DEF StoreBeyond
  <2> QED
    BY <2>1, <2>2, <2>3, <2>4, <2>5, <2>6, <2>7, <2>8 DEF Getting
<1>7. ContextTypes'
  BY <1>1, <1>6 DEF ContextTypes, slots
<1>8. OtherTypes'
  <2>1. /\ UNCHANGED <<entries, header_count, nsignals>>
        /\ libgraprof_hooked' \in BOOLEAN
        /\ phase' \in {"opening", "profiling", "off", "closed", "unclosed", "killed", "corrupt"}
        /\ ncalls' \in 0 .. MaxCalls
    <3>1. /\ UNCHANGED <<entries, header_count, nsignals>>
          /\ libgraprof_hooked' \in {libgraprof_hooked, TRUE, FALSE}
          /\ phase' \in {phase, "corrupt"}
      BY DEF Getting, Check, Disarm, RealCall, SaveErrno, ReadIndex, NoFlush, Rearm, StoreBeyond
    <3>2. ncalls' = ncalls \/ (ncalls < MaxCalls /\ ncalls' = ncalls + 1)
      BY DEF Getting, Check, Disarm, RealCall, SaveErrno, ReadIndex, NoFlush, Rearm,
         StoreBeyond, Counted
    <3>3. ncalls \in 0 .. MaxCalls /\ libgraprof_hooked \in BOOLEAN
      BY DEF OtherTypes
    <3>4. ncalls' \in 0 .. MaxCalls
      BY <3>2, <3>3, BoundsAssumption
    <3> QED
      BY <3>1, <3>3, <3>4 DEF OtherTypes
  <2>2. /\ errno' \in [Threads -> {"none", "ENOMEM", "EIO"}]
        /\ program_errno' \in [Threads -> {"none", "ENOMEM"}]
    <3>1. \/ UNCHANGED <<errno, program_errno>>
          \/ LibcCall(t)
          \/ Rearm(t)
      BY DEF Getting, Check, Disarm, RealCall, SaveErrno, ReadIndex, NoFlush, StoreBeyond
    <3>2. CASE LibcCall(t)
      BY <3>2 DEF LibcCall, OtherTypes
    <3>3. CASE Rearm(t)
      <4>1. Hook(t).errnum \in {"none", "ENOMEM", "EIO"}
        BY <1>4, <1>5, <3>3 DEF Rearm, h
      <4> QED
        BY <3>3, <4>1 DEF Rearm, OtherTypes
    <3> QED
      BY <3>1, <3>2, <3>3 DEF OtherTypes
  <2> QED
    BY <2>1, <2>2 DEF OtherTypes
<1> QED
  BY <1>2, <1>7, <1>8

(* The clock is read.                                                      *)
LEMMA FillTypes ==
  ASSUME TypeInv, NEW t \in Threads, Fill(t)
  PROVE  TypeInv'
<1> USE DEF TypeInv, filevars, buffervars
<1> DEFINE slots == DOMAIN tracebuffer_buffer
           h     == Hook(t)
           g     == [h EXCEPT !.time = clock']
<1>1. /\ h \in HookAt(clock) /\ h.step = Filling(h.kind)
      /\ clock \in Nat /\ clock' = clock + 1
      /\ Advance(t, g)
      /\ static_packet' = [static_packet EXCEPT ![h.kind] = Packet(h.kind, h.func, clock')]
      /\ UNCHANGED <<filevars, failed, buffervars, phase, libgraprof_hooked, errno, ncalls,
                     nsignals, recorded, program_errno>>
  BY AtFacts DEF Fill, LogTypes, history
<1>2. /\ PacketAt(clock) \subseteq PacketAt(clock')
      /\ Seq(PacketAt(clock)) \subseteq Seq(PacketAt(clock'))
      /\ h \in HookAt(clock')
  <2>1. clock' \in Nat /\ clock <= clock'
    BY <1>1
  <2>2. h \in HookAt(clock')
    BY <1>1, <2>1 DEF HookAt
  <2> QED
    BY <1>1, <2>1, <2>2, LaterTypes
<1>3. BufferTypes'
  BY <1>1, <1>2 DEF BufferTypes
<1>4. LogTypes'
  <2>1. Packet(h.kind, h.func, clock') \in PacketAt(clock') /\ h.kind \in Kinds
    <3>1. h.kind \in Kinds /\ h.func \in Functions \cup {NoFunction} /\ clock' \in 0 .. clock'
      BY <1>1 DEF HookAt
    <3> QED
      BY <3>1 DEF Packet, PacketAt
  <2> HIDE DEF h
  <2> QED
    BY <1>1, <1>2, <2>1 DEF LogTypes
<1>5. g \in HookAt(clock') /\ g.step = h.step /\ g.kind = h.kind /\ g.slot = h.slot
  BY <1>1, <1>2 DEF HookAt
<1> HIDE DEF h, g
<1>6. TypedContexts(contexts, clock', slots)
  BY <1>1, TypedLater DEF ContextTypes
<1>7. TypedContexts(contexts', clock', slots)
  <2>1. g.step < Rearming(g.kind) /\ g.step + 1 # Storing(g.kind)
    BY <1>1, <1>5 DEF Filling, Rearming, Storing
  <2> HIDE DEF slots
  <2> QED
    BY <1>1, <1>5, <1>6, <2>1, AdvanceTyped
<1>8. ContextTypes' /\ OtherTypes'
  BY <1>1, <1>7 DEF ContextTypes, OtherTypes
<1> QED
  BY <1>3, <1>4, <1>8

(* A packet goes into the buffer.                                          *)
LEMMA StoreTypes ==
  ASSUME TypeInv, NEW t \in Threads, StorePacket(t)
  PROVE  TypeInv'
<1> USE DEF TypeInv, filevars
<1> DEFINE slots == DOMAIN tracebuffer_buffer
           h     == Hook(t)
<1>1. /\ h \in HookAt(clock) /\ h # NoHook /\ h.step = Storing(h.kind)
      /\ GoodHook(h, slots)
      /\ Advance(t, h)
      /\ Store(h.slot, static_packet[h.kind])
      /\ recorded' = Append(recorded, Packet(h.kind, h.func, h.time))
      /\ UNCHANGED <<phase, libgraprof_hooked, static_packet, clock, errno, ncalls, nsignals,
                     program_errno>>
  BY AtFacts DEF StorePacket, hookvars
<1>2. /\ h.kind \in Kinds /\ h.func \in Functions \cup {NoFunction} /\ h.time \in 0 .. clock
      /\ h.slot \in 0 .. BUFSIZE - 1 /\ 0 .. h.slot - 1 \subseteq slots
      /\ slots' = slots \cup {h.slot}
      /\ tracebuffer_index' = h.slot + 1
      /\ \A x \in slots' : tracebuffer_buffer'[x] =
                             IF x = h.slot THEN static_packet[h.kind] ELSE tracebuffer_buffer[x]
      /\ UNCHANGED <<filevars, failed>>
  BY <1>1, BUFSIZEAssumption DEF HookAt, GoodHook, Store
<1> HIDE DEF h
<1>3. BufferTypes'
  <2>1. static_packet[h.kind] \in PacketAt(clock)
    BY <1>2 DEF LogTypes
  <2>2. /\ tracebuffer_index' \in 0 .. BUFSIZE
        /\ 0 .. tracebuffer_index' - 1 \subseteq slots'
        /\ slots' \subseteq 0 .. BUFSIZE - 1
    BY <1>2, BUFSIZEAssumption DEF BufferTypes
  <2>3. \A x \in slots' : tracebuffer_buffer'[x] \in PacketAt(clock)
    BY <1>2, <2>1 DEF BufferTypes
  <2> QED
    BY <1>1, <1>2, <2>2, <2>3 DEF BufferTypes
<1>4. LogTypes'
  <2>1. Packet(h.kind, h.func, h.time) \in PacketAt(clock)
    BY <1>2 DEF Packet, PacketAt
  <2>2. recorded' \in Seq(PacketAt(clock))
    BY <1>1, <2>1, AppendProperties DEF LogTypes
  <2> QED
    BY <1>1, <2>2 DEF LogTypes
<1>5. ContextTypes'
  <2>1. clock \in Nat /\ slots \subseteq slots' /\ TypedContexts(contexts, clock, slots)
    BY <1>2 DEF ContextTypes, LogTypes
  <2> HIDE DEF slots
  <2>2. TypedContexts(contexts, clock, slots')
    BY <2>1, TypedLater
  <2>3. h.step < Rearming(h.kind) /\ h.step + 1 # Storing(h.kind)
    BY <1>1 DEF Filling, Rearming, Storing
  <2>4. TypedContexts(contexts', clock, slots')
    BY <1>1, <2>2, <2>3, AdvanceTyped
  <2> QED
    BY <1>1, <2>4 DEF ContextTypes, slots
<1>6. OtherTypes'
  BY <1>1, <1>2 DEF OtherTypes
<1> QED
  BY <1>3, <1>4, <1>5, <1>6

(* The buffer is written to the file.                                      *)
LEMMA FlushStepTypes ==
  ASSUME TypeInv, NEW t \in Threads, Flush(t)
  PROVE  TypeInv'
<1> USE DEF TypeInv
<1> DEFINE slots == DOMAIN tracebuffer_buffer
           h     == Hook(t)
<1>1. /\ h \in HookAt(clock) /\ h.step = Flushing(h.kind) /\ Advance(t, h)
      /\ FlushDone \/ \E n \in 0 .. BUFSIZE : FlushFailed(n)
      /\ errno' = errno \/ errno' = [errno EXCEPT ![t] = "EIO"]
      /\ UNCHANGED <<phase, libgraprof_hooked, static_packet, clock, ncalls, nsignals,
                     recorded, program_errno>>
  BY AtFacts DEF Flush, hookvars, history
<1>2. UNCHANGED <<tracebuffer_buffer, header_count, entries>>
  BY <1>1 DEF FlushDone, FlushFailed, buffervars
<1> HIDE DEF h
<1>3. BufferTypes' /\ LogTypes'
  BY <1>1, FlushTypes DEF LogTypes
<1>4. ContextTypes'
  <2>1. TypedContexts(contexts, clock, slots)
    BY DEF ContextTypes
  <2>2. h.step < Rearming(h.kind) /\ h.step + 1 # Storing(h.kind)
    BY <1>1 DEF Flushing, Filling, Rearming, Storing
  <2> HIDE DEF slots
  <2>3. TypedContexts(contexts', clock, slots)
    BY <1>1, <2>1, <2>2, AdvanceTyped
  <2> QED
    BY <1>1, <1>2, <2>3 DEF ContextTypes, slots
<1>5. errno' \in [Threads -> {"none", "ENOMEM", "EIO"}]
  BY <1>1 DEF OtherTypes
<1>6. OtherTypes'
  BY <1>1, <1>2, <1>5 DEF OtherTypes
<1> QED
  BY <1>3, <1>4, <1>6

LEMMA NextTypes == TypeInv /\ [Next]_vars => TypeInv'
<1> SUFFICES ASSUME TypeInv, [Next]_vars PROVE TypeInv'
  OBVIOUS
<1>1. CASE UNCHANGED vars
  BY <1>1 DEF vars, TypeInv, BufferTypes, LogTypes, ContextTypes, OtherTypes
<1>2. CASE Next
  <2>1. CASE WriteHeaderEntry \/ FinishHeader \/ OpeningFails \/ Kill
    BY <2>1, OpenCloseTypes
  <2>2. ASSUME NEW t \in Threads,
               \/ HookStep(t) \/ Signal(t) \/ ReturnFromHandler(t) \/ Exit(t)
               \/ ReturnFromFunction(t) \/ CallAllocator(t)
               \/ \E f \in Functions : CallFunction(t, f)
        PROVE  TypeInv'
    <3>1. CASE Exit(t)
      BY <3>1, OpenCloseTypes
    <3>2. CASE \/ Signal(t) \/ ReturnFromHandler(t) \/ ReturnFromFunction(t)
               \/ CallAllocator(t) \/ \E f \in Functions : CallFunction(t, f)
      BY <3>2, ProgramTypes
    <3>3. CASE HookStep(t)
      <4>1. Getting(t) \/ Fill(t) \/ StorePacket(t) \/ Flush(t)
        BY <3>3 DEF HookStep, Getting
      <4> QED
        BY <4>1, GettingTypes, FillTypes, StoreTypes, FlushStepTypes
    <3> QED
      BY <2>2, <3>1, <3>2, <3>3
  <2> QED
    BY <1>2, <2>1, <2>2 DEF Next
<1> QED
  BY <1>1, <1>2

(* The types and what they rest on hold in every state, for any threads.   *)
THEOREM SpecTypes == Spec => []TypeInv
<1> QED
  BY InitTypes, NextTypes, PTL DEF Spec

(* Types, for any number of threads and any interleaving of their hooks:   *)
(* the slots below the index always hold whole packets, although threads   *)
(* race for the index between reading and storing it.                      *)
THEOREM SpecTypeOK == Spec => []TypeOK
<1>1. TypeInv => TypeOK
  <2> SUFFICES ASSUME TypeInv PROVE TypeOK
    OBVIOUS
  <2>1. AnyPacket = PacketAt(clock) /\ AnyHook = {NoHook} \cup HookAt(clock)
    BY DEF AnyPacket, AnyHook, PacketAt, HookAt
  <2>2. \A t \in Threads : \A k \in 1 .. Len(contexts[t]) :
          contexts[t][k] \in [calls : Seq(Functions), hook : AnyHook]
    BY <2>1, ElementOfSeq DEF TypeInv, ContextTypes, TypedContexts, ContextAt
  <2> QED
    BY <2>1, <2>2 DEF TypeInv, BufferTypes, LogTypes, OtherTypes, TypeOK
<1> QED
  BY <1>1, SpecTypes, PTL

-----------------------------------------------------------------------------
(* The invariant of a program with one thread, t.  A hook records from the *)
(* statement that disarms the hooks until the one that arms them again.    *)
Recording(h) == h # NoHook /\ h.step > Disarming(h.kind)
Waiting(h)   == h = NoHook \/ h.step = 1
Saved(h)     == h # NoHook /\ h.step > Saving(h.kind)
Filled(h)    == h # NoHook /\ h.step \in {Reading(h.kind), Storing(h.kind)}
IsStoring(h)  == h # NoHook /\ h.step = Storing(h.kind)
IsFlushing(h) == h # NoHook /\ h.step = Flushing(h.kind)
IsRearming(h) == h # NoHook /\ h.step = Rearming(h.kind)

(* At most one hook records, and it is off in the meantime: the handlers   *)
(* above it do nothing and those below it have not got so far.             *)
Exclusive(t) ==
  /\ \A i \in 1 .. Len(contexts[t]) :
       LET h == contexts[t][i].hook
       IN  /\ Recording(h) =>
                /\ ~libgraprof_hooked
                /\ phase \notin {"opening", "off"}
                /\ \A j \in i + 1 .. Len(contexts[t]) : Waiting(contexts[t][j].hook)
           /\ phase \in {"opening", "off"} => Waiting(h)
           /\ h # NoHook /\ h.kind = "+" => i = 1
  /\ phase = "profiling" /\ ~libgraprof_hooked =>
       \E i \in 1 .. Len(contexts[t]) : Recording(contexts[t][i].hook)
  /\ phase \in {"opening", "off", "closed"} => ~libgraprof_hooked

(* A hook keeps the errno it is going to restore, and none but the one     *)
(* that is about to restore it has changed it.                             *)
ErrnoSaved(t) ==
  /\ \A i \in 1 .. Len(contexts[t]) :
       Saved(contexts[t][i].hook) => contexts[t][i].hook.errnum = program_errno[t]
  /\ \/ errno[t] = program_errno[t]
     \/ \E i \in 1 .. Len(contexts[t]) : IsRearming(contexts[t][i].hook)

(* A hook stores what it has put together, where the buffer ends.          *)
HookSlots(h) ==
  /\ Filled(h) =>
       /\ static_packet[h.kind] = Packet(h.kind, h.func, h.time)
       /\ \A k \in 1 .. Len(recorded) : recorded[k].time <= h.time
  /\ IsStoring(h)  => h.slot = tracebuffer_index
  /\ IsFlushing(h) => h.slot + 1 = tracebuffer_index

Slots(t) == \A i \in 1 .. Len(contexts[t]) : HookSlots(contexts[t][i].hook)

(* The buffer has room but where a hook is about to flush it.              *)
Room(t) ==
  /\ phase \in {"opening", "off", "profiling"} /\ ~failed =>
       \/ tracebuffer_index < BUFSIZE
       \/ \E i \in 1 .. Len(contexts[t]) : IsFlushing(contexts[t][i].hook)
  /\ phase = "corrupt" => failed

Log ==
  /\ phase \in {"opening", "off"} =>
       packets = <<>> /\ recorded = <<>> /\ tracebuffer_index = 0 /\ ~failed
  /\ ~failed =>
       /\ phase \in {"opening", "off", "profiling", "unclosed"} =>
            packets \o Buffered(tracebuffer_index) = recorded
       /\ IsPrefix(packets, recorded)
       /\ phase = "closed" => packets = recorded

ThreadInv(t) == Exclusive(t) /\ ErrnoSaved(t) /\ Slots(t) /\ Room(t) /\ Log /\ TimesAscend

-----------------------------------------------------------------------------
(* What a step does to the stack of contexts, hook by hook.                *)
NewHooks(t, h) ==
  /\ Len(contexts'[t]) = Len(contexts[t])
  /\ \A i \in 1 .. Len(contexts[t]) :
       contexts'[t][i].hook = IF i = Len(contexts[t]) THEN h ELSE contexts[t][i].hook

LEMMA StackFacts ==
  ASSUME TypeInv, NEW t \in Threads
  PROVE  /\ Len(contexts[t]) \in Nat \ {0}
         /\ Top(t) = contexts[t][Len(contexts[t])]
         /\ Hook(t) = contexts[t][Len(contexts[t])].hook
         /\ \A i \in 1 .. Len(contexts[t]) :
              /\ contexts[t][i] \in ContextAt(clock)
              /\ contexts[t][i].hook = NoHook \/ contexts[t][i].hook \in HookAt(clock)
              /\ contexts[t][i].hook # NoHook =>
                   contexts[t][i].hook.step <= Rearming(contexts[t][i].hook.kind)
<1>1. contexts[t] \in Seq(ContextAt(clock)) /\ contexts[t] # <<>>
  BY DEF TypeInv, ContextTypes, TypedContexts
<1>2. /\ Len(contexts[t]) \in Nat \ {0}
      /\ Top(t) = contexts[t][Len(contexts[t])]
  BY <1>1, FrontFacts DEF Top
<1>3. \A i \in 1 .. Len(contexts[t]) : contexts[t][i] \in ContextAt(clock)
  BY <1>1, ElementOfSeq
<1> QED
  BY <1>2, <1>3 DEF Hook, ContextAt, TypeInv, ContextTypes, TypedContexts, GoodHook

LEMMA SetTopStack ==
  ASSUME TypeInv, NEW t \in Threads, NEW c, SetTop(t, c)
  PROVE  /\ Len(contexts'[t]) = Len(contexts[t])
         /\ \A i \in 1 .. Len(contexts[t]) :
              contexts'[t][i] = IF i = Len(contexts[t]) THEN c ELSE contexts[t][i]
<1> DEFINE S == ContextAt(clock) \cup {c}
<1>1. contexts[t] \in Seq(ContextAt(clock)) /\ contexts[t] # <<>> /\ t \in DOMAIN contexts
  BY DEF TypeInv, ContextTypes, TypedContexts
<1>2. contexts[t] \in Seq(S) /\ c \in S
  BY <1>1, SeqMonotonic
<1>3. contexts'[t] = Append(Front(contexts[t]), c)
  BY <1>1 DEF SetTop
<1> HIDE DEF S
<1> QED
  BY <1>1, <1>2, <1>3, NewTopFacts

LEMMA SetHookStack ==
  ASSUME TypeInv, NEW t \in Threads, NEW h, SetHook(t, h)
  PROVE  /\ NewHooks(t, h)
         /\ \A i \in 1 .. Len(contexts[t]) : contexts'[t][i].calls = contexts[t][i].calls
<1>1. /\ Top(t) = contexts[t][Len(contexts[t])] /\ Top(t) \in ContextAt(clock)
  BY StackFacts
<1> DEFINE c == [Top(t) EXCEPT !.hook = h]
<1>2. c.hook = h /\ c.calls = Top(t).calls
  BY <1>1 DEF ContextAt
<1>3. SetTop(t, c)
  BY DEF SetHook
<1> HIDE DEF c
<1> QED
  BY <1>1, <1>2, <1>3, SetTopStack DEF NewHooks

LEMMA AdvanceStack ==
  ASSUME TypeInv, NEW t \in Threads, NEW time \in Nat, NEW h \in HookAt(time), Advance(t, h)
  PROVE  \E g :
           /\ NewHooks(t, g)
           /\ \A i \in 1 .. Len(contexts[t]) : contexts'[t][i].calls = contexts[t][i].calls
           /\ g # NoHook /\ g.step = h.step + 1 /\ g.kind = h.kind /\ g.func = h.func
           /\ g.errnum = h.errnum /\ g.slot = h.slot /\ g.time = h.time
<1> DEFINE g == [h EXCEPT !.step = @ + 1]
<1>1. /\ g.step = h.step + 1 /\ g.kind = h.kind /\ g.func = h.func
      /\ g.errnum = h.errnum /\ g.slot = h.slot /\ g.time = h.time
      /\ g.kind \in Kinds
  BY DEF HookAt
<1>2. NoHook.kind \notin Kinds
  BY DEF NoHook, Kinds
<1>3. SetHook(t, g)
  BY DEF Advance
<1> HIDE DEF g
<1>4. NewHooks(t, g) /\ \A i \in 1 .. Len(contexts[t]) : contexts'[t][i].calls = contexts[t][i].calls
  BY <1>3, SetHookStack
<1> QED
  BY <1>1, <1>2, <1>4

-----------------------------------------------------------------------------
(* What a hook does before it disarms the hooks and after that.            *)
LEMMA HookOrder ==
  ASSUME NEW time, NEW h, h = NoHook \/ h \in HookAt(time)
  PROVE  /\ Waiting(h) => ~Recording(h) /\ ~Saved(h)
         /\ Filled(h) \/ IsStoring(h) \/ IsFlushing(h) \/ IsRearming(h) => Recording(h)
BY DEF Waiting, Recording, Saved, Filled, IsStoring, IsFlushing, IsRearming, HookAt,
   Disarming, Saving, Filling, Reading, Storing, Flushing, Rearming

(* No hook records below one that has begun.                               *)
LEMMA NoneBelow ==
  ASSUME TypeInv, NEW t \in Threads, Exclusive(t), ~Waiting(Hook(t))
  PROVE  /\ phase \notin {"opening", "off"}
         /\ \A i \in 1 .. Len(contexts[t]) : i # Len(contexts[t]) =>
              /\ ~Recording(contexts[t][i].hook) /\ ~Filled(contexts[t][i].hook)
              /\ ~IsStoring(contexts[t][i].hook) /\ ~IsFlushing(contexts[t][i].hook)
              /\ ~IsRearming(contexts[t][i].hook)
<1>1. /\ Len(contexts[t]) \in Nat \ {0}
      /\ Hook(t) = contexts[t][Len(contexts[t])].hook
      /\ \A i \in 1 .. Len(contexts[t]) :
           contexts[t][i].hook = NoHook \/ contexts[t][i].hook \in HookAt(clock)
  BY StackFacts
<1>2. \A i \in 1 .. Len(contexts[t]) : i # Len(contexts[t]) => ~Recording(contexts[t][i].hook)
  BY <1>1 DEF Exclusive
<1>3. phase \notin {"opening", "off"}
  BY <1>1 DEF Exclusive
<1>4. \A i \in 1 .. Len(contexts[t]) :
        LET h == contexts[t][i].hook
        IN  ~Recording(h) =>
              ~Filled(h) /\ ~IsStoring(h) /\ ~IsFlushing(h) /\ ~IsRearming(h)
  BY <1>1, HookOrder
<1> QED
  BY <1>2, <1>3, <1>4

(* A statement other than those that begin or end a hook, disarm the hooks *)
(* or arm them.                                                            *)
LEMMA ExclusiveKept ==
  ASSUME TypeInv, NEW t \in Threads, Exclusive(t), ~Waiting(Hook(t)),
         NEW g, NewHooks(t, g), g.kind = Hook(t).kind, Recording(g) <=> Recording(Hook(t)),
         UNCHANGED <<phase, libgraprof_hooked>>
  PROVE  Exclusive(t)'
<1>1. /\ Len(contexts[t]) \in Nat \ {0}
      /\ Hook(t) = contexts[t][Len(contexts[t])].hook
  BY StackFacts
<1>2. Hook(t) # NoHook
  BY DEF Waiting
<1>3. phase \notin {"opening", "off"}
  BY NoneBelow
<1>4. \A i \in 1 .. Len(contexts[t]) :
        LET h == contexts'[t][i].hook
        IN  /\ Recording(h) =>
                 /\ ~libgraprof_hooked
                 /\ \A j \in i + 1 .. Len(contexts[t]) : Waiting(contexts'[t][j].hook)
            /\ h # NoHook /\ h.kind = "+" => i = 1
  BY <1>1, <1>2, NoneBelow DEF NewHooks, Exclusive
<1>5. phase = "profiling" /\ ~libgraprof_hooked =>
        \E i \in 1 .. Len(contexts[t]) : Recording(contexts'[t][i].hook)
  BY <1>1 DEF NewHooks, Exclusive
<1> QED
  BY <1>3, <1>4, <1>5 DEF NewHooks, Exclusive

LEMMA ErrnoSavedKept ==
  ASSUME TypeInv, NEW t \in Threads, ErrnoSaved(t), ~IsRearming(Hook(t)),
         NEW g, NewHooks(t, g), Saved(g) => g.errnum = program_errno[t],
         UNCHANGED <<errno, program_errno>>
  PROVE  ErrnoSaved(t)'
<1>1. /\ Len(contexts[t]) \in Nat \ {0}
      /\ Hook(t) = contexts[t][Len(contexts[t])].hook
  BY StackFacts
<1> QED
  BY <1>1 DEF NewHooks, ErrnoSaved

(* Nothing changes what the hooks below rely on unless none relies on it.  *)
LEMMA SlotsKept ==
  ASSUME TypeInv, NEW t \in Threads, Exclusive(t), Slots(t),
         NEW g, NewHooks(t, g), HookSlots(g)',
         ~Waiting(Hook(t)) \/ UNCHANGED <<static_packet, recorded, tracebuffer_index>>
  PROVE  Slots(t)'
<1>1. \A i \in 1 .. Len(contexts[t]) : i # Len(contexts[t]) => HookSlots(contexts[t][i].hook)'
  <2> SUFFICES ASSUME NEW i \in 1 .. Len(contexts[t]), i # Len(contexts[t])
               PROVE  HookSlots(contexts[t][i].hook)'
    OBVIOUS
  <2>1. contexts'[t][i].hook = contexts[t][i].hook
    BY DEF NewHooks
  <2>2. CASE ~Waiting(Hook(t))
    BY <2>1, <2>2, NoneBelow DEF HookSlots
  <2>3. CASE UNCHANGED <<static_packet, recorded, tracebuffer_index>>
    BY <2>1, <2>3 DEF Slots, HookSlots
  <2> QED
    BY <2>2, <2>3
<1> QED
  BY <1>1 DEF NewHooks, Slots

LEMMA LogKept ==
  ASSUME Log, TimesAscend,
         UNCHANGED <<packets, tracebuffer_buffer, tracebuffer_index, failed, phase, recorded>>
  PROVE  Log' /\ TimesAscend'
BY DEF Log, TimesAscend, Buffered

LEMMA RoomKept ==
  ASSUME TypeInv, NEW t \in Threads, Room(t), ~IsFlushing(Hook(t)), NEW g, NewHooks(t, g),
         UNCHANGED <<tracebuffer_index, failed, phase>>
  PROVE  Room(t)'
<1>1. /\ Len(contexts[t]) \in Nat \ {0}
      /\ Hook(t) = contexts[t][Len(contexts[t])].hook
  BY StackFacts
<1> QED
  BY <1>1 DEF NewHooks, Room

-----------------------------------------------------------------------------
(* The statements of a hook keep the invariant.                            *)
LEMMA CheckInv ==
  ASSUME TypeInv, NEW t \in Threads, ThreadInv(t), Check(t)
  PROVE  ThreadInv(t)'
<1> USE DEF ThreadInv
<1> DEFINE h == Hook(t)
<1>1. /\ h \in HookAt(clock) /\ h # NoHook /\ h.step = 1 /\ clock \in Nat
      /\ UNCHANGED <<packets, tracebuffer_buffer, tracebuffer_index, failed, phase,
                     libgraprof_hooked, static_packet, recorded>>
  BY AtFacts DEF Check, TypeInv, LogTypes, filevars, buffervars, hookvars
<1>2. /\ Len(contexts[t]) \in Nat \ {0}
      /\ h = contexts[t][Len(contexts[t])].hook
  BY StackFacts
<1>3. PICK g : /\ NewHooks(t, g)
               /\ g # NoHook => g.step = 2 /\ g.kind = h.kind
               /\ g # NoHook => libgraprof_hooked /\ UNCHANGED <<errno, program_errno>>
               /\ g = NoHook => \/ UNCHANGED <<errno, program_errno>>
                               \/ (h.kind = "+" /\ LibcCall(t))
  <2>1. CASE libgraprof_hooked
    BY <1>1, <2>1, AdvanceStack DEF Check
  <2>2. CASE ~libgraprof_hooked
    BY <1>1, <2>2, SetHookStack DEF Check
  <2> QED
    BY <2>1, <2>2
<1> HIDE DEF h
<1>4. /\ ~Recording(h) /\ ~IsFlushing(h) /\ ~IsRearming(h)
      /\ ~Recording(g) /\ ~Saved(g) /\ HookSlots(g)' /\ (g = NoHook => Waiting(g))
  <2> USE DEF Recording, IsFlushing, IsRearming, Saved, HookSlots, Filled, IsStoring, Waiting,
              Disarming, Flushing, Rearming, Saving, Storing, Reading, Filling
  <2>1. ~Recording(h) /\ ~IsFlushing(h) /\ ~IsRearming(h)
    BY <1>1
  <2>2. ~Recording(g) /\ HookSlots(g)' /\ (g = NoHook => Waiting(g))
    BY <1>3
  <2>3. ~Saved(g)
    BY <1>3
  <2> QED
    BY <2>1, <2>2, <2>3
<1>5. Exclusive(t)'
  <2>1. CASE libgraprof_hooked
    <3>1. \A i \in 1 .. Len(contexts[t]) : ~Recording(contexts'[t][i].hook)
      BY <1>2, <1>3, <1>4, <2>1 DEF NewHooks, Exclusive
    <3>2. phase \notin {"opening", "off", "closed"}
      BY <2>1 DEF Exclusive
    <3> QED
      BY <1>1, <1>2, <1>3, <2>1, <3>1, <3>2 DEF NewHooks, Exclusive
  <2>2. CASE ~libgraprof_hooked
    BY <1>1, <1>2, <1>3, <1>4, <2>2 DEF NewHooks, Exclusive
  <2> QED
    BY <2>1, <2>2
<1>6. ErrnoSaved(t)'
  <2>1. CASE UNCHANGED <<errno, program_errno>>
    BY <1>2, <1>3, <1>4, <2>1 DEF NewHooks, ErrnoSaved
  <2>2. CASE h.kind = "+" /\ LibcCall(t)
    <3>1. Len(contexts[t]) = 1
      <4>1. h.kind = "+" /\ Len(contexts[t]) \in 1 .. Len(contexts[t])
        BY <1>2, <2>2
      <4> QED
        BY <1>1, <1>2, <4>1 DEF Exclusive
    <3>2. errno'[t] = program_errno'[t]
      BY <1>2, <1>4, <2>2, <3>1 DEF LibcCall, ErrnoSaved, TypeInv, OtherTypes
    <3> QED
      BY <1>3, <1>4, <3>1, <3>2 DEF NewHooks, ErrnoSaved
  <2> QED
    BY <1>3, <2>1, <2>2
<1>7. Slots(t)' /\ Room(t)' /\ Log' /\ TimesAscend'
  BY <1>1, <1>3, <1>4, SlotsKept, RoomKept, LogKept DEF h
<1> QED
  BY <1>5, <1>6, <1>7

LEMMA DisarmInv ==
  ASSUME TypeInv, NEW t \in Threads, ThreadInv(t), Disarm(t), Running
  PROVE  ThreadInv(t)'
<1> USE DEF ThreadInv
<1> DEFINE h == Hook(t)
<1>1. /\ h \in HookAt(clock) /\ h # NoHook /\ h.step = Disarming(h.kind) /\ clock \in Nat
      /\ libgraprof_hooked' = FALSE /\ Advance(t, h)
      /\ UNCHANGED <<packets, tracebuffer_buffer, tracebuffer_index, failed, phase,
                     static_packet, recorded, errno, program_errno>>
  BY AtFacts DEF Disarm, TypeInv, LogTypes, filevars, buffervars, history
<1>2. /\ Len(contexts[t]) \in Nat \ {0}
      /\ h = contexts[t][Len(contexts[t])].hook
  BY StackFacts
<1>3. PICK g : /\ NewHooks(t, g) /\ g # NoHook
               /\ g.step = h.step + 1 /\ g.kind = h.kind /\ g.errnum = h.errnum
  BY <1>1, AdvanceStack
<1> HIDE DEF h
<1>4. /\ ~Waiting(h) /\ ~IsFlushing(h) /\ ~IsRearming(h)
      /\ Recording(g) /\ HookSlots(g)' /\ (Saved(g) => Saved(h))
  <2> USE DEF Recording, IsFlushing, IsRearming, Saved, HookSlots, Filled, IsStoring, Waiting,
              Disarming, Flushing, Rearming, Saving, Storing, Reading, Filling, IsFlushing
  <2>1. ~Waiting(h) /\ ~IsFlushing(h) /\ ~IsRearming(h)
    BY <1>1
  <2>2. Recording(g) /\ HookSlots(g)'
    BY <1>1, <1>3
  <2>3. Saved(g) => Saved(h)
    BY <1>1, <1>3
  <2> QED
    BY <2>1, <2>2, <2>3
<1>5. phase = "profiling"
  BY <1>4, NoneBelow DEF h, Running
<1>6. Exclusive(t)'
  <2>1. \A i \in 1 .. Len(contexts[t]) : Recording(contexts'[t][i].hook) => i = Len(contexts[t])
    BY <1>2, <1>3, <1>4, NoneBelow DEF NewHooks, h
  <2>2. \A i \in 1 .. Len(contexts[t]) :
          contexts'[t][i].hook # NoHook /\ contexts'[t][i].hook.kind = "+" => i = 1
    BY <1>1, <1>2, <1>3 DEF NewHooks, Exclusive
  <2>3. Recording(contexts'[t][Len(contexts[t])].hook)
    BY <1>2, <1>3, <1>4 DEF NewHooks
  <2> QED
    BY <1>1, <1>2, <1>3, <1>5, <2>1, <2>2, <2>3 DEF NewHooks, Exclusive
<1>7. ErrnoSaved(t)'
  BY <1>1, <1>2, <1>3, <1>4, ErrnoSavedKept DEF h, ErrnoSaved
<1>8. Slots(t)' /\ Room(t)' /\ Log' /\ TimesAscend'
  BY <1>1, <1>3, <1>4, SlotsKept, RoomKept, LogKept DEF h
<1> QED
  BY <1>6, <1>7, <1>8

(* What the other statements have in common: the hook goes one step on.    *)
OneStep(h, g) ==
  /\ NoHook \notin {h, g}
  /\ g.step = h.step + 1 /\ g.kind = h.kind /\ g.func = h.func

LEMMA ExclusiveStep ==
  ASSUME TypeInv, NEW t \in Threads, Exclusive(t), Hook(t) \in HookAt(clock),
         Hook(t).step \notin {1, Disarming(Hook(t).kind)},
         NEW g, NewHooks(t, g), OneStep(Hook(t), g),
         UNCHANGED <<phase, libgraprof_hooked>>
  PROVE  Exclusive(t)'
<1> DEFINE h == Hook(t)
<1>1. ~Waiting(h)
  BY DEF Waiting, OneStep
<1>2. Recording(g) <=> Recording(h)
  BY DEF Recording, OneStep, HookAt, Disarming
<1> HIDE DEF h
<1> QED
  BY <1>1, <1>2, ExclusiveKept DEF h, OneStep

LEMMA AllocatorAlone ==
  ASSUME TypeInv, NEW t \in Threads, Exclusive(t), At(t, "real")
  PROVE  ~libgraprof_hooked /\ Len(contexts[t]) = 1
<1> DEFINE h == Hook(t)
<1>1. /\ h \in HookAt(clock) /\ h # NoHook /\ h.step = 3 /\ h.kind = "+"
  BY AtFacts DEF TypeInv
<1>2. /\ Len(contexts[t]) \in 1 .. Len(contexts[t])
      /\ h = contexts[t][Len(contexts[t])].hook
  BY StackFacts
<1>3. Recording(h)
  BY <1>1 DEF Recording, Disarming
<1> HIDE DEF h
<1> QED
  BY <1>1, <1>2, <1>3 DEF Exclusive

LEMMA RealInv ==
  ASSUME TypeInv, NEW t \in Threads, ThreadInv(t), RealCall(t)
  PROVE  ThreadInv(t)'
<1> USE DEF ThreadInv
<1> DEFINE h == Hook(t)
<1>1. /\ h \in HookAt(clock) /\ h # NoHook /\ h.step = 3 /\ h.kind = "+" /\ clock \in Nat
      /\ UNCHANGED <<packets, tracebuffer_buffer, tracebuffer_index, failed, phase,
                     libgraprof_hooked, static_packet, recorded>>
  BY AtFacts DEF RealCall, TypeInv, LogTypes, filevars, buffervars, hookvars
<1>2. /\ Len(contexts[t]) \in Nat \ {0}
      /\ h = contexts[t][Len(contexts[t])].hook
  BY StackFacts
<1>3. Recording(h) /\ ~IsRearming(h) /\ ~IsFlushing(h)
  BY <1>1 DEF Recording, Disarming, IsRearming, Rearming, IsFlushing, Flushing, Filling
<1>4. ~libgraprof_hooked /\ Len(contexts[t]) = 1
  BY AllocatorAlone DEF RealCall
<1>5. PICK g : NewHooks(t, g) /\ OneStep(h, g)
  BY <1>1, <1>4, AdvanceStack DEF RealCall, OneStep
<1> HIDE DEF h
<1>6. ~Saved(g) /\ HookSlots(g)'
  BY <1>1, <1>5 DEF OneStep, Saved, Saving, HookSlots, Filled, IsStoring, IsFlushing, Filling,
     Reading, Storing, Flushing
<1>7. Exclusive(t)'
  BY <1>1, <1>5, ExclusiveStep DEF h, Disarming
<1>8. ErrnoSaved(t)'
  <2>1. errno[t] = program_errno[t]
    BY <1>2, <1>3, <1>4 DEF ErrnoSaved
  <2>2. errno'[t] = program_errno'[t]
    BY <1>4, <2>1 DEF RealCall, LibcCall, TypeInv, OtherTypes
  <2> QED
    BY <1>4, <1>5, <1>6, <2>2 DEF NewHooks, ErrnoSaved
<1>9. Slots(t)' /\ Room(t)' /\ Log' /\ TimesAscend'
  BY <1>1, <1>3, <1>5, <1>6, SlotsKept, RoomKept, LogKept DEF h
<1> QED
  BY <1>7, <1>8, <1>9

LEMMA SaveInv ==
  ASSUME TypeInv, NEW t \in Threads, ThreadInv(t), SaveErrno(t)
  PROVE  ThreadInv(t)'
<1> USE DEF ThreadInv
<1> DEFINE h == Hook(t)
           k == [h EXCEPT !.errnum = errno[t]]
<1>1. /\ h \in HookAt(clock) /\ h # NoHook /\ h.step = Saving(h.kind) /\ clock \in Nat
      /\ Advance(t, k)
      /\ UNCHANGED <<packets, tracebuffer_buffer, tracebuffer_index, failed, phase,
                     libgraprof_hooked, static_packet, recorded, errno, program_errno>>
  BY AtFacts DEF SaveErrno, TypeInv, LogTypes, filevars, buffervars, hookvars, history
<1>2. /\ Len(contexts[t]) \in Nat \ {0}
      /\ h = contexts[t][Len(contexts[t])].hook
  BY StackFacts
<1>3. /\ k \in HookAt(clock) /\ k.errnum = errno[t]
      /\ k.step = h.step /\ k.kind = h.kind /\ k.func = h.func
  BY <1>1 DEF HookAt, TypeInv, OtherTypes
<1> HIDE DEF h, k
<1>4. PICK g : NewHooks(t, g) /\ OneStep(h, g) /\ g.errnum = errno[t]
  BY <1>1, <1>3, AdvanceStack DEF OneStep
<1>5. /\ ~Waiting(h) /\ ~IsRearming(h) /\ ~IsFlushing(h) /\ HookSlots(g)'
      /\ h.step \notin {1, Disarming(h.kind)}
  <2> USE DEF OneStep, Saving, HookSlots, Filled, IsStoring, IsFlushing, Filling,
              Reading, Storing, Flushing, Waiting, IsRearming, Rearming, Disarming
  <2>1. /\ ~Waiting(h) /\ ~IsRearming(h) /\ ~IsFlushing(h)
        /\ h.step \notin {1, Disarming(h.kind)}
    BY <1>1
  <2>2. HookSlots(g)'
    BY <1>1, <1>4
  <2> QED
    BY <2>1, <2>2
<1>6. Exclusive(t)'
  BY <1>1, <1>4, <1>5, ExclusiveStep DEF h
<1>7. ErrnoSaved(t)'
  <2>1. errno[t] = program_errno[t]
    BY <1>2, <1>5, NoneBelow DEF ErrnoSaved, h
  <2> QED
    BY <1>1, <1>4, <1>5, <2>1, ErrnoSavedKept DEF h
<1>8. Slots(t)' /\ Room(t)' /\ Log' /\ TimesAscend'
  BY <1>1, <1>4, <1>5, SlotsKept, RoomKept, LogKept DEF h
<1> QED
  BY <1>6, <1>7, <1>8

LEMMA FillInv ==
  ASSUME TypeInv, NEW t \in Threads, ThreadInv(t), Fill(t)
  PROVE  ThreadInv(t)'
<1> USE DEF ThreadInv
<1> DEFINE h == Hook(t)
           k == [h EXCEPT !.time = clock']
<1>1. /\ h \in HookAt(clock) /\ h # NoHook /\ h.step = Filling(h.kind) /\ clock \in Nat
      /\ clock' = clock + 1
      /\ static_packet' = [static_packet EXCEPT ![h.kind] = Packet(h.kind, h.func, clock')]
      /\ Advance(t, k)
      /\ UNCHANGED <<packets, tracebuffer_buffer, tracebuffer_index, failed, phase,
                     libgraprof_hooked, recorded, errno, program_errno>>
  BY AtFacts DEF Fill, TypeInv, LogTypes, filevars, buffervars, history
<1>2. /\ Len(contexts[t]) \in Nat \ {0}
      /\ h = contexts[t][Len(contexts[t])].hook
  BY StackFacts
<1>3. /\ k \in HookAt(clock') /\ k.time = clock' /\ k.errnum = h.errnum
      /\ k.step = h.step /\ k.kind = h.kind /\ k.func = h.func
      /\ h.kind \in Kinds
  BY <1>1 DEF HookAt
<1> HIDE DEF h, k
<1>4. PICK g : /\ NewHooks(t, g) /\ OneStep(h, g)
               /\ g.time = clock' /\ g.errnum = h.errnum
  BY <1>1, <1>3, AdvanceStack DEF OneStep
<1>5. /\ ~Waiting(h) /\ ~IsRearming(h) /\ ~IsFlushing(h) /\ (Saved(g) => Saved(h))
      /\ ~IsStoring(g) /\ ~IsFlushing(g)
      /\ h.step \notin {1, Disarming(h.kind)}
  <2> USE DEF OneStep, Saving, HookSlots, Filled, IsStoring, IsFlushing, Filling, Saved,
              Reading, Storing, Flushing, Waiting, IsRearming, Rearming, Disarming
  <2>1. /\ ~Waiting(h) /\ ~IsRearming(h) /\ ~IsFlushing(h)
        /\ h.step \notin {1, Disarming(h.kind)}
    BY <1>1
  <2>2. ~IsStoring(g) /\ ~IsFlushing(g) /\ (Saved(g) => Saved(h))
    BY <1>1, <1>4
  <2> QED
    BY <2>1, <2>2
<1>6. HookSlots(g)'
  <2>1. static_packet'[h.kind] = Packet(h.kind, h.func, clock')
    BY <1>1, <1>3 DEF TypeInv, LogTypes
  <2>2. \A i \in 1 .. Len(recorded) : recorded[i].time <= clock'
    <3>1. \A i \in 1 .. Len(recorded) : recorded[i] \in PacketAt(clock)
      BY ElementOfSeq DEF TypeInv, LogTypes
    <3> QED
      BY <1>1, <3>1 DEF PacketAt
  <2> QED
    BY <1>1, <1>4, <1>5, <2>1, <2>2 DEF HookSlots, OneStep
<1>7. Exclusive(t)'
  BY <1>1, <1>4, <1>5, ExclusiveStep DEF h
<1>8. ErrnoSaved(t)'
  BY <1>1, <1>2, <1>4, <1>5, ErrnoSavedKept, SMTT(30) DEF h, ErrnoSaved
<1>9. Slots(t)' /\ Room(t)' /\ Log' /\ TimesAscend'
  BY <1>1, <1>4, <1>5, <1>6, SlotsKept, RoomKept, LogKept DEF h
<1> QED
  BY <1>7, <1>8, <1>9

LEMMA ReadInv ==
  ASSUME TypeInv, NEW t \in Threads, ThreadInv(t), ReadIndex(t)
  PROVE  ThreadInv(t)'
<1> USE DEF ThreadInv
<1> DEFINE h == Hook(t)
           k == [h EXCEPT !.slot = tracebuffer_index]
<1>1. /\ h \in HookAt(clock) /\ h # NoHook /\ h.step = Reading(h.kind) /\ clock \in Nat
      /\ Advance(t, k)
      /\ UNCHANGED <<packets, tracebuffer_buffer, tracebuffer_index, failed, phase,
                     libgraprof_hooked, static_packet, recorded, errno, program_errno>>
  BY AtFacts DEF ReadIndex, TypeInv, LogTypes, filevars, buffervars, hookvars, history
<1>2. /\ Len(contexts[t]) \in Nat \ {0}
      /\ h = contexts[t][Len(contexts[t])].hook
  BY StackFacts
<1>3. /\ k \in HookAt(clock) /\ k.slot = tracebuffer_index
      /\ k.step = h.step /\ k.kind = h.kind /\ k.func = h.func /\ k.errnum = h.errnum
      /\ k.time = h.time
  BY <1>1 DEF HookAt, TypeInv, BufferTypes
<1> HIDE DEF h, k
<1>4. PICK g : /\ NewHooks(t, g) /\ OneStep(h, g)
               /\ g.slot = tracebuffer_index /\ g.errnum = h.errnum /\ g.time = h.time
  BY <1>1, <1>3, AdvanceStack DEF OneStep
<1>5. /\ ~Waiting(h) /\ ~IsRearming(h) /\ ~IsFlushing(h) /\ (Saved(g) => Saved(h))
      /\ Filled(h) /\ ~IsFlushing(g)
      /\ h.step \notin {1, Disarming(h.kind)}
  <2> USE DEF OneStep, Saving, HookSlots, Filled, IsStoring, IsFlushing, Filling, Saved,
              Reading, Storing, Flushing, Waiting, IsRearming, Rearming, Disarming
  <2>1. /\ ~Waiting(h) /\ ~IsRearming(h) /\ ~IsFlushing(h) /\ Filled(h)
        /\ h.step \notin {1, Disarming(h.kind)}
    BY <1>1
  <2>2. ~IsFlushing(g) /\ (Saved(g) => Saved(h))
    BY <1>1, <1>4
  <2> QED
    BY <2>1, <2>2
<1>6. HookSlots(g)'
  <2>1. HookSlots(h)
    BY <1>2 DEF Slots
  <2> QED
    BY <1>1, <1>4, <1>5, <2>1 DEF HookSlots, OneStep
<1>7. Exclusive(t)'
  BY <1>1, <1>4, <1>5, ExclusiveStep DEF h
<1>8. ErrnoSaved(t)'
  BY <1>1, <1>2, <1>4, <1>5, ErrnoSavedKept DEF h, ErrnoSaved
<1>9. Slots(t)' /\ Room(t)' /\ Log' /\ TimesAscend'
  BY <1>1, <1>4, <1>5, <1>6, SlotsKept, RoomKept, LogKept DEF h
<1> QED
  BY <1>7, <1>8, <1>9

(* Prefixes, element by element.                                           *)
LEMMA PrefixFacts ==
  ASSUME NEW S, NEW r \in Seq(S), NEW s \in Seq(S)
  PROVE  /\ IsPrefix(r, r \o s) /\ IsPrefix(r, r)
         /\ IsPrefix(r, s) => \A n \in 0 .. Len(r) : IsPrefix(SubSeq(r, 1, n), s)
<1>1. Len(r) \in Nat /\ Len(s) \in Nat
  BY LenProperties
<1>2. \A q \in Seq(S) : /\ \A i \in 1 .. Len(q) : q[i] \in S
                        /\ \A n \in 0 .. Len(q) :
                             /\ SubSeq(q, 1, n) \in Seq(S) /\ Len(SubSeq(q, 1, n)) = n
                             /\ \A i \in 1 .. n : SubSeq(q, 1, n)[i] = q[i]
  <2> SUFFICES ASSUME NEW q \in Seq(S)
               PROVE  /\ \A i \in 1 .. Len(q) : q[i] \in S
                      /\ \A n \in 0 .. Len(q) :
                           /\ SubSeq(q, 1, n) \in Seq(S) /\ Len(SubSeq(q, 1, n)) = n
                           /\ \A i \in 1 .. n : SubSeq(q, 1, n)[i] = q[i]
    OBVIOUS
  <2>1. Len(q) \in Nat /\ \A i \in 1 .. Len(q) : q[i] \in S
    BY ElementOfSeq, LenProperties
  <2>2. ASSUME NEW n \in 0 .. Len(q)
        PROVE  /\ SubSeq(q, 1, n) \in Seq(S) /\ Len(SubSeq(q, 1, n)) = n
               /\ \A i \in 1 .. n : SubSeq(q, 1, n)[i] = q[i]
    <3>1. n \in Nat /\ 1 \in Int /\ \A i \in 1 .. n : q[i] \in S
      BY <2>1
    <3>2. /\ SubSeq(q, 1, n) \in Seq(S)
          /\ Len(SubSeq(q, 1, n)) = IF 1 <= n THEN n - 1 + 1 ELSE 0
          /\ \A i \in 1 .. n - 1 + 1 : SubSeq(q, 1, n)[i] = q[1 + i - 1]
      BY <3>1, SubSeqProperties
    <3> QED
      BY <3>1, <3>2
  <2> QED
    BY <2>1, <2>2
<1>3. /\ r \o s \in Seq(S) /\ Len(r \o s) = Len(r) + Len(s)
      /\ \A i \in 1 .. Len(r) : (r \o s)[i] = r[i]
  BY <1>1, ConcatProperties
<1>4. ASSUME NEW p \in Seq(S), NEW q \in Seq(S), Len(p) <= Len(q),
             \A i \in 1 .. Len(p) : p[i] = q[i]
      PROVE  IsPrefix(p, q)
  <2>1. Len(p) \in 0 .. Len(p) /\ Len(p) \in 0 .. Len(q)
    BY <1>4, LenProperties
  <2> QED
    BY <1>2, <1>4, <2>1, SeqEqual DEF IsPrefix
<1>5. IsPrefix(r, r \o s) /\ IsPrefix(r, r)
  <2>1. Len(r) <= Len(r \o s) /\ Len(r) <= Len(r)
    BY <1>1, <1>3
  <2>2. IsPrefix(r, r)
    BY <1>4, <2>1
  <2>3. IsPrefix(r, r \o s)
    <3> DEFINE q == r \o s
    <3>1. q \in Seq(S) /\ Len(r) <= Len(q) /\ \A i \in 1 .. Len(r) : r[i] = q[i]
      BY <1>3, <2>1
    <3> HIDE DEF q
    <3>2. IsPrefix(r, q)
      BY <1>4, <3>1
    <3> QED
      BY <3>2 DEF q
  <2> QED
    BY <2>2, <2>3
<1>6. ASSUME IsPrefix(r, s), NEW n \in 0 .. Len(r) PROVE IsPrefix(SubSeq(r, 1, n), s)
  <2>1. Len(r) <= Len(s) /\ SubSeq(r, 1, Len(r)) = SubSeq(s, 1, Len(r))
    BY <1>6 DEF IsPrefix
  <2>2. Len(r) \in 0 .. Len(r) /\ Len(r) \in 0 .. Len(s)
    BY <1>1, <2>1
  <2>3. \A i \in 1 .. Len(r) : r[i] = s[i]
    BY <1>2, <2>1, <2>2
  <2>4. /\ SubSeq(r, 1, n) \in Seq(S) /\ Len(SubSeq(r, 1, n)) = n
        /\ \A i \in 1 .. n : SubSeq(r, 1, n)[i] = s[i]
    BY <1>1, <1>2, <2>3
  <2> DEFINE p == SubSeq(r, 1, n)
  <2>5. p \in Seq(S) /\ Len(p) <= Len(s) /\ \A i \in 1 .. Len(p) : p[i] = s[i]
    BY <1>1, <2>1, <2>4
  <2> HIDE DEF p
  <2>6. IsPrefix(p, s)
    BY <1>4, <2>5
  <2> QED
    BY <2>6 DEF p
<1> QED
  BY <1>5, <1>6

LEMMA FunctionIsSeq ==
  ASSUME NEW S, NEW n \in Nat, NEW f \in [1 .. n -> S]
  PROVE  f \in Seq(S) /\ Len(f) = n
OBVIOUS

(* The log with a packet more in the buffer.                               *)
LEMMA StoreLog ==
  ASSUME TypeInv, Log, NEW p, NEW q \in PacketAt(clock),
         Store(tracebuffer_index, p), p = q,
         recorded' = Append(recorded, q), phase' = phase, phase = "profiling"
  PROVE  Log'
<1> DEFINE n == tracebuffer_index
<1>1. /\ n \in 0 .. BUFSIZE - 1 /\ n \in 0 .. n /\ n \in Nat
      /\ n' = n + 1
      /\ DOMAIN tracebuffer_buffer' = DOMAIN tracebuffer_buffer \cup {n}
      /\ \A x \in DOMAIN tracebuffer_buffer \cup {n} :
           tracebuffer_buffer'[x] = IF x = n THEN q ELSE tracebuffer_buffer[x]
      /\ packets' = packets /\ failed' = failed
      /\ BufferTypes
  BY BUFSIZEAssumption DEF TypeInv, BufferTypes, Store, filevars
<1>2. /\ Buffered(n) \in Seq(PacketAt(clock)) /\ Len(Buffered(n)) = n
      /\ \A k \in 1 .. n : Buffered(n)[k] = tracebuffer_buffer[k - 1]
      /\ packets \in Seq(PacketAt(clock)) /\ recorded \in Seq(PacketAt(clock))
  BY <1>1, BufferedFacts DEF TypeInv, BufferTypes, LogTypes
<1>3. Buffered(n)' = Append(Buffered(n), q)
  <2>1. /\ Buffered(n)' \in [1 .. n + 1 -> PacketAt(clock)]
        /\ \A k \in 1 .. n + 1 : Buffered(n)'[k] = IF k = n + 1 THEN q ELSE tracebuffer_buffer[k - 1]
    <3>1. \A k \in 1 .. n + 1 :
            /\ tracebuffer_buffer'[k - 1] = IF k = n + 1 THEN q ELSE tracebuffer_buffer[k - 1]
            /\ tracebuffer_buffer'[k - 1] \in PacketAt(clock)
      BY <1>1 DEF BufferTypes
    <3> QED
      BY <1>1, <3>1 DEF Buffered
  <2>2. Buffered(n)' \in Seq(PacketAt(clock)) /\ Len(Buffered(n)') = n + 1
    BY <1>1, <2>1, FunctionIsSeq
  <2>3. /\ Append(Buffered(n), q) \in Seq(PacketAt(clock))
        /\ Len(Append(Buffered(n), q)) = n + 1
        /\ \A k \in 1 .. n : Append(Buffered(n), q)[k] = tracebuffer_buffer[k - 1]
        /\ Append(Buffered(n), q)[n + 1] = q
    BY <1>2, AppendProperties
  <2>4. \A k \in 1 .. n + 1 : Buffered(n)'[k] = Append(Buffered(n), q)[k]
    BY <1>1, <2>1, <2>3
  <2> QED
    BY <2>2, <2>3, <2>4, SeqEqual
<1>4. packets \o Append(Buffered(n), q) = Append(packets \o Buffered(n), q)
  BY <1>2
<1>5. ~failed => /\ packets' \o Buffered(n)' = recorded'
                 /\ IsPrefix(packets', recorded')
  <2> SUFFICES ASSUME ~failed PROVE /\ packets' \o Buffered(n)' = recorded'
                                    /\ IsPrefix(packets', recorded')
    OBVIOUS
  <2>1. packets \o Buffered(n) = recorded
    BY DEF Log
  <2>2. packets \o Append(Buffered(n), q) = recorded'
    BY <1>4, <2>1
  <2> DEFINE new == Append(Buffered(n), q)
  <2>3. new \in Seq(PacketAt(clock)) /\ packets \in Seq(PacketAt(clock))
    BY <1>2, AppendProperties
  <2> HIDE DEF new
  <2>4. IsPrefix(packets, packets \o new)
    BY <2>3, PrefixFacts
  <2> QED
    BY <1>1, <1>3, <2>2, <2>4 DEF new
<1> QED
  BY <1>1, <1>5 DEF Log

LEMMA StoreTimes ==
  ASSUME TypeInv, TimesAscend, NEW q \in PacketAt(clock), recorded' = Append(recorded, q),
         \A k \in 1 .. Len(recorded) : recorded[k].time <= q.time
  PROVE  TimesAscend'
<1>1. recorded \in Seq(PacketAt(clock)) /\ Len(recorded) \in Nat
  BY LenProperties DEF TypeInv, LogTypes
<1>2. /\ Len(recorded') = Len(recorded) + 1
      /\ \A i \in 1 .. Len(recorded) : recorded'[i] = recorded[i]
      /\ recorded'[Len(recorded) + 1] = q
  BY <1>1, AppendProperties
<1>3. ASSUME NEW k \in 2 .. Len(recorded') PROVE recorded'[k - 1].time <= recorded'[k].time
  <2>1. CASE k \in 2 .. Len(recorded)
    <3>1. k \in 1 .. Len(recorded) /\ k - 1 \in 1 .. Len(recorded)
      BY <1>1, <2>1
    <3> QED
      BY <1>2, <2>1, <3>1 DEF TimesAscend
  <2>2. CASE k = Len(recorded) + 1
    <3>1. k - 1 = Len(recorded) /\ k - 1 \in 1 .. Len(recorded)
      BY <1>1, <1>3, <2>2
    <3> QED
      BY <1>2, <2>2, <3>1
  <2> QED
    BY <1>1, <1>2, <2>1, <2>2
<1> QED
  BY <1>3 DEF TimesAscend

LEMMA StoreInv ==
  ASSUME TypeInv, NEW t \in Threads, ThreadInv(t), StorePacket(t), Running
  PROVE  ThreadInv(t)'
<1> USE DEF ThreadInv
<1> DEFINE h == Hook(t)
           q == Packet(h.kind, h.func, h.time)
<1>1. /\ h \in HookAt(clock) /\ h # NoHook /\ h.step = Storing(h.kind) /\ clock \in Nat
      /\ Advance(t, h)
      /\ Store(h.slot, static_packet[h.kind])
      /\ recorded' = Append(recorded, q)
      /\ UNCHANGED <<phase, libgraprof_hooked, static_packet, errno, program_errno>>
  BY AtFacts DEF StorePacket, TypeInv, LogTypes, hookvars
<1>2. /\ Len(contexts[t]) \in Nat \ {0}
      /\ h = contexts[t][Len(contexts[t])].hook
  BY StackFacts
<1>3. q \in PacketAt(clock) /\ q.time = h.time
  BY <1>1 DEF Packet, PacketAt, HookAt
<1> HIDE DEF h, q
<1>4. PICK g : NewHooks(t, g) /\ OneStep(h, g) /\ g.errnum = h.errnum /\ g.slot = h.slot
  BY <1>1, AdvanceStack DEF OneStep
<1>5. /\ ~Waiting(h) /\ ~IsRearming(h) /\ ~IsFlushing(h) /\ (Saved(g) => Saved(h))
      /\ Filled(h) /\ IsStoring(h) /\ IsFlushing(g) /\ ~Filled(g) /\ ~IsStoring(g)
      /\ h.step \notin {1, Disarming(h.kind)}
  <2> USE DEF OneStep, Saving, HookSlots, Filled, IsStoring, IsFlushing, Filling, Saved,
              Reading, Storing, Flushing, Waiting, IsRearming, Rearming, Disarming
  <2>1. /\ ~Waiting(h) /\ ~IsRearming(h) /\ ~IsFlushing(h) /\ Filled(h) /\ IsStoring(h)
        /\ h.step \notin {1, Disarming(h.kind)}
    BY <1>1
  <2>2. IsFlushing(g) /\ ~Filled(g) /\ ~IsStoring(g) /\ (Saved(g) => Saved(h))
    BY <1>1, <1>4
  <2> QED
    BY <2>1, <2>2
<1>6. phase = "profiling"
  BY <1>5, NoneBelow DEF h, Running
<1>7. /\ h.slot = tracebuffer_index /\ static_packet[h.kind] = q
      /\ \A k \in 1 .. Len(recorded) : recorded[k].time <= q.time
  BY <1>2, <1>3, <1>5, SMTT(30) DEF Slots, HookSlots, q
<1>8. HookSlots(g)'
  BY <1>1, <1>4, <1>5 DEF HookSlots, Store
<1>9. Exclusive(t)'
  BY <1>1, <1>4, <1>5, ExclusiveStep DEF h
<1>10. ErrnoSaved(t)'
  BY <1>1, <1>2, <1>4, <1>5, ErrnoSavedKept, SMTT(30) DEF h, ErrnoSaved
<1>11. Slots(t)'
  BY <1>4, <1>5, <1>8, SlotsKept DEF h
<1>12. Room(t)'
  BY <1>1, <1>2, <1>4, <1>5, <1>6, SMTT(30) DEF Room, NewHooks
<1>13. Log' /\ TimesAscend'
  BY <1>1, <1>3, <1>6, <1>7, StoreLog, StoreTimes
<1> QED
  BY <1>9, <1>10, <1>11, <1>12, <1>13

LEMMA BeyondInv ==
  ASSUME TypeInv, NEW t \in Threads, ThreadInv(t), StoreBeyond(t), Running
  PROVE  ThreadInv(t)'
<1> USE DEF ThreadInv
<1> DEFINE h == Hook(t)
<1>1. /\ h \in HookAt(clock) /\ h # NoHook /\ h.step = Storing(h.kind)
      /\ h.slot >= BUFSIZE /\ phase' = "corrupt"
      /\ UNCHANGED <<packets, tracebuffer_buffer, tracebuffer_index, failed, contexts,
                     libgraprof_hooked, static_packet, recorded, errno, program_errno>>
  BY AtFacts DEF StoreBeyond, TypeInv, filevars, buffervars, hookvars, history
<1>2. /\ Len(contexts[t]) \in Nat \ {0}
      /\ h = contexts[t][Len(contexts[t])].hook
  BY StackFacts
<1> HIDE DEF h
<1>3. ~Waiting(h) /\ IsStoring(h) /\ ~IsFlushing(h)
  BY <1>1 DEF Waiting, IsStoring, IsFlushing, Storing, Flushing, Filling
<1>4. phase = "profiling"
  BY <1>3, NoneBelow DEF h, Running
<1>5. failed
  <2>1. h.slot = tracebuffer_index
    BY <1>2, <1>3 DEF Slots, HookSlots
  <2>2. \A i \in 1 .. Len(contexts[t]) : ~IsFlushing(contexts[t][i].hook)
    BY <1>2, <1>3, NoneBelow DEF h
  <2> QED
    BY <1>1, <1>4, <2>1, <2>2, BUFSIZEAssumption DEF Room, TypeInv, BufferTypes
<1>6. Exclusive(t)' /\ ErrnoSaved(t)' /\ Room(t)' /\ Log' /\ TimesAscend'
  BY <1>1, <1>4, <1>5 DEF Exclusive, ErrnoSaved, Room, Log, TimesAscend
<1>7. Slots(t)'
  BY <1>1 DEF Slots, HookSlots
<1> QED
  BY <1>6, <1>7

LEMMA NoFlushInv ==
  ASSUME TypeInv, NEW t \in Threads, ThreadInv(t), NoFlush(t)
  PROVE  ThreadInv(t)'
<1> USE DEF ThreadInv
<1> DEFINE h == Hook(t)
<1>1. /\ h \in HookAt(clock) /\ h # NoHook /\ h.step = Flushing(h.kind) /\ clock \in Nat
      /\ Advance(t, h)
      /\ {h.slot + 1, tracebuffer_index} # {BUFSIZE}
      /\ UNCHANGED <<packets, tracebuffer_buffer, tracebuffer_index, failed, phase,
                     libgraprof_hooked, static_packet, recorded, errno, program_errno>>
  BY AtFacts DEF NoFlush, Seen, TypeInv, LogTypes, filevars, buffervars, hookvars, history
<1>2. /\ Len(contexts[t]) \in Nat \ {0}
      /\ h = contexts[t][Len(contexts[t])].hook
  BY StackFacts
<1> HIDE DEF h
<1>3. PICK g : NewHooks(t, g) /\ OneStep(h, g) /\ g.errnum = h.errnum
  BY <1>1, AdvanceStack DEF OneStep, h
<1>4. /\ ~Waiting(h) /\ ~IsRearming(h) /\ IsFlushing(h) /\ (Saved(g) => Saved(h))
      /\ HookSlots(g)'
      /\ h.step \notin {1, Disarming(h.kind)}
  <2> USE DEF OneStep, Saving, HookSlots, Filled, IsStoring, IsFlushing, Filling, Saved,
              Reading, Storing, Flushing, Waiting, IsRearming, Rearming, Disarming
  <2>1. /\ ~Waiting(h) /\ ~IsRearming(h) /\ IsFlushing(h)
        /\ h.step \notin {1, Disarming(h.kind)}
    BY <1>1
  <2>2. HookSlots(g)' /\ (Saved(g) => Saved(h))
    BY <1>1, <1>3
  <2> QED
    BY <2>1, <2>2
<1>5. Exclusive(t)'
  BY <1>1, <1>3, <1>4, ExclusiveStep DEF h
<1>6. ErrnoSaved(t)'
  BY <1>1, <1>2, <1>3, <1>4, ErrnoSavedKept DEF h, ErrnoSaved
<1>7. Room(t)'
  <2>1. h.slot + 1 = tracebuffer_index
    BY <1>2, <1>4 DEF Slots, HookSlots
  <2>2. tracebuffer_index < BUFSIZE
    BY <1>1, <2>1, BUFSIZEAssumption DEF TypeInv, BufferTypes
  <2> QED
    BY <1>1, <2>2 DEF Room
<1>8. Slots(t)' /\ Log' /\ TimesAscend'
  BY <1>1, <1>3, <1>4, SlotsKept, LogKept DEF h
<1> QED
  BY <1>5, <1>6, <1>7, <1>8

(* The log once the buffer has been written, in part or whole.             *)
LEMMA FlushLog ==
  ASSUME TypeInv, Log, TimesAscend, phase = "profiling", phase' \in {"profiling", "closed"},
         recorded' = recorded,
         \/ FlushDone
         \/ \E n \in 0 .. BUFSIZE : FlushFailed(n)
         \/ tracebuffer_index = 0 /\ UNCHANGED <<filevars, failed, buffervars>>
  PROVE  Log' /\ TimesAscend'
<1>1. TimesAscend'
  BY DEF TimesAscend
<1>2. CASE \E n \in 0 .. BUFSIZE : FlushFailed(n)
  BY <1>1, <1>2 DEF FlushFailed, Log
<1>3. CASE FlushDone \/ (tracebuffer_index = 0 /\ UNCHANGED <<filevars, failed, buffervars>>)
  <2>1. tracebuffer_index \in 0 .. tracebuffer_index /\ BufferTypes
    BY BUFSIZEAssumption DEF TypeInv, BufferTypes
  <2>2. /\ packets \in Seq(PacketAt(clock)) /\ recorded \in Seq(PacketAt(clock))
        /\ Buffered(tracebuffer_index) \in Seq(PacketAt(clock))
        /\ Len(Buffered(tracebuffer_index)) = tracebuffer_index
    BY <2>1, BufferedFacts DEF TypeInv, BufferTypes, LogTypes
  <2>3. \A q \in Seq(PacketAt(clock)) : q \o <<>> = q
    BY ConcatEmptySeq
  <2>4. tracebuffer_index = 0 => Buffered(tracebuffer_index) = <<>>
    BY <2>2, EmptySeq
  <2>5. tracebuffer_index' = 0 /\ failed' = failed
    BY <1>3 DEF FlushDone, filevars, buffervars
  <2>6. packets' = packets \o Buffered(tracebuffer_index)
    BY <1>3, <2>2, <2>3, <2>4 DEF FlushDone, filevars
  <2>7. Buffered(tracebuffer_index)' = <<>>
    <3>1. Buffered(tracebuffer_index)' = [k \in 1 .. 0 |-> tracebuffer_buffer'[k - 1]]
      BY <2>5 DEF Buffered
    <3>2. [k \in 1 .. 0 |-> tracebuffer_buffer'[k - 1]] \in [1 .. 0 -> {}]
      OBVIOUS
    <3> QED
      BY <3>1, <3>2, FunctionIsSeq, EmptySeq
  <2>8. ~failed => packets' = recorded /\ packets' \o <<>> = recorded /\ IsPrefix(recorded, recorded)
    BY <2>2, <2>3, <2>6, PrefixFacts DEF Log
  <2> QED
    BY <1>1, <2>5, <2>7, <2>8 DEF Log
<1> QED
  BY <1>2, <1>3

LEMMA FlushInv ==
  ASSUME TypeInv, NEW t \in Threads, ThreadInv(t), Flush(t), Running
  PROVE  ThreadInv(t)'
<1> USE DEF ThreadInv
<1> DEFINE h == Hook(t)
<1>1. /\ h \in HookAt(clock) /\ h # NoHook /\ h.step = Flushing(h.kind) /\ clock \in Nat
      /\ Advance(t, h)
      /\ FlushDone \/ \E n \in 0 .. BUFSIZE : FlushFailed(n)
      /\ UNCHANGED <<phase, libgraprof_hooked, static_packet, recorded, program_errno>>
  BY AtFacts DEF Flush, TypeInv, LogTypes, hookvars, history
<1>2. /\ Len(contexts[t]) \in Nat \ {0}
      /\ h = contexts[t][Len(contexts[t])].hook
  BY StackFacts
<1> HIDE DEF h
<1>3. PICK g : NewHooks(t, g) /\ OneStep(h, g) /\ g.errnum = h.errnum
  BY <1>1, AdvanceStack DEF OneStep, h
<1>4. /\ ~Waiting(h) /\ (Saved(g) => Saved(h)) /\ IsRearming(g)
      /\ HookSlots(g)'
      /\ h.step \notin {1, Disarming(h.kind)}
  <2> USE DEF OneStep, Saving, HookSlots, Filled, IsStoring, IsFlushing, Filling, Saved,
              Reading, Storing, Flushing, Waiting, IsRearming, Rearming, Disarming
  <2>1. ~Waiting(h) /\ h.step \notin {1, Disarming(h.kind)}
    BY <1>1
  <2>2. HookSlots(g)' /\ (Saved(g) => Saved(h)) /\ IsRearming(g)
    BY <1>1, <1>3
  <2> QED
    BY <2>1, <2>2
<1>5. phase = "profiling"
  BY <1>4, NoneBelow DEF h, Running
<1>6. Exclusive(t)'
  BY <1>1, <1>3, <1>4, ExclusiveStep DEF h
<1>7. ErrnoSaved(t)'
  <2>1. \E i \in 1 .. Len(contexts'[t]) : IsRearming(contexts'[t][i].hook)
    BY <1>2, <1>3, <1>4 DEF NewHooks
  <2> QED
    BY <1>1, <1>2, <1>3, <1>4, <2>1 DEF ErrnoSaved, NewHooks
<1>8. Slots(t)'
  BY <1>3, <1>4, SlotsKept DEF h
<1>9. Room(t)'
  BY <1>1, <1>5, BUFSIZEAssumption DEF Room, FlushDone, FlushFailed
<1>10. Log' /\ TimesAscend'
  BY <1>1, <1>5, FlushLog
<1> QED
  BY <1>6, <1>7, <1>8, <1>9, <1>10

LEMMA RearmInv ==
  ASSUME TypeInv, NEW t \in Threads, ThreadInv(t), Rearm(t), Running
  PROVE  ThreadInv(t)'
<1> USE DEF ThreadInv
<1> DEFINE h == Hook(t)
<1>1. /\ h \in HookAt(clock) /\ h # NoHook /\ h.step = Rearming(h.kind)
      /\ SetHook(t, NoHook) /\ libgraprof_hooked' = TRUE
      /\ errno' = [errno EXCEPT ![t] = h.errnum]
      /\ UNCHANGED <<packets, tracebuffer_buffer, tracebuffer_index, failed, phase,
                     static_packet, recorded, program_errno>>
  BY AtFacts DEF Rearm, TypeInv, filevars, buffervars, history
<1>2. /\ Len(contexts[t]) \in Nat \ {0}
      /\ h = contexts[t][Len(contexts[t])].hook
  BY StackFacts
<1>3. NewHooks(t, NoHook)
  BY <1>1, SetHookStack
<1> HIDE DEF h
<1>4. ~Waiting(h) /\ Saved(h) /\ ~IsFlushing(h) /\ ~Recording(NoHook) /\ HookSlots(NoHook)'
  BY <1>1 DEF Waiting, Saved, Saving, IsFlushing, Rearming, Flushing, Filling, Recording,
     HookSlots, Filled, IsStoring
<1>5. phase = "profiling"
  BY <1>4, NoneBelow DEF h, Running
<1>6. Exclusive(t)'
  <2>1. \A i \in 1 .. Len(contexts[t]) : ~Recording(contexts'[t][i].hook)
    BY <1>2, <1>3, <1>4, NoneBelow DEF NewHooks, h
  <2>2. \A i \in 1 .. Len(contexts[t]) :
          contexts'[t][i].hook # NoHook /\ contexts'[t][i].hook.kind = "+" => i = 1
    BY <1>3 DEF NewHooks, Exclusive
  <2> QED
    BY <1>1, <1>3, <1>5, <2>1, <2>2 DEF NewHooks, Exclusive
<1>7. ErrnoSaved(t)'
  <2>1. errno'[t] = program_errno[t]
    BY <1>1, <1>2, <1>4 DEF ErrnoSaved, TypeInv, OtherTypes
  <2>2. \A i \in 1 .. Len(contexts[t]) :
          Saved(contexts'[t][i].hook) => contexts'[t][i].hook.errnum = program_errno[t]
    BY <1>3 DEF NewHooks, ErrnoSaved, Saved
  <2> QED
    BY <1>1, <1>3, <2>1, <2>2 DEF NewHooks, ErrnoSaved
<1>8. Slots(t)' /\ Room(t)' /\ Log' /\ TimesAscend'
  BY <1>1, <1>3, <1>4, SlotsKept, RoomKept, LogKept DEF h
<1> QED
  BY <1>6, <1>7, <1>8

-----------------------------------------------------------------------------
(* So do the program, its handlers, and what opens and closes the trace.   *)
LEMMA BeginInv ==
  ASSUME TypeInv, NEW t \in Threads, ThreadInv(t), NEW kind \in Kinds, NEW func, NEW calls,
         Begin(t, kind, func, calls), kind = "+" => ~Nested(t)
  PROVE  ThreadInv(t)'
<1> USE DEF ThreadInv
<1> DEFINE h == Hook(t)
           c == [calls |-> calls, hook |-> NewHook(kind, func)]
<1>1. /\ h = NoHook /\ SetTop(t, c)
      /\ UNCHANGED <<packets, tracebuffer_buffer, tracebuffer_index, failed, phase,
                     libgraprof_hooked, static_packet, recorded, errno, program_errno>>
  BY DEF Begin, Idle, filevars, buffervars, hookvars, history
<1>2. /\ Len(contexts[t]) \in Nat \ {0}
      /\ h = contexts[t][Len(contexts[t])].hook
  BY StackFacts
<1>3. PICK g : /\ NewHooks(t, g) /\ g.kind = kind /\ g.step = 1
  <2>1. c.hook = NewHook(kind, func) /\ c.hook.kind = kind /\ c.hook.step = 1
    BY DEF NewHook
  <2> HIDE DEF c
  <2>2. NewHooks(t, c.hook)
    BY <1>1, SetTopStack DEF NewHooks
  <2> QED
    BY <2>1, <2>2
<1> HIDE DEF h
<1>4. /\ ~IsFlushing(h) /\ ~IsRearming(h) /\ ~Recording(h)
      /\ Waiting(g) /\ ~Recording(g) /\ ~Saved(g) /\ HookSlots(g)'
  <2> USE DEF Recording, IsFlushing, IsRearming, Saved, HookSlots, Filled, IsStoring, Waiting,
              Disarming, Flushing, Rearming, Saving, Storing, Reading, Filling
  <2>1. ~IsFlushing(h) /\ ~IsRearming(h) /\ ~Recording(h)
    BY <1>1
  <2>2. Waiting(g) /\ ~Recording(g) /\ ~Saved(g) /\ HookSlots(g)'
    BY <1>3
  <2> QED
    BY <2>1, <2>2
<1>5. Exclusive(t)'
  <2>1. \A i \in 1 .. Len(contexts[t]) :
          contexts'[t][i].hook # NoHook /\ contexts'[t][i].hook.kind = "+" => i = 1
    BY <1>2, <1>3 DEF NewHooks, Exclusive, Nested
  <2>2. \A i \in 1 .. Len(contexts[t]) :
          LET k == contexts'[t][i].hook
          IN  /\ Recording(k) =>
                   /\ ~libgraprof_hooked
                   /\ phase \notin {"opening", "off"}
                   /\ \A j \in i + 1 .. Len(contexts[t]) : Waiting(contexts'[t][j].hook)
              /\ phase \in {"opening", "off"} => Waiting(k)
    BY <1>2, <1>3, <1>4 DEF NewHooks, Exclusive
  <2>3. phase = "profiling" /\ ~libgraprof_hooked =>
          \E i \in 1 .. Len(contexts[t]) : Recording(contexts'[t][i].hook)
    BY <1>2, <1>3, <1>4 DEF NewHooks, Exclusive
  <2> QED
    BY <1>1, <1>3, <2>1, <2>2, <2>3 DEF NewHooks, Exclusive
<1>6. ErrnoSaved(t)' /\ Slots(t)' /\ Room(t)' /\ Log' /\ TimesAscend'
  BY <1>1, <1>3, <1>4, ErrnoSavedKept, SlotsKept, RoomKept, LogKept DEF h
<1> QED
  BY <1>5, <1>6

LEMMA SignalInv ==
  ASSUME TypeInv, NEW t \in Threads, ThreadInv(t), Signal(t)
  PROVE  ThreadInv(t)'
<1> USE DEF ThreadInv
<1>1. UNCHANGED <<packets, tracebuffer_buffer, tracebuffer_index, failed, phase,
                  libgraprof_hooked, static_packet, recorded, errno, program_errno>>
  BY DEF Signal, filevars, buffervars, hookvars, history
<1>2. Len(contexts[t]) \in Nat \ {0}
  BY StackFacts
<1>3. /\ Len(contexts'[t]) = Len(contexts[t]) + 1
      /\ \A i \in 1 .. Len(contexts[t]) : contexts'[t][i] = contexts[t][i]
      /\ contexts'[t][Len(contexts[t]) + 1].hook = NoHook
  <2>1. contexts[t] \in Seq(ContextAt(clock)) /\ contexts'[t] = Append(contexts[t], NewContext)
    BY DEF Signal, TypeInv, ContextTypes, TypedContexts
  <2>2. NewContext \in ContextAt(clock) /\ NewContext.hook = NoHook
    BY EmptySeq DEF NewContext, ContextAt
  <2> QED
    BY <2>1, <2>2, AppendProperties
<1>4. /\ ~Recording(NoHook) /\ ~Saved(NoHook) /\ Waiting(NoHook) /\ HookSlots(NoHook)'
  BY DEF Recording, Saved, Waiting, HookSlots, Filled, IsStoring, IsFlushing
<1>5. \A i \in 1 .. Len(contexts'[t]) :
        contexts'[t][i].hook = IF i = Len(contexts[t]) + 1 THEN NoHook ELSE contexts[t][i].hook
  BY <1>2, <1>3
<1>6. Exclusive(t)'
  <2>1. \A i \in 1 .. Len(contexts[t]) : \A j \in i + 1 .. Len(contexts'[t]) :
          Recording(contexts[t][i].hook) => Waiting(contexts'[t][j].hook)
    BY <1>2, <1>3, <1>4, SMTT(30) DEF Exclusive
  <2>2. \A i \in 1 .. Len(contexts[t]) :
          LET h == contexts[t][i].hook
          IN  /\ Recording(h) => ~libgraprof_hooked /\ phase \notin {"opening", "off"}
              /\ phase \in {"opening", "off"} => Waiting(h)
              /\ h # NoHook /\ h.kind = "+" => i = 1
    BY DEF Exclusive
  <2>3. \A i \in 1 .. Len(contexts'[t]) :
          \/ i \in 1 .. Len(contexts[t]) /\ contexts'[t][i].hook = contexts[t][i].hook
          \/ contexts'[t][i].hook = NoHook
    BY <1>2, <1>3
  <2>4. \A i \in 1 .. Len(contexts'[t]) :
          LET h == contexts'[t][i].hook
          IN  /\ Recording(h) =>
                   /\ ~libgraprof_hooked
                   /\ phase \notin {"opening", "off"}
                   /\ \A j \in i + 1 .. Len(contexts'[t]) : Waiting(contexts'[t][j].hook)
              /\ phase \in {"opening", "off"} => Waiting(h)
              /\ h # NoHook /\ h.kind = "+" => i = 1
    BY <1>4, <2>1, <2>2, <2>3
  <2>5. phase = "profiling" /\ ~libgraprof_hooked =>
          \E i \in 1 .. Len(contexts'[t]) : Recording(contexts'[t][i].hook)
    BY <1>2, <1>3 DEF Exclusive
  <2> QED
    BY <1>1, <2>4, <2>5 DEF Exclusive
<1>7. ErrnoSaved(t)'
  BY <1>1, <1>2, <1>3, <1>4, <1>5, SMTT(30) DEF ErrnoSaved
<1>8. Slots(t)'
  <2>1. \A i \in 1 .. Len(contexts[t]) : HookSlots(contexts[t][i].hook)'
    BY <1>1, <1>3 DEF Slots, HookSlots
  <2> QED
    BY <1>2, <1>3, <1>4, <2>1 DEF Slots
<1>9. Room(t)' /\ Log' /\ TimesAscend'
  BY <1>1, <1>2, <1>3, LogKept DEF Room
<1> QED
  BY <1>6, <1>7, <1>8, <1>9

LEMMA ReturnFromHandlerInv ==
  ASSUME TypeInv, NEW t \in Threads, ThreadInv(t), ReturnFromHandler(t)
  PROVE  ThreadInv(t)'
<1> USE DEF ThreadInv
<1>1. UNCHANGED <<packets, tracebuffer_buffer, tracebuffer_index, failed, phase,
                  libgraprof_hooked, static_packet, recorded, errno, program_errno>>
  BY DEF ReturnFromHandler, filevars, buffervars, hookvars, history
<1>2. /\ Len(contexts[t]) \in Nat \ {0}
      /\ contexts[t][Len(contexts[t])].hook = NoHook
  BY StackFacts DEF ReturnFromHandler, Idle
<1>3. /\ Len(contexts'[t]) = Len(contexts[t]) - 1
      /\ \A i \in 1 .. Len(contexts[t]) - 1 : contexts'[t][i] = contexts[t][i]
  <2>1. /\ contexts[t] \in Seq(ContextAt(clock)) /\ contexts[t] # <<>>
        /\ contexts'[t] = Front(contexts[t])
    BY DEF ReturnFromHandler, TypeInv, ContextTypes, TypedContexts
  <2> QED
    BY <2>1, FrontFacts
<1>4. \A i \in 1 .. Len(contexts'[t]) :
        i \in 1 .. Len(contexts[t]) /\ contexts'[t][i].hook = contexts[t][i].hook
  BY <1>2, <1>3
<1>5. ~Recording(NoHook) /\ ~IsRearming(NoHook) /\ ~IsFlushing(NoHook)
  BY DEF Recording, IsRearming, IsFlushing
<1>6. Exclusive(t)'
  <2>1. ASSUME NEW i \in 1 .. Len(contexts'[t]), NEW j \in i + 1 .. Len(contexts'[t]),
               Recording(contexts[t][i].hook)
        PROVE  Waiting(contexts'[t][j].hook)
    <3>1. i \in 1 .. Len(contexts[t]) /\ j \in i + 1 .. Len(contexts[t])
      BY <1>2, <1>3
    <3>2. Waiting(contexts[t][j].hook)
      BY <2>1, <3>1 DEF Exclusive
    <3>3. j \in 1 .. Len(contexts'[t])
      BY <1>2, <1>3
    <3> QED
      BY <1>4, <3>2, <3>3
  <2>2. \A i \in 1 .. Len(contexts[t]) :
          LET h == contexts[t][i].hook
          IN  /\ Recording(h) => ~libgraprof_hooked /\ phase \notin {"opening", "off"}
              /\ phase \in {"opening", "off"} => Waiting(h)
              /\ h # NoHook /\ h.kind = "+" => i = 1
    BY DEF Exclusive
  <2>3. \A i \in 1 .. Len(contexts'[t]) :
          LET h == contexts'[t][i].hook
          IN  /\ Recording(h) =>
                   /\ ~libgraprof_hooked
                   /\ phase \notin {"opening", "off"}
                   /\ \A j \in i + 1 .. Len(contexts'[t]) : Waiting(contexts'[t][j].hook)
              /\ phase \in {"opening", "off"} => Waiting(h)
              /\ h # NoHook /\ h.kind = "+" => i = 1
    BY <1>4, <2>1, <2>2
  <2>4. phase = "profiling" /\ ~libgraprof_hooked =>
          \E i \in 1 .. Len(contexts'[t]) : Recording(contexts'[t][i].hook)
    BY <1>2, <1>3, <1>5 DEF Exclusive
  <2> QED
    BY <1>1, <2>3, <2>4 DEF Exclusive
<1>7. ErrnoSaved(t)'
  <2>1. (\E i \in 1 .. Len(contexts[t]) : IsRearming(contexts[t][i].hook)) =>
          \E i \in 1 .. Len(contexts'[t]) : IsRearming(contexts'[t][i].hook)
    BY <1>2, <1>3, <1>5
  <2> QED
    BY <1>1, <1>4, <2>1 DEF ErrnoSaved
<1>8. Slots(t)'
  <2>1. \A i \in 1 .. Len(contexts[t]) : HookSlots(contexts[t][i].hook)
    BY DEF Slots
  <2> QED
    BY <1>1, <1>4, <2>1 DEF Slots, HookSlots
<1>9. Room(t)' /\ Log' /\ TimesAscend'
  <2>1. (\E i \in 1 .. Len(contexts[t]) : IsFlushing(contexts[t][i].hook)) =>
          \E i \in 1 .. Len(contexts'[t]) : IsFlushing(contexts'[t][i].hook)
    BY <1>2, <1>3, <1>5
  <2> QED
    BY <1>1, <2>1, LogKept DEF Room
<1> QED
  BY <1>6, <1>7, <1>8, <1>9

LEMMA OpeningInv ==
  ASSUME TypeInv, NEW t \in Threads, ThreadInv(t), WriteHeaderEntry \/ FinishHeader \/ OpeningFails
  PROVE  ThreadInv(t)'
<1> USE DEF ThreadInv
<1>1. /\ phase = "opening" /\ phase' \in {"opening", "profiling", "off"}
      /\ libgraprof_hooked' = IF phase' = "profiling" THEN TRUE ELSE libgraprof_hooked
      /\ UNCHANGED <<packets, tracebuffer_buffer, tracebuffer_index, failed, contexts,
                     static_packet, recorded, errno, program_errno>>
  BY DEF WriteHeaderEntry, FinishHeader, OpeningFails, tracebuffer_append_header,
     tracebuffer_finish_header, filevars, buffervars, hookvars, history
<1>2. \A i \in 1 .. Len(contexts[t]) :
        /\ Waiting(contexts[t][i].hook) /\ ~Recording(contexts[t][i].hook)
  BY <1>1, StackFacts, HookOrder DEF Exclusive
<1>3. Exclusive(t)'
  BY <1>1, <1>2 DEF Exclusive
<1>4. ErrnoSaved(t)' /\ Room(t)' /\ TimesAscend'
  BY <1>1 DEF ErrnoSaved, Room, TimesAscend
<1>5. Slots(t)'
  BY <1>1 DEF Slots, HookSlots
<1>6. Log'
  <2>1. Buffered(tracebuffer_index)' = Buffered(tracebuffer_index)
    BY <1>1 DEF Buffered
  <2>2. phase \in {"opening", "off", "profiling", "unclosed"} /\ phase # "closed"
    BY <1>1
  <2> QED
    BY <1>1, <2>1, <2>2 DEF Log
<1> QED
  BY <1>3, <1>4, <1>5, <1>6

LEMMA ExitInv ==
  ASSUME TypeInv, NEW t \in Threads, ThreadInv(t), NEW u \in Threads, Exit(u)
  PROVE  ThreadInv(t)'
<1> USE DEF ThreadInv
<1>1. /\ phase = "profiling"
      /\ UNCHANGED <<contexts, static_packet, recorded, errno, program_errno>>
  BY DEF Exit, history
<1>2. CASE libgraprof_hooked /\ ~libgraprof_hooked' /\ phase' = "closed" /\ tracebuffer_close
  <2>1. \A i \in 1 .. Len(contexts[t]) :
          LET h == contexts[t][i].hook
          IN  ~Recording(h) /\ ~Filled(h) /\ ~IsStoring(h) /\ ~IsFlushing(h) /\ ~IsRearming(h)
    BY <1>2, StackFacts, HookOrder DEF Exclusive
  <2>2. Exclusive(t)' /\ ErrnoSaved(t)' /\ Room(t)'
    BY <1>1, <1>2, <2>1 DEF Exclusive, ErrnoSaved, Room
  <2>3. Slots(t)'
    BY <1>1, <2>1 DEF Slots, HookSlots
  <2>4. \/ FlushDone
        \/ \E n \in 0 .. BUFSIZE : FlushFailed(n)
        \/ tracebuffer_index = 0 /\ UNCHANGED <<filevars, failed, buffervars>>
    BY <1>2, BUFSIZEAssumption DEF tracebuffer_close, TypeInv, BufferTypes
  <2>5. Log' /\ TimesAscend'
    BY <1>1, <1>2, <2>4, FlushLog
  <2> QED
    BY <2>2, <2>3, <2>5
<1>3. CASE /\ ~libgraprof_hooked /\ phase' = "unclosed"
           /\ UNCHANGED <<filevars, failed, buffervars, libgraprof_hooked>>
  <2>1. UNCHANGED <<packets, tracebuffer_buffer, tracebuffer_index, failed, libgraprof_hooked>>
    BY <1>3 DEF filevars, buffervars
  <2>2. Exclusive(t)' /\ ErrnoSaved(t)' /\ Room(t)' /\ TimesAscend'
    BY <1>1, <1>3, <2>1 DEF Exclusive, ErrnoSaved, Room, TimesAscend
  <2>3. Slots(t)'
    BY <1>1, <2>1 DEF Slots, HookSlots
  <2>4. Log'
    <3>1. Buffered(tracebuffer_index)' = Buffered(tracebuffer_index)
      BY <2>1 DEF Buffered
    <3> QED
      BY <1>1, <1>3, <2>1, <3>1 DEF Log
  <2> QED
    BY <2>2, <2>3, <2>4
<1> QED
  BY <1>2, <1>3 DEF Exit

LEMMA KillInv ==
  ASSUME TypeInv, NEW t \in Threads, ThreadInv(t), Kill
  PROVE  ThreadInv(t)'
<1> USE DEF ThreadInv
<1>1. /\ phase \in {"opening", "profiling"} /\ phase' = "killed"
      /\ UNCHANGED <<tracebuffer_buffer, tracebuffer_index, failed, libgraprof_hooked, contexts,
                     static_packet, recorded, errno, program_errno>>
  BY DEF Kill, Truncate, buffervars, hookvars, history
<1>2. Exclusive(t)' /\ ErrnoSaved(t)' /\ Room(t)' /\ TimesAscend'
  BY <1>1 DEF Exclusive, ErrnoSaved, Room, TimesAscend
<1>3. Slots(t)'
  BY <1>1 DEF Slots, HookSlots
<1>4. ~failed => IsPrefix(packets', recorded)
  <2>1. packets \in Seq(PacketAt(clock)) /\ recorded \in Seq(PacketAt(clock))
    BY DEF TypeInv, BufferTypes, LogTypes
  <2>2. PICK n \in 0 .. Len(packets) : packets' = SubSeq(packets, 1, n)
    BY DEF Kill, Truncate
  <2> QED
    BY <2>1, <2>2, PrefixFacts DEF Log
<1>5. Log'
  BY <1>1, <1>4 DEF Log
<1> QED
  BY <1>2, <1>3, <1>5

LEMMA InitThreadInv ==
  ASSUME Init, NEW t \in Threads
  PROVE  ThreadInv(t)
<1> USE DEF Init, TracebufferInit
<1>1. Len(contexts[t]) = 1 /\ contexts[t][1].hook = NoHook
  BY DEF NewContext
<1>2. ~Recording(NoHook) /\ ~Saved(NoHook) /\ Waiting(NoHook) /\ HookSlots(NoHook)
  BY DEF Recording, Saved, Waiting, HookSlots, Filled, IsStoring, IsFlushing
<1>3. Exclusive(t) /\ ErrnoSaved(t) /\ Slots(t)
  BY <1>1, <1>2 DEF Exclusive, ErrnoSaved, Slots
<1>4. Room(t)
  BY BUFSIZEAssumption DEF Room
<1>5. Log
  <2>1. Buffered(tracebuffer_index) = <<>>
    <3>1. Buffered(0) \in [1 .. 0 -> {}]
      BY DEF Buffered
    <3> QED
      BY <3>1, FunctionIsSeq, EmptySeq
  <2>2. <<>> \in Seq({})
    BY EmptySeq
  <2>3. <<>> \o <<>> = <<>> /\ IsPrefix(<<>>, <<>>)
    BY <2>2, ConcatEmptySeq, PrefixFacts
  <2> QED
    BY <2>1, <2>3 DEF Log
<1>6. TimesAscend
  BY DEF TimesAscend
<1> QED
  BY <1>3, <1>4, <1>5, <1>6 DEF ThreadInv

(* With one thread every step is one of its own or one of the whole        *)
(* process.                                                                *)
LEMMA NextThreadInv ==
  ASSUME TypeInv, NEW t, Threads = {t}, ThreadInv(t), [Next]_vars
  PROVE  ThreadInv(t)'
<1>1. t \in Threads
  OBVIOUS
<1>2. CASE UNCHANGED vars
  <2>1. UNCHANGED <<packets, tracebuffer_buffer, tracebuffer_index, failed, phase, contexts,
                    libgraprof_hooked, static_packet, recorded, errno, program_errno>>
    BY <1>2 DEF vars
  <2>2. Exclusive(t)' /\ ErrnoSaved(t)' /\ Room(t)'
    BY <2>1 DEF ThreadInv, Exclusive, ErrnoSaved, Room
  <2>3. Slots(t)'
    BY <2>1 DEF ThreadInv, Slots, HookSlots
  <2>4. Log' /\ TimesAscend'
    BY <2>1, LogKept DEF ThreadInv
  <2> QED
    BY <2>2, <2>3, <2>4 DEF ThreadInv
<1>3. CASE WriteHeaderEntry \/ FinishHeader \/ OpeningFails
  BY <1>1, <1>3, OpeningInv
<1>4. CASE Kill
  BY <1>1, <1>4, KillInv
<1>5. CASE HookStep(t)
  BY <1>1, <1>5, CheckInv, DisarmInv, RealInv, SaveInv, FillInv, ReadInv, StoreInv, BeyondInv,
     NoFlushInv, FlushInv, RearmInv DEF HookStep
<1>6. CASE Signal(t) \/ ReturnFromHandler(t) \/ Exit(t)
  BY <1>1, <1>6, SignalInv, ReturnFromHandlerInv, ExitInv
<1>7. CASE ReturnFromFunction(t) \/ CallAllocator(t) \/ \E f \in Functions : CallFunction(t, f)
  <2>1. {"e", "x", "+"} \subseteq Kinds
    BY DEF Kinds
  <2>2. CASE ReturnFromFunction(t)
    BY <1>1, <2>1, <2>2, BeginInv DEF ReturnFromFunction
  <2>3. CASE CallAllocator(t)
    BY <1>1, <2>1, <2>3, BeginInv DEF CallAllocator
  <2>4. CASE \E f \in Functions : CallFunction(t, f)
    BY <1>1, <2>1, <2>4, BeginInv DEF CallFunction
  <2> QED
    BY <1>7, <2>2, <2>3, <2>4
<1> QED
  BY <1>2, <1>3, <1>4, <1>5, <1>6, <1>7 DEF Next

(* The invariant of one thread, from which its theorems below follow.      *)
THEOREM SpecThreadInv ==
  ASSUME NEW t, Threads = {t}
  PROVE  Spec => []ThreadInv(t)
<1>1. Init => ThreadInv(t)
  BY InitThreadInv
<1>2. TypeInv /\ ThreadInv(t) /\ [Next]_vars => ThreadInv(t)'
  BY NextThreadInv
<1> QED
  BY <1>1, <1>2, SpecTypes, PTL DEF Spec

(* Of a program with one thread, whatever handlers interrupt its hooks, no *)
(* packet is lost, doubled, mixed up with another or out of order as long  *)
(* as no fwrite fails, and a normal exit leaves all of them in the file.   *)
THEOREM SpecNothingLost ==
  ASSUME NEW t, Threads = {t}
  PROVE  Spec => []NothingLost
<1>1. ThreadInv(t) => NothingLost
  BY DEF ThreadInv, Log, NothingLost
<1> QED
  BY <1>1, SpecThreadInv, PTL

(* The packets of such a program carry their times in ascending order.     *)
THEOREM SpecTimesAscend ==
  ASSUME NEW t, Threads = {t}
  PROVE  Spec => []TimesAscend
<1>1. ThreadInv(t) => TimesAscend
  BY DEF ThreadInv
<1> QED
  BY <1>1, SpecThreadInv, PTL

(* It sees between its hooks the errno that its own calls have left.       *)
THEOREM SpecErrnoKept ==
  ASSUME NEW t, Threads = {t}
  PROVE  Spec => []ErrnoKept
<1>1. ThreadInv(t) => ErrnoKept
  BY DEF ThreadInv, ErrnoSaved, IsRearming, ErrnoKept
<1> QED
  BY <1>1, SpecThreadInv, PTL

(* Its trace is left unclosed only by a handler that calls exit in the     *)
(* middle of a hook.                                                       *)
THEOREM SpecExitCloses ==
  ASSUME NEW t, Threads = {t}
  PROVE  Spec => []ExitCloses
<1> DEFINE Unclosed == phase = "unclosed" =>
                         \E i \in 1 .. Len(contexts[t]) : Recording(contexts[t][i].hook)
<1>1. Init => Unclosed
  BY DEF Init
<1>2. ThreadInv(t) /\ Unclosed /\ [Next]_vars => Unclosed'
  <2> SUFFICES ASSUME ThreadInv(t), Unclosed, [Next]_vars PROVE Unclosed'
    OBVIOUS
  <2>1. CASE phase' = phase /\ contexts' = contexts
    BY <2>1
  <2>2. CASE phase' # "unclosed"
    BY <2>2
  <2>3. CASE Exit(t)
    BY <2>3 DEF Exit, ThreadInv, Exclusive
  <2>4. CASE Next /\ ~Exit(t)
    <3>1. phase = "unclosed" => FALSE
      BY <2>4 DEF Next, WriteHeaderEntry, FinishHeader, OpeningFails, Kill, HookStep, Running,
         Signal, ReturnFromHandler, ReturnFromFunction, CallAllocator, CallFunction, Begin
    <3>2. phase' # "unclosed"
      BY <2>4, <3>1 DEF Next, WriteHeaderEntry, FinishHeader, OpeningFails, Kill, HookStep,
         Signal, ReturnFromHandler, ReturnFromFunction, CallAllocator, CallFunction, Begin,
         Check, Disarm, RealCall, SaveErrno, Fill, ReadIndex, StorePacket, StoreBeyond, NoFlush,
         Flush, Rearm
    <3> QED
      BY <3>2
  <2> QED
    BY <2>1, <2>2, <2>3, <2>4 DEF vars
<1>3. Unclosed => ExitCloses
  BY DEF ExitCloses, Recording
<1> QED
  BY <1>1, <1>2, <1>3, SpecThreadInv, PTL DEF Spec

(* It writes a packet past the end of the buffer only after an fwrite has  *)
(* failed.                                                                 *)
THEOREM SpecOverrunOnlyAfterFailure ==
  ASSUME NEW t, Threads = {t}
  PROVE  Spec => []OverrunOnlyAfterFailure
<1>1. ThreadInv(t) => OverrunOnlyAfterFailure
  BY DEF ThreadInv, Room, OverrunOnlyAfterFailure, NoOverrun
<1> QED
  BY <1>1, SpecThreadInv, PTL

-----------------------------------------------------------------------------
(* The stack of open functions, packet by packet.                          *)
Opened(stack, p) ==
  CASE p.kind = "e" -> Append(stack, p.func)
    [] p.kind = "x" -> IF stack = <<>> THEN <<>> ELSE Front(stack)
    [] OTHER        -> stack

IsOpen(open, log, n) ==
  open = [k \in 0 .. n |-> IF k = 0 THEN <<>> ELSE Opened(open[k - 1], log[k])]

LEMMA OpenExists ==
  ASSUME NEW log
  PROVE  \A n \in Nat : \E open : IsOpen(open, log, n)
<1> DEFINE S == {n \in Nat : \E open : IsOpen(open, log, n)}
<1>1. 0 \in S
  <2> DEFINE open == [k \in 0 .. 0 |-> <<>>]
  <2>1. open = [k \in 0 .. 0 |-> IF k = 0 THEN <<>> ELSE Opened(open[k - 1], log[k])]
    OBVIOUS
  <2> HIDE DEF open
  <2> QED
    BY <2>1 DEF IsOpen
<1>2. ASSUME NEW n \in Nat, n \in S PROVE n + 1 \in S
  <2>1. PICK old : IsOpen(old, log, n)
    BY <1>2
  <2>2. \A k \in 0 .. n : old[k] = IF k = 0 THEN <<>> ELSE Opened(old[k - 1], log[k])
    BY <2>1 DEF IsOpen
  <2> DEFINE open == [k \in 0 .. n + 1 |-> IF k = n + 1 THEN Opened(old[n], log[n + 1]) ELSE old[k]]
             item(k) == IF k = 0 THEN <<>> ELSE Opened(open[k - 1], log[k])
  <2>3. ASSUME NEW k \in 0 .. n + 1 PROVE open[k] = item(k)
    <3>1. CASE k = n + 1
      <4>1. k - 1 = n /\ k # 0 /\ n \in 0 .. n + 1 /\ n # n + 1
        BY <3>1
      <4> QED
        BY <3>1, <4>1
    <3>2. CASE k \in 0 .. n
      <4>1. k # n + 1 /\ (k # 0 => k - 1 \in 0 .. n + 1 /\ k - 1 # n + 1)
        BY <3>2
      <4> QED
        BY <2>2, <3>2, <4>1
    <3> QED
      BY <3>1, <3>2
  <2>4. open = [k \in 0 .. n + 1 |-> open[k]]
    OBVIOUS
  <2> HIDE DEF open
  <2>5. open = [k \in 0 .. n + 1 |-> item(k)]
    BY <2>3, <2>4
  <2> QED
    BY <2>5 DEF IsOpen
<1> HIDE DEF S
<1>3. Nat \subseteq S
  BY <1>1, <1>2, SetInduction
<1> QED
  BY <1>3 DEF S

LEMMA OpenEquations ==
  ASSUME NEW log, Len(log) \in Nat
  PROVE  /\ OpenAfter(log)[0] = <<>>
         /\ \A k \in 1 .. Len(log) : OpenAfter(log)[k] = Opened(OpenAfter(log)[k - 1], log[k])
<1> DEFINE open == OpenAfter(log)
<1>1. open = CHOOSE f : IsOpen(f, log, Len(log))
  BY DEF OpenAfter, IsOpen, Opened
<1>2. IsOpen(open, log, Len(log))
  BY <1>1, OpenExists
<1> HIDE DEF open
<1>3. \A k \in 0 .. Len(log) : open[k] = IF k = 0 THEN <<>> ELSE Opened(open[k - 1], log[k])
  BY <1>2 DEF IsOpen
<1> QED
  BY <1>3 DEF open

LEMMA OpenAppend ==
  ASSUME NEW S, NEW log \in Seq(S), NEW p \in S
  PROVE  LET new == Append(log, p)
         IN  /\ \A k \in 0 .. Len(log) : OpenAfter(new)[k] = OpenAfter(log)[k]
             /\ OpenAfter(new)[Len(log) + 1] = Opened(OpenAfter(log)[Len(log)], p)
<1> DEFINE new == Append(log, p)
<1>1. /\ Len(log) \in Nat /\ Len(new) = Len(log) + 1 /\ Len(new) \in Nat
      /\ \A i \in 1 .. Len(log) : new[i] = log[i]
      /\ new[Len(log) + 1] = p
  BY AppendProperties, LenProperties
<1> HIDE DEF new
<1>2. /\ OpenAfter(log)[0] = <<>> /\ OpenAfter(new)[0] = <<>>
      /\ \A k \in 1 .. Len(log) :
           OpenAfter(log)[k] = Opened(OpenAfter(log)[k - 1], log[k])
      /\ \A k \in 1 .. Len(log) + 1 :
           OpenAfter(new)[k] = Opened(OpenAfter(new)[k - 1], new[k])
  BY <1>1, OpenEquations
<1> DEFINE T == {k \in Nat : k <= Len(log) => OpenAfter(new)[k] = OpenAfter(log)[k]}
<1>3. 0 \in T
  BY <1>2
<1>4. ASSUME NEW k \in Nat, k \in T PROVE k + 1 \in T
  <2> SUFFICES ASSUME k + 1 <= Len(log)
               PROVE  OpenAfter(new)[k + 1] = OpenAfter(log)[k + 1]
    OBVIOUS
  <2>1. /\ k <= Len(log) /\ k + 1 \in 1 .. Len(log) /\ k + 1 \in 1 .. Len(log) + 1
        /\ (k + 1) - 1 = k
    BY <1>1
  <2>2. OpenAfter(new)[k] = OpenAfter(log)[k]
    BY <1>4, <2>1
  <2> QED
    BY <1>1, <1>2, <2>1, <2>2
<1> HIDE DEF T
<1>5. Nat \subseteq T
  BY <1>3, <1>4, SetInduction
<1>6. \A k \in 0 .. Len(log) : OpenAfter(new)[k] = OpenAfter(log)[k]
  BY <1>5 DEF T
<1>7. OpenAfter(new)[Len(log) + 1] = Opened(OpenAfter(log)[Len(log)], p)
  <2>1. /\ Len(log) + 1 \in 1 .. Len(log) + 1 /\ (Len(log) + 1) - 1 = Len(log)
        /\ Len(log) \in 0 .. Len(log)
    BY <1>1
  <2> QED
    BY <1>1, <1>2, <1>6, <2>1
<1> QED
  BY <1>6, <1>7 DEF new

LEMMA OpenTypes ==
  ASSUME NEW time, NEW log \in Seq(PacketAt(time)), NEW k \in 0 .. Len(log)
  PROVE  OpenAfter(log)[k] \in Seq(Functions \cup {NoFunction})
<1> DEFINE F == Functions \cup {NoFunction}
           T == {n \in Nat : n <= Len(log) => OpenAfter(log)[n] \in Seq(F)}
<1>1. Len(log) \in Nat /\ \A i \in 1 .. Len(log) : log[i] \in PacketAt(time)
  BY ElementOfSeq, LenProperties
<1>2. 0 \in T
  BY <1>1, OpenEquations, EmptySeq
<1>3. ASSUME NEW n \in Nat, n \in T PROVE n + 1 \in T
  <2> SUFFICES ASSUME n + 1 <= Len(log) PROVE OpenAfter(log)[n + 1] \in Seq(F)
    OBVIOUS
  <2>1. n <= Len(log) /\ n + 1 \in 1 .. Len(log) /\ (n + 1) - 1 = n
    BY <1>1
  <2>2. /\ OpenAfter(log)[n] \in Seq(F)
        /\ OpenAfter(log)[n + 1] = Opened(OpenAfter(log)[n], log[n + 1])
        /\ log[n + 1].func \in F
    BY <1>1, <1>3, <2>1, OpenEquations DEF PacketAt
  <2> DEFINE old == OpenAfter(log)[n]
             q   == log[n + 1]
  <2> HIDE DEF old, q
  <2>3. old \in Seq(F) /\ q.func \in F
    BY <2>2 DEF old, q
  <2> HIDE DEF F
  <2>4. Append(old, q.func) \in Seq(F) /\ <<>> \in Seq(F)
    BY <2>3, AppendProperties, EmptySeq
  <2>5. old # <<>> => Front(old) \in Seq(F)
    BY <2>3, FrontFacts
  <2>6. Opened(old, q) \in Seq(F)
    BY <2>3, <2>4, <2>5 DEF Opened
  <2> QED
    BY <2>2, <2>6 DEF old, q
<1> HIDE DEF T
<1>4. Nat \subseteq T
  BY <1>2, <1>3, SetInduction
<1> QED
  BY <1>1, <1>4 DEF T

-----------------------------------------------------------------------------
(* A hook that is to store its packet yet.                                 *)
Pending(h) == h # NoHook /\ h.step <= Storing(h.kind)

(* The calls of a context whose entry, and not whose exit, is in the trace *)
(* if the context records at all.                                          *)
Entered(calls, h) ==
  CASE Pending(h) /\ h.kind = "e" -> Front(calls)
    [] Pending(h) /\ h.kind = "x" -> Append(calls, h.func)
    [] OTHER                      -> calls

(* The functions stand in the stack from one place to another.             *)
Segment(entered, from, to, open) ==
  /\ to = from + Len(entered)
  /\ \A j \in 1 .. Len(entered) : open[from + j] = entered[j]

(* The open functions are those of the first m contexts, one context on    *)
(* top of the other; base tells where the functions of each one end.       *)
Stacked(cs, m, base, open) ==
  /\ base \in [0 .. m -> Nat]
  /\ base[0] = 0 /\ base[m] = Len(open)
  /\ \A i \in 0 .. m : \A j \in i .. m : base[i] <= base[j]
  /\ \A i \in 1 .. m :
       Segment(Entered(cs[i].calls, cs[i].hook), base[i - 1], base[i], open)

(* The contexts above the one that records are not in the trace.           *)
RecordedUpTo(cs, m) ==
  /\ m \in 1 .. Len(cs)
  /\ \A i \in 1 .. Len(cs) : Recording(cs[i].hook) => i = m
  /\ m < Len(cs) => Recording(cs[m].hook)

OpenNow == OpenAfter(recorded)[Len(recorded)]

Entries(t) ==
  \A i \in 1 .. Len(contexts[t]) :
    LET c == contexts[t][i]
    IN  Pending(c.hook) /\ c.hook.kind = "e" => c.calls # <<>> /\ Last(c.calls) = c.hook.func

Nesting(t) ==
  /\ phase = "opening" => contexts[t] = <<NewContext>>
  /\ phase = "profiling" =>
       \E m \in Nat : /\ RecordedUpTo(contexts[t], m)
                     /\ \E base \in [0 .. m -> Nat] : Stacked(contexts[t], m, base, OpenNow)

NestInv(t) == Entries(t) /\ Nesting(t) /\ WellNested

-----------------------------------------------------------------------------
(* A step that gives the stack another top and stores nothing.             *)
NewTop(t, calls, h) ==
  /\ NewHooks(t, h)
  /\ \A i \in 1 .. Len(contexts[t]) :
       contexts'[t][i].calls = IF i = Len(contexts[t]) THEN calls ELSE contexts[t][i].calls

LEMMA NestTop ==
  ASSUME TypeInv, NEW t \in Threads, Exclusive(t), Nesting(t), phase # "opening",
         NEW calls, NEW h, NewTop(t, calls, h), UNCHANGED <<phase, recorded>>,
         Waiting(Hook(t)) => ~Recording(h),
         \/ Entered(calls, h) = Entered(Top(t).calls, Hook(t))
         \/ Waiting(Hook(t)) /\ ~libgraprof_hooked
  PROVE  Nesting(t)'
<1> SUFFICES ASSUME phase = "profiling" PROVE Nesting(t)'
  BY DEF Nesting
<1> DEFINE n == Len(contexts[t])
<1>1. /\ n \in Nat \ {0}
      /\ Top(t) = contexts[t][n] /\ Hook(t) = contexts[t][n].hook
      /\ \A i \in 1 .. n :
           contexts[t][i].hook = NoHook \/ contexts[t][i].hook \in HookAt(clock)
  BY StackFacts
<1>2. PICK m \in Nat : /\ RecordedUpTo(contexts[t], m)
                      /\ \E base \in [0 .. m -> Nat] : Stacked(contexts[t], m, base, OpenNow)
  BY DEF Nesting
<1>3. PICK base \in [0 .. m -> Nat] : Stacked(contexts[t], m, base, OpenNow)
  BY <1>2
<1>4. OpenNow' = OpenNow
  BY DEF OpenNow
<1>5. m < n => Waiting(Hook(t))
  <2> SUFFICES ASSUME m < n PROVE Waiting(Hook(t))
    OBVIOUS
  <2>1. m \in 1 .. n /\ Recording(contexts[t][m].hook) /\ n \in m + 1 .. n
    BY <1>1, <1>2 DEF RecordedUpTo
  <2> QED
    BY <1>1, <2>1 DEF Exclusive
<1>6. Waiting(Hook(t)) /\ ~libgraprof_hooked => m < n
  <2> SUFFICES ASSUME Waiting(Hook(t)), ~libgraprof_hooked PROVE m < n
    OBVIOUS
  <2>1. ~Recording(Hook(t))
    BY <1>1, HookOrder
  <2>2. PICK i \in 1 .. n : Recording(contexts[t][i].hook)
    BY DEF Exclusive
  <2> QED
    BY <1>1, <1>2, <2>1, <2>2 DEF RecordedUpTo
<1>7. RecordedUpTo(contexts[t], m)'
  <2>1. \A i \in 1 .. n : Recording(contexts'[t][i].hook) => i = m
    BY <1>1, <1>2, <1>5 DEF RecordedUpTo, NewTop, NewHooks
  <2>2. m \in 1 .. n /\ (m < n => Recording(contexts'[t][m].hook))
    BY <1>1, <1>2 DEF RecordedUpTo, NewTop, NewHooks
  <2> QED
    BY <2>1, <2>2 DEF RecordedUpTo, NewTop, NewHooks
<1>8. \A i \in 1 .. m : Entered(contexts'[t][i].calls, contexts'[t][i].hook)
                      = Entered(contexts[t][i].calls, contexts[t][i].hook)
  <2>1. m \in 1 .. n
    BY <1>2 DEF RecordedUpTo
  <2>2. ASSUME NEW i \in 1 .. m, i = n
        PROVE  Entered(contexts'[t][i].calls, contexts'[t][i].hook)
             = Entered(contexts[t][i].calls, contexts[t][i].hook)
    <3>1. m = n
      BY <1>1, <2>1, <2>2
    <3> QED
      BY <1>1, <1>6, <2>2, <3>1 DEF NewTop, NewHooks
  <2>3. ASSUME NEW i \in 1 .. m, i # n
        PROVE  Entered(contexts'[t][i].calls, contexts'[t][i].hook)
             = Entered(contexts[t][i].calls, contexts[t][i].hook)
    <3>1. i \in 1 .. n
      BY <1>1, <2>1
    <3>2. /\ contexts'[t][i].calls = contexts[t][i].calls
          /\ contexts'[t][i].hook = contexts[t][i].hook
      BY <2>3, <3>1 DEF NewTop, NewHooks
    <3> QED
      BY <3>2
  <2> QED
    BY <2>2, <2>3
<1>9. Stacked(contexts'[t], m, base, OpenNow)
  BY <1>3, <1>8 DEF Stacked
<1> QED
  BY <1>4, <1>7, <1>9 DEF Nesting

LEMMA EntriesTop ==
  ASSUME TypeInv, NEW t \in Threads, Entries(t),
         NEW calls, NEW h, NewTop(t, calls, h),
         Pending(h) /\ h.kind = "e" => calls # <<>> /\ Last(calls) = h.func
  PROVE  Entries(t)'
BY StackFacts DEF Entries, NewTop, NewHooks

(* The statements of a hook that store nothing.                            *)
Quiet(t) ==
  \/ Check(t) \/ Disarm(t) \/ RealCall(t) \/ SaveErrno(t) \/ Fill(t) \/ ReadIndex(t)
  \/ NoFlush(t) \/ Flush(t) \/ Rearm(t)

LEMMA QuietStep ==
  ASSUME TypeInv, NEW t \in Threads, Exclusive(t), Quiet(t)
  PROVE  /\ UNCHANGED <<phase, recorded>>
         /\ Hook(t) \in HookAt(clock) /\ Hook(t) # NoHook
         /\ \E g : /\ NewTop(t, Top(t).calls, g)
                  /\ \/ OneStep(Hook(t), g) /\ Hook(t).step # Storing(Hook(t).kind)
                     \/ g = NoHook /\ Hook(t).step = 1 /\ ~libgraprof_hooked
                     \/ g = NoHook /\ Hook(t).step = Rearming(Hook(t).kind)
<1> DEFINE h == Hook(t)
<1>1. \A s : At(t, s) =>
        /\ h \in HookAt(clock) /\ h # NoHook
        /\ s = "check"  => h.step = 1
        /\ s = "disarm" => h.step = Disarming(h.kind)
        /\ s = "real"   => h.kind = "+" /\ h.step = 3
        /\ s = "save"   => h.step = Saving(h.kind)
        /\ s = "fill"   => h.step = Filling(h.kind)
        /\ s = "read"   => h.step = Reading(h.kind)
        /\ s = "flush"  => h.step = Flushing(h.kind)
        /\ s = "rearm"  => h.step = Rearming(h.kind)
  BY AtFacts DEF TypeInv
<1>2. /\ Len(contexts[t]) \in Nat \ {0} /\ Top(t) = contexts[t][Len(contexts[t])]
      /\ clock \in Nat /\ errno[t] \in {"none", "ENOMEM", "EIO"}
      /\ tracebuffer_index \in 0 .. BUFSIZE
  BY StackFacts DEF TypeInv, LogTypes, OtherTypes, BufferTypes
<1>3. UNCHANGED <<phase, recorded>>
  BY DEF Quiet, Check, Disarm, RealCall, SaveErrno, Fill, ReadIndex, NoFlush, Flush, Rearm, history
<1>4. \A g : NewHooks(t, g) /\ (\A i \in 1 .. Len(contexts[t]) :
                                 contexts'[t][i].calls = contexts[t][i].calls)
           => NewTop(t, Top(t).calls, g)
  BY <1>2 DEF NewTop
<1> HIDE DEF h
<1>5. ASSUME NEW time \in Nat, NEW k \in HookAt(time), Advance(t, k), h # NoHook,
             k.step = h.step, k.kind = h.kind, k.func = h.func
      PROVE  \E g : NewTop(t, Top(t).calls, g) /\ OneStep(h, g)
  <2>1. PICK g : /\ NewHooks(t, g)
                 /\ \A i \in 1 .. Len(contexts[t]) : contexts'[t][i].calls = contexts[t][i].calls
                 /\ g # NoHook /\ g.step = k.step + 1 /\ g.kind = k.kind /\ g.func = k.func
    BY <1>5, AdvanceStack
  <2> QED
    BY <1>4, <1>5, <2>1 DEF OneStep
<1>6. SetHook(t, NoHook) => NewTop(t, Top(t).calls, NoHook)
  BY <1>4, SetHookStack
<1>7. CASE Check(t)
  <2>1. h \in HookAt(clock) /\ h # NoHook /\ h.step = 1
    BY <1>1, <1>7 DEF Check
  <2>2. \/ Advance(t, h)
        \/ SetHook(t, NoHook) /\ ~libgraprof_hooked
    BY <1>7 DEF Check, h
  <2>3. 1 # Storing(h.kind)
    BY DEF Storing, Filling
  <2> QED
    BY <1>2, <1>3, <1>5, <1>6, <2>1, <2>2, <2>3 DEF h
<1>8. CASE Disarm(t) \/ RealCall(t) \/ NoFlush(t) \/ Flush(t)
  <2>1. h \in HookAt(clock) /\ h # NoHook /\ h.step # Storing(h.kind)
    BY <1>1, <1>8 DEF Disarm, RealCall, NoFlush, Flush, Disarming, Storing, Flushing, Filling
  <2>2. Advance(t, h)
    BY <1>8, AllocatorAlone DEF Disarm, RealCall, NoFlush, Flush, h
  <2> QED
    BY <1>2, <1>3, <1>5, <2>1, <2>2 DEF h
<1>9. CASE SaveErrno(t)
  <2> DEFINE k == [h EXCEPT !.errnum = errno[t]]
  <2>1. h \in HookAt(clock) /\ h # NoHook /\ h.step # Storing(h.kind)
    BY <1>1, <1>9 DEF SaveErrno, Saving, Storing, Filling
  <2>2. Advance(t, k)
    BY <1>9 DEF SaveErrno, h
  <2>3. k \in HookAt(clock) /\ k.step = h.step /\ k.kind = h.kind /\ k.func = h.func
    BY <1>2, <2>1 DEF HookAt
  <2> HIDE DEF k
  <2> QED
    BY <1>2, <1>3, <1>5, <2>1, <2>2, <2>3 DEF h
<1>10. CASE Fill(t)
  <2> DEFINE k == [h EXCEPT !.time = clock']
  <2>1. /\ h \in HookAt(clock) /\ h # NoHook /\ h.step # Storing(h.kind)
        /\ clock' = clock + 1 /\ clock' \in Nat
    BY <1>1, <1>2, <1>10 DEF Fill, Filling, Storing
  <2>2. Advance(t, k)
    BY <1>10 DEF Fill, h
  <2>3. k \in HookAt(clock') /\ k.step = h.step /\ k.kind = h.kind /\ k.func = h.func
    BY <1>2, <2>1, SMTT(30) DEF HookAt
  <2> HIDE DEF k
  <2> QED
    BY <1>3, <1>5, <2>1, <2>2, <2>3 DEF h
<1>11. CASE ReadIndex(t)
  <2> DEFINE k == [h EXCEPT !.slot = tracebuffer_index]
  <2>1. h \in HookAt(clock) /\ h # NoHook /\ h.step # Storing(h.kind)
    BY <1>1, <1>11 DEF ReadIndex, Reading, Storing, Filling
  <2>2. Advance(t, k)
    BY <1>11 DEF ReadIndex, h
  <2>3. k \in HookAt(clock) /\ k.step = h.step /\ k.kind = h.kind /\ k.func = h.func
    BY <1>2, <2>1 DEF HookAt
  <2> HIDE DEF k
  <2> QED
    BY <1>2, <1>3, <1>5, <2>1, <2>2, <2>3 DEF h
<1>12. CASE Rearm(t)
  <2>1. h \in HookAt(clock) /\ h # NoHook /\ h.step = Rearming(h.kind) /\ SetHook(t, NoHook)
    BY <1>1, <1>12 DEF Rearm
  <2> QED
    BY <1>3, <1>6, <2>1 DEF h
<1> QED
  BY <1>7, <1>8, <1>9, <1>10, <1>11, <1>12 DEF Quiet

LEMMA QuietNest ==
  ASSUME TypeInv, NEW t \in Threads, Exclusive(t), NestInv(t), Quiet(t), Running
  PROVE  NestInv(t)'
<1> DEFINE h == Hook(t)
<1>1. /\ UNCHANGED <<phase, recorded>>
      /\ h \in HookAt(clock) /\ h # NoHook
      /\ \E g : /\ NewTop(t, Top(t).calls, g)
               /\ \/ OneStep(h, g) /\ h.step # Storing(h.kind)
                  \/ g = NoHook /\ h.step = 1 /\ ~libgraprof_hooked
                  \/ g = NoHook /\ h.step = Rearming(h.kind)
  BY QuietStep
<1>2. PICK g : /\ NewTop(t, Top(t).calls, g)
               /\ \/ OneStep(h, g) /\ h.step # Storing(h.kind)
                  \/ g = NoHook /\ h.step = 1 /\ ~libgraprof_hooked
                  \/ g = NoHook /\ h.step = Rearming(h.kind)
  BY <1>1
<1>3. /\ Len(contexts[t]) \in 1 .. Len(contexts[t])
      /\ Top(t) = contexts[t][Len(contexts[t])] /\ h = Top(t).hook
  BY StackFacts DEF Hook
<1> HIDE DEF h
<1>4. h.step \in 1 .. 9 /\ h.kind \in Kinds
  BY <1>1 DEF HookAt
<1>5. Pending(g) => Pending(h) /\ g.kind = h.kind /\ g.func = h.func
  BY <1>1, <1>2, <1>4 DEF Pending, OneStep, Storing, Filling
<1>6. Waiting(h) => ~Recording(g)
  BY <1>1, <1>2, <1>4 DEF Waiting, Recording, OneStep, Disarming
<1>7. \/ Entered(Top(t).calls, g) = Entered(Top(t).calls, h)
      \/ Waiting(h) /\ ~libgraprof_hooked
  <2>1. CASE OneStep(h, g) /\ h.step # Storing(h.kind)
    <3>1. Pending(g) <=> Pending(h)
      BY <1>4, <2>1 DEF Pending, OneStep, Storing, Filling
    <3> QED
      BY <2>1, <3>1 DEF Entered, OneStep
  <2>2. CASE g = NoHook /\ h.step = 1 /\ ~libgraprof_hooked
    BY <2>2 DEF Waiting
  <2>3. CASE g = NoHook /\ h.step = Rearming(h.kind)
    <3>1. ~Pending(g) /\ ~Pending(h)
      BY <2>3 DEF Pending, Rearming, Storing, Filling
    <3> QED
      BY <3>1 DEF Entered
  <2> QED
    BY <1>2, <2>1, <2>2, <2>3
<1>8. Nesting(t)'
  BY <1>1, <1>2, <1>6, <1>7, NestTop DEF NestInv, Running, h
<1>9. Entries(t)'
  <2>1. Pending(h) /\ h.kind = "e" => Top(t).calls # <<>> /\ Last(Top(t).calls) = h.func
    BY <1>3 DEF NestInv, Entries
  <2> QED
    BY <1>2, <1>5, <2>1, EntriesTop DEF NestInv
<1>10. WellNested'
  BY <1>1 DEF NestInv, WellNested
<1> QED
  BY <1>8, <1>9, <1>10 DEF NestInv

(* The topmost of the stacked contexts enters or leaves a function, or     *)
(* calls the allocator: ds is the stack once the packet p is stored.       *)
StoreAtTop(cs, ds, n, p) ==
  /\ \A i \in 1 .. n - 1 : ds[i].calls = cs[i].calls /\ ds[i].hook = cs[i].hook
  /\ ~Pending(ds[n].hook)
  /\ p.kind = "e" => /\ ds[n].calls # <<>> /\ Last(ds[n].calls) = p.func
                     /\ Entered(cs[n].calls, cs[n].hook) = Front(ds[n].calls)
  /\ p.kind = "x" => Entered(cs[n].calls, cs[n].hook) = Append(ds[n].calls, p.func)
  /\ p.kind \notin {"e", "x"} => Entered(cs[n].calls, cs[n].hook) = ds[n].calls

LEMMA StackedStore ==
  ASSUME NEW S, NEW cs, NEW n \in Nat \ {0}, NEW base, NEW open \in Seq(S),
         Stacked(cs, n, base, open),
         NEW ds, NEW p, p.func \in S, ds[n].calls \in Seq(S), StoreAtTop(cs, ds, n, p)
  PROVE  /\ \E new \in [0 .. n -> Nat] : Stacked(ds, n, new, Opened(open, p))
         /\ p.kind = "x" => open # <<>> /\ Last(open) = p.func
<1> DEFINE calls   == ds[n].calls
           entered == Entered(cs[n].calls, cs[n].hook)
           last    == base[n - 1]
           new     == [base EXCEPT ![n] = last + Len(calls)]
<1>0. /\ \A i \in 1 .. n - 1 : ds[i].calls = cs[i].calls /\ ds[i].hook = cs[i].hook
      /\ calls \in Seq(S) /\ Entered(ds[n].calls, ds[n].hook) = calls
      /\ p.kind = "e" => calls # <<>> /\ Last(calls) = p.func /\ entered = Front(calls)
      /\ p.kind = "x" => entered = Append(calls, p.func)
      /\ p.kind \notin {"e", "x"} => entered = calls
  BY DEF StoreAtTop, Entered
<1> HIDE DEF calls
<1>1. /\ base \in [0 .. n -> Nat] /\ base[0] = 0 /\ base[n] = Len(open)
      /\ \A i \in 0 .. n : \A j \in i .. n : base[i] <= base[j]
      /\ \A i \in 1 .. n :
           /\ base[i] = base[i - 1] + Len(Entered(cs[i].calls, cs[i].hook))
           /\ \A j \in 1 .. Len(Entered(cs[i].calls, cs[i].hook)) :
                open[base[i - 1] + j] = Entered(cs[i].calls, cs[i].hook)[j]
  BY DEF Stacked, Segment
<1>2. /\ last \in Nat /\ Len(open) = last + Len(entered)
      /\ \A j \in 1 .. Len(entered) : open[last + j] = entered[j]
      /\ Len(calls) \in Nat /\ Len(open) \in Nat
      /\ n - 1 \in 0 .. n
  <2>1. n - 1 \in 0 .. n /\ n \in 1 .. n /\ n \in 0 .. n
    OBVIOUS
  <2>2. /\ base[n] = base[n - 1] + Len(entered)
        /\ \A j \in 1 .. Len(entered) : open[base[n - 1] + j] = entered[j]
    BY <1>1, <2>1
  <2>3. base[n - 1] \in Nat
    BY <1>1, <2>1
  <2>4. Len(calls) \in Nat /\ Len(open) \in Nat
    BY <1>0, LenProperties
  <2> HIDE DEF entered
  <2> QED
    BY <1>1, <2>1, <2>2, <2>3, <2>4
<1>3. /\ new \in [0 .. n -> Nat] /\ new[n] = last + Len(calls)
      /\ \A i \in 0 .. n - 1 : new[i] = base[i]
  BY <1>1, <1>2
<1>4. \A i \in 0 .. n : \A j \in i .. n : new[i] <= new[j]
  <2>1. \A i \in 0 .. n - 1 : \A j \in i .. n - 1 : new[i] <= new[j]
    BY <1>1, <1>3
  <2>2. \A i \in 0 .. n - 1 : new[i] <= last
    BY <1>1, <1>2, <1>3
  <2>3. \A i \in 0 .. n : new[i] <= new[n]
    BY <1>2, <1>3, <2>2
  <2> HIDE DEF new, last
  <2> QED
    BY <2>1, <2>3
<1>5. Entered(ds[n].calls, ds[n].hook) = calls
  BY <1>0
<1> HIDE DEF new, last, entered
<1>6. ASSUME NEW result \in Seq(S), Len(result) = last + Len(calls),
             \A k \in 1 .. last : result[k] = open[k],
             \A j \in 1 .. Len(calls) : result[last + j] = calls[j]
      PROVE  Stacked(ds, n, new, result)
  <2>1. ASSUME NEW i \in 1 .. n - 1
        PROVE  LET e == Entered(ds[i].calls, ds[i].hook)
               IN  /\ new[i] = new[i - 1] + Len(e)
                   /\ \A j \in 1 .. Len(e) : result[new[i - 1] + j] = e[j]
    <3> DEFINE e == Entered(ds[i].calls, ds[i].hook)
    <3>1. e = Entered(cs[i].calls, cs[i].hook)
      BY <1>0
    <3> HIDE DEF e
    <3>2. /\ base[i] = base[i - 1] + Len(e) /\ base[i] <= last
          /\ \A j \in 1 .. Len(e) : open[base[i - 1] + j] = e[j]
          /\ base[i] \in Nat /\ base[i - 1] \in Nat
      <4>1. i \in 1 .. n /\ i \in 0 .. n /\ i - 1 \in 0 .. n /\ n - 1 \in i .. n
        OBVIOUS
      <4>2. base[i] <= base[n - 1] /\ base[i] \in Nat /\ base[i - 1] \in Nat
        BY <1>1, <4>1
      <4> QED
        BY <1>1, <3>1, <4>1, <4>2 DEF last
    <3>3. new[i] = base[i] /\ new[i - 1] = base[i - 1]
      BY <1>3
    <3>4. \A j \in 1 .. Len(e) : base[i - 1] + j \in 1 .. last
      BY <1>2, <3>2, SMTT(60)
    <3> QED
      BY <1>6, <3>2, <3>3, <3>4 DEF e
  <2>2. /\ new[n] = new[n - 1] + Len(calls)
        /\ \A j \in 1 .. Len(calls) : result[new[n - 1] + j] = calls[j]
    <3>1. n - 1 \in 0 .. n - 1
      OBVIOUS
    <3>2. new[n - 1] = last
      BY <1>3, <3>1 DEF last
    <3> QED
      BY <1>3, <1>6, <3>2
  <2>3. new[0] = 0
    BY <1>1, <1>3
  <2>4. \A i \in 1 .. n :
          LET e == Entered(ds[i].calls, ds[i].hook)
          IN  /\ new[i] = new[i - 1] + Len(e)
              /\ \A j \in 1 .. Len(e) : result[new[i - 1] + j] = e[j]
    <3>1. \A i \in 1 .. n : i \in 1 .. n - 1 \/ i = n
      OBVIOUS
    <3> QED
      BY <1>5, <2>1, <2>2, <3>1
  <2> QED
    BY <1>3, <1>4, <1>6, <2>3, <2>4 DEF Stacked, Segment
<1>7. CASE p.kind = "e"
  <2>1. /\ entered = Front(calls) /\ Len(calls) \in Nat \ {0}
        /\ Len(entered) = Len(calls) - 1 /\ p.func = calls[Len(calls)]
        /\ \A j \in 1 .. Len(calls) - 1 : entered[j] = calls[j]
    BY <1>0, <1>7, FrontFacts
  <2> DEFINE result == Append(open, p.func)
  <2>2. /\ result \in Seq(S) /\ Len(result) = Len(open) + 1
        /\ \A k \in 1 .. Len(open) : result[k] = open[k]
        /\ result[Len(open) + 1] = p.func
    BY AppendProperties
  <2> HIDE DEF result
  <2>3. /\ Len(result) = last + Len(calls)
        /\ \A k \in 1 .. last : result[k] = open[k]
    <3>1. Len(open) = last + (Len(calls) - 1) /\ last \in Nat /\ Len(calls) \in Nat \ {0}
      BY <1>2, <2>1
    <3> QED
      BY <2>2, <3>1
  <2>4. ASSUME NEW j \in 1 .. Len(calls) PROVE result[last + j] = calls[j]
    <3>1. CASE j = Len(calls)
      <4>1. last + j = Len(open) + 1
        BY <1>2, <2>1, <3>1
      <4> QED
        BY <2>1, <2>2, <3>1, <4>1
    <3>2. CASE j \in 1 .. Len(calls) - 1
      <4>1. last + j \in 1 .. Len(open) /\ j \in 1 .. Len(entered)
        BY <1>2, <2>1, <3>2
      <4> QED
        BY <1>2, <2>1, <2>2, <3>2, <4>1
    <3> QED
      BY <2>1, <3>1, <3>2
  <2>5. Stacked(ds, n, new, result)
    BY <1>6, <2>2, <2>3, <2>4
  <2>6. Opened(open, p) = result
    BY <1>7 DEF Opened, result
  <2> QED
    BY <1>3, <1>7, <2>5, <2>6
<1>8. CASE p.kind = "x"
  <2>1. /\ entered = Append(calls, p.func) /\ Len(entered) = Len(calls) + 1
        /\ \A j \in 1 .. Len(calls) : entered[j] = calls[j]
        /\ entered[Len(calls) + 1] = p.func
    <3>1. entered = Append(calls, p.func) /\ calls \in Seq(S) /\ p.func \in S
      BY <1>0, <1>8
    <3>2. /\ Len(Append(calls, p.func)) = Len(calls) + 1
          /\ \A j \in 1 .. Len(calls) : Append(calls, p.func)[j] = calls[j]
          /\ Append(calls, p.func)[Len(calls) + 1] = p.func
      BY <3>1, AppendProperties
    <3> QED
      BY <3>1, <3>2
  <2>2. open # <<>>
    BY <1>2, <2>1, EmptySeq
  <2> DEFINE result == Front(open)
  <2>3. /\ result \in Seq(S) /\ Len(result) = Len(open) - 1
        /\ \A k \in 1 .. Len(open) - 1 : result[k] = open[k]
        /\ Last(open) = open[Len(open)]
    BY <2>2, FrontFacts
  <2> HIDE DEF result
  <2>4. /\ Len(result) = last + Len(calls)
        /\ \A k \in 1 .. last : result[k] = open[k]
    BY <1>2, <2>1, <2>3
  <2>5. ASSUME NEW j \in 1 .. Len(calls) PROVE result[last + j] = calls[j]
    <3>1. last + j \in 1 .. Len(open) - 1 /\ j \in 1 .. Len(entered)
      BY <1>2, <2>1
    <3> QED
      BY <1>2, <2>1, <2>3, <3>1
  <2>6. Last(open) = p.func
    <3>1. Len(open) = last + (Len(calls) + 1) /\ Len(calls) + 1 \in 1 .. Len(entered)
      BY <1>2, <2>1
    <3> QED
      BY <1>2, <2>1, <2>3, <3>1
  <2>7. Stacked(ds, n, new, result)
    BY <1>6, <2>3, <2>4, <2>5
  <2>8. Opened(open, p) = result
    BY <1>8, <2>2 DEF Opened, result
  <2> QED
    BY <1>3, <1>8, <2>2, <2>6, <2>7, <2>8
<1>9. CASE p.kind \notin {"e", "x"}
  <2>1. entered = calls
    BY <1>0, <1>9
  <2>2. Stacked(ds, n, new, open)
    BY <1>0, <1>2, <1>6, <2>1
  <2>3. Opened(open, p) = open
    BY <1>9 DEF Opened
  <2> QED
    BY <1>3, <1>9, <2>2, <2>3
<1> QED
  BY <1>7, <1>8, <1>9

LEMMA StoreNest ==
  ASSUME TypeInv, NEW t \in Threads, ThreadInv(t), NestInv(t), StorePacket(t), Running
  PROVE  NestInv(t)'
<1> USE DEF ThreadInv, NestInv
<1> DEFINE h == Hook(t)
           n == Len(contexts[t])
           q == Packet(h.kind, h.func, h.time)
           F == Functions \cup {NoFunction}
           calls == Top(t).calls
<1>1. /\ h \in HookAt(clock) /\ h # NoHook /\ h.step = Storing(h.kind) /\ clock \in Nat
      /\ Advance(t, h)
      /\ recorded' = Append(recorded, q)
      /\ phase' = phase
  BY AtFacts DEF StorePacket, TypeInv, LogTypes
<1>2. /\ n \in Nat \ {0}
      /\ Top(t) = contexts[t][n] /\ h = contexts[t][n].hook
      /\ calls \in Seq(Functions)
  BY StackFacts DEF ContextAt
<1>3. /\ q \in PacketAt(clock) /\ q.kind = h.kind /\ q.func = h.func /\ q.func \in F
      /\ h.kind \in Kinds
  BY <1>1 DEF Packet, PacketAt, HookAt
<1> HIDE DEF h, q
<1>4. PICK g : /\ NewTop(t, calls, g) /\ g # NoHook
               /\ g.step = h.step + 1 /\ g.kind = h.kind
  <2>1. PICK g : /\ NewHooks(t, g)
                 /\ \A i \in 1 .. n : contexts'[t][i].calls = contexts[t][i].calls
                 /\ g # NoHook /\ g.step = h.step + 1 /\ g.kind = h.kind
    BY <1>1, AdvanceStack
  <2>2. NewTop(t, calls, g)
    BY <1>2, <2>1 DEF NewTop
  <2> QED
    BY <2>1, <2>2
<1>5. Pending(h) /\ ~Pending(g) /\ ~Waiting(h)
  BY <1>1, <1>4 DEF Pending, Waiting, Storing, Filling
<1>6. phase = "profiling"
  BY <1>5, NoneBelow DEF h, Running
<1>7. PICK m \in Nat : /\ RecordedUpTo(contexts[t], m)
                      /\ \E base \in [0 .. m -> Nat] : Stacked(contexts[t], m, base, OpenNow)
  BY <1>6 DEF Nesting
<1>8. m = n
  BY <1>2, <1>5, <1>7, NoneBelow DEF RecordedUpTo, h
<1>9. PICK base \in [0 .. n -> Nat] : Stacked(contexts[t], n, base, OpenNow)
  BY <1>7, <1>8
<1>10. /\ recorded \in Seq(PacketAt(clock)) /\ Len(recorded) \in Nat
       /\ Len(recorded') = Len(recorded) + 1
       /\ \A k \in 1 .. Len(recorded) : recorded'[k] = recorded[k]
       /\ recorded'[Len(recorded) + 1] = q
  BY <1>1, <1>3, AppendProperties, LenProperties DEF TypeInv, LogTypes
<1>11. /\ OpenNow \in Seq(F) /\ OpenNow' = Opened(OpenNow, q)
       /\ \A k \in 0 .. Len(recorded) : OpenAfter(recorded')[k] = OpenAfter(recorded)[k]
  <2>1. OpenNow \in Seq(F)
    BY <1>10, OpenTypes DEF OpenNow
  <2>2. /\ OpenAfter(recorded')[Len(recorded) + 1] = Opened(OpenNow, q)
        /\ \A k \in 0 .. Len(recorded) : OpenAfter(recorded')[k] = OpenAfter(recorded)[k]
    BY <1>1, <1>3, <1>10, OpenAppend DEF OpenNow
  <2> QED
    BY <1>10, <2>1, <2>2 DEF OpenNow
<1>12. /\ \A i \in 1 .. n - 1 : /\ contexts'[t][i].calls = contexts[t][i].calls
                               /\ contexts'[t][i].hook = contexts[t][i].hook
       /\ contexts'[t][n].calls = calls /\ contexts'[t][n].hook = g
       /\ Len(contexts'[t]) = n
  BY <1>2, <1>4 DEF NewTop, NewHooks
<1>13. calls \in Seq(F)
  BY <1>2, SeqMonotonic
<1>14. /\ q.kind = "e" => /\ calls # <<>> /\ Last(calls) = q.func
                          /\ Entered(contexts[t][n].calls, contexts[t][n].hook) = Front(calls)
       /\ q.kind = "x" => Entered(contexts[t][n].calls, contexts[t][n].hook) = Append(calls, q.func)
       /\ q.kind \notin {"e", "x"} => Entered(contexts[t][n].calls, contexts[t][n].hook) = calls
  <2>1. contexts[t][n].calls = calls /\ contexts[t][n].hook = h /\ n \in 1 .. n
    BY <1>2
  <2>2. Pending(h) /\ h.kind = "e" => calls # <<>> /\ Last(calls) = h.func
    BY <2>1 DEF Entries
  <2> HIDE DEF calls
  <2> QED
    BY <1>3, <1>5, <2>1, <2>2 DEF Entered
<1> HIDE DEF calls, F, n
<1>15. /\ \E new \in [0 .. n -> Nat] : Stacked(contexts'[t], n, new, OpenNow')
       /\ q.kind = "x" => OpenNow # <<>> /\ Last(OpenNow) = q.func
  <2>1. /\ \E new \in [0 .. n -> Nat] : Stacked(contexts'[t], n, new, Opened(OpenNow, q))
        /\ q.kind = "x" => OpenNow # <<>> /\ Last(OpenNow) = q.func
    <3> DEFINE cs == contexts[t]
               ds == contexts'[t]
               open == OpenNow
    <3>1. StoreAtTop(cs, ds, n, q)
      BY <1>5, <1>12, <1>14 DEF StoreAtTop
    <3>2. Stacked(cs, n, base, open)
      BY <1>9
    <3>3. open \in Seq(F) /\ q.func \in F /\ ds[n].calls \in Seq(F) /\ n \in Nat \ {0}
      BY <1>2, <1>3, <1>11, <1>12, <1>13
    <3> HIDE DEF cs, ds, open
    <3>5. /\ \E new \in [0 .. n -> Nat] : Stacked(ds, n, new, Opened(open, q))
          /\ q.kind = "x" => open # <<>> /\ Last(open) = q.func
      BY <3>1, <3>2, <3>3, StackedStore, SMTT(30)
    <3> QED
      BY <3>5 DEF ds, open
  <2> QED
    BY <1>11, <2>1
<1>16. RecordedUpTo(contexts'[t], n)
  <2>1. \A i \in 1 .. n - 1 : ~Recording(contexts'[t][i].hook)
    BY <1>2, <1>5, <1>12, NoneBelow DEF h, n
  <2>2. Len(contexts'[t]) = Len(contexts[t]) /\ n = Len(contexts[t])
    BY <1>12 DEF n
  <2> QED
    BY <1>2, <2>1, <2>2 DEF RecordedUpTo
<1>17. Nesting(t)'
  <2>1. phase' = "profiling" /\ n \in Nat
    BY <1>1, <1>2, <1>6
  <2> QED
    BY <1>15, <1>16, <2>1 DEF Nesting
<1>18. Entries(t)'
  BY <1>4, <1>5, EntriesTop
<1>19. WellNested'
  <2>1. ASSUME NEW k \in 1 .. Len(recorded'), recorded'[k].kind = "x"
        PROVE  /\ OpenAfter(recorded')[k - 1] # <<>>
               /\ Last(OpenAfter(recorded')[k - 1]) = recorded'[k].func
    <3>1. CASE k \in 1 .. Len(recorded)
      <4>1. k - 1 \in 0 .. Len(recorded)
        BY <1>10, <3>1
      <4> QED
        BY <1>10, <1>11, <2>1, <3>1, <4>1 DEF WellNested
    <3>2. CASE k = Len(recorded) + 1
      <4>1. k - 1 = Len(recorded) /\ k - 1 \in 0 .. Len(recorded)
        BY <1>10, <3>2
      <4> QED
        BY <1>10, <1>11, <1>15, <2>1, <3>2, <4>1 DEF OpenNow
    <3> QED
      BY <1>10, <3>1, <3>2
  <2> QED
    BY <2>1 DEF WellNested
<1> QED
  BY <1>17, <1>18, <1>19

LEMMA BeginNest ==
  ASSUME TypeInv, NEW t \in Threads, Exclusive(t), NestInv(t),
         NEW kind, NEW func, NEW calls, Begin(t, kind, func, calls),
         kind = "e" => calls # <<>> /\ Last(calls) = func,
         Entered(calls, NewHook(kind, func)) = Top(t).calls
  PROVE  NestInv(t)'
<1> DEFINE h == Hook(t)
           k == NewHook(kind, func)
           c == [calls |-> calls, hook |-> k]
<1>1. h = NoHook /\ SetTop(t, c) /\ Running /\ UNCHANGED <<phase, recorded>>
  BY DEF Begin, Idle, history
<1>2. k.kind = kind /\ k.func = func /\ k.step = 1 /\ c.calls = calls /\ c.hook = k
  BY DEF NewHook
<1> HIDE DEF k, c
<1>3. NewTop(t, calls, k)
  BY <1>1, <1>2, SetTopStack DEF NewTop, NewHooks
<1>4. ~Recording(k) /\ Entered(Top(t).calls, h) = Top(t).calls
  BY <1>1, <1>2 DEF Recording, Disarming, Entered, Pending
<1>5. Nesting(t)'
  BY <1>1, <1>3, <1>4, NestTop DEF NestInv, Running, k
<1>6. Entries(t)'
  BY <1>2, <1>3, EntriesTop DEF NestInv
<1>7. WellNested'
  BY <1>1 DEF NestInv, WellNested
<1> QED
  BY <1>5, <1>6, <1>7 DEF NestInv

LEMMA CallsNest ==
  ASSUME TypeInv, NEW t \in Threads, Exclusive(t), NestInv(t),
         ReturnFromFunction(t) \/ CallAllocator(t) \/ \E f \in Functions : CallFunction(t, f)
  PROVE  NestInv(t)'
<1> DEFINE old == Top(t).calls
<1>1. old \in Seq(Functions)
  BY StackFacts DEF ContextAt
<1>2. \A kind, func : /\ NewHook(kind, func).kind = kind /\ NewHook(kind, func).func = func
                     /\ Pending(NewHook(kind, func))
  <2>1. \A kind, func : /\ NewHook(kind, func).kind = kind /\ NewHook(kind, func).func = func
                       /\ NewHook(kind, func).step = 1 /\ NewHook(kind, func) # NoHook
    <3>1. \A kind, func : NewHook(kind, func).step = 1
      BY DEF NewHook
    <3>2. \A kind, func : DOMAIN NewHook(kind, func) # DOMAIN NoHook
      BY DEF NewHook, NoHook
    <3> QED
      BY <3>1, <3>2 DEF NewHook
  <2> QED
    BY <2>1 DEF Pending, Storing, Filling
<1>3. CASE ReturnFromFunction(t)
  <2>1. old # <<>> /\ Begin(t, "x", Last(old), Front(old))
    BY <1>3 DEF ReturnFromFunction
  <2>2. Append(Front(old), Last(old)) = old
    <3>1. /\ Len(old) \in Nat \ {0} /\ Last(old) = old[Len(old)] /\ Last(old) \in Functions
      BY <1>1, <2>1, FrontFacts
    <3> DEFINE new == Append(Front(old), Last(old))
    <3>2. /\ new \in Seq(Functions) /\ Len(new) = Len(old)
          /\ \A i \in 1 .. Len(old) : new[i] = IF i = Len(old) THEN Last(old) ELSE old[i]
      BY <1>1, <2>1, <3>1, NewTopFacts
    <3> HIDE DEF new, old
    <3>3. \A i \in 1 .. Len(old) : new[i] = old[i]
      BY <3>1, <3>2
    <3>4. new = old
      BY <1>1, <3>2, <3>3, SeqEqual
    <3> QED
      BY <3>4 DEF new
  <2>3. Entered(Front(old), NewHook("x", Last(old))) = old
    <3> DEFINE k == NewHook("x", Last(old))
    <3>1. k.kind = "x" /\ k.func = Last(old) /\ Pending(k)
      BY <1>2
    <3> HIDE DEF k, old
    <3>2. Entered(Front(old), k) = old
      BY <2>2, <3>1 DEF Entered
    <3> QED
      BY <3>2 DEF k
  <2> QED
    BY <2>1, <2>3, BeginNest
<1>4. CASE CallAllocator(t)
  <2>1. Begin(t, "+", NoFunction, old)
    BY <1>4 DEF CallAllocator
  <2>2. Entered(old, NewHook("+", NoFunction)) = old
    BY <1>2 DEF Entered
  <2> QED
    BY <2>1, <2>2, BeginNest
<1>5. ASSUME NEW f \in Functions, CallFunction(t, f) PROVE NestInv(t)'
  <2> DEFINE new == Append(old, f)
  <2>1. Begin(t, "e", f, new)
    BY <1>5 DEF CallFunction
  <2>2. new # <<>> /\ Last(new) = f /\ Front(new) = old
    <3>1. /\ new \in Seq(Functions) /\ new # <<>> /\ Len(old) \in Nat
          /\ Len(new) = Len(old) + 1 /\ new[Len(old) + 1] = f
          /\ \A i \in 1 .. Len(old) : new[i] = old[i]
      BY <1>1, AppendProperties, LenProperties
    <3> HIDE DEF new, old
    <3>2. /\ Front(new) \in Seq(Functions) /\ Len(Front(new)) = Len(old) /\ Last(new) = f
          /\ \A i \in 1 .. Len(old) : Front(new)[i] = old[i]
      <4>1. Len(new) - 1 = Len(old)
        BY <3>1
      <4>2. /\ Last(new) = new[Len(new)] /\ Front(new) \in Seq(Functions)
            /\ Len(Front(new)) = Len(new) - 1
            /\ \A i \in 1 .. Len(new) - 1 : Front(new)[i] = new[i]
        BY <3>1, FrontFacts
      <4> QED
        BY <3>1, <4>1, <4>2
    <3>3. Front(new) = old
      BY <1>1, <3>2, SeqEqual
    <3> QED
      BY <3>1, <3>2, <3>3
  <2>3. Entered(new, NewHook("e", f)) = old
    BY <1>2, <2>2 DEF Entered
  <2> HIDE DEF new
  <2> QED
    BY <2>1, <2>2, <2>3, BeginNest
<1> QED
  BY <1>3, <1>4, <1>5

LEMMA SignalNest ==
  ASSUME TypeInv, NEW t \in Threads, Exclusive(t), NestInv(t), Signal(t)
  PROVE  NestInv(t)'
<1> DEFINE n == Len(contexts[t])
<1>1. UNCHANGED <<phase, recorded>> /\ phase \in {"profiling", "off"}
  BY DEF Signal, Running, history
<1>2. n \in Nat \ {0}
  BY StackFacts
<1>3. /\ Len(contexts'[t]) = n + 1
      /\ \A i \in 1 .. n : contexts'[t][i] = contexts[t][i]
      /\ contexts'[t][n + 1] = NewContext
      /\ NewContext.calls = <<>> /\ NewContext.hook = NoHook
  <2>1. contexts[t] \in Seq(ContextAt(clock)) /\ contexts'[t] = Append(contexts[t], NewContext)
    BY DEF Signal, TypeInv, ContextTypes, TypedContexts
  <2>2. NewContext \in ContextAt(clock)
    BY EmptySeq DEF NewContext, ContextAt
  <2> QED
    BY <2>1, <2>2, AppendProperties DEF NewContext
<1>4. ~Recording(NoHook) /\ ~Pending(NoHook) /\ Entered(<<>>, NoHook) = <<>>
  BY DEF Recording, Pending, Entered
<1>5. Entries(t)'
  <2>1. \A i \in 1 .. n + 1 : i \in 1 .. n \/ i = n + 1
    BY <1>2
  <2> QED
    BY <1>3, <1>4, <2>1 DEF NestInv, Entries
<1>6. WellNested'
  BY <1>1 DEF NestInv, WellNested
<1>7. Nesting(t)'
  <2> SUFFICES ASSUME phase = "profiling" PROVE Nesting(t)'
    BY <1>1 DEF Nesting
  <2>1. PICK m \in Nat : /\ RecordedUpTo(contexts[t], m)
                        /\ \E base \in [0 .. m -> Nat] : Stacked(contexts[t], m, base, OpenNow)
    BY DEF NestInv, Nesting
  <2>2. PICK base \in [0 .. m -> Nat] : Stacked(contexts[t], m, base, OpenNow)
    BY <2>1
  <2>3. OpenNow' = OpenNow
    BY <1>1 DEF OpenNow
  <2>4. /\ m \in 1 .. n
        /\ \A i \in 1 .. n : Recording(contexts[t][i].hook) => i = m
        /\ m < n => Recording(contexts[t][m].hook)
    BY <2>1 DEF RecordedUpTo
  <2>5. \A i \in 1 .. n + 1 : i \in 1 .. n \/ i = n + 1
    BY <1>2
  <2>6. CASE Recording(contexts[t][m].hook)
    <3> DEFINE ds == contexts'[t]
    <3>1. /\ Len(ds) = n + 1 /\ ds[n + 1].hook = NoHook
          /\ \A i \in 1 .. n : ds[i].hook = contexts[t][i].hook /\ ds[i].calls = contexts[t][i].calls
      BY <1>3
    <3> HIDE DEF ds, n
    <3>2. RecordedUpTo(ds, m)
      BY <1>2, <1>4, <2>4, <2>5, <2>6, <3>1 DEF RecordedUpTo
    <3>3. \A i \in 1 .. m : i \in 1 .. n
      BY <1>2, <2>4
    <3>4. Stacked(ds, m, base, OpenNow)
      BY <2>2, <3>1, <3>3 DEF Stacked
    <3> QED
      BY <1>1, <2>3, <3>2, <3>4 DEF Nesting, ds
  <2>7. CASE ~Recording(contexts[t][m].hook)
    <3>1. m = n
      BY <1>2, <2>4, <2>7
    <3> DEFINE new == [i \in 0 .. n + 1 |-> IF i = n + 1 THEN base[n] ELSE base[i]]
    <3>2. RecordedUpTo(contexts'[t], n + 1)
      BY <1>2, <1>3, <1>4, <2>4, <2>5, <2>7, <3>1 DEF RecordedUpTo
    <3>3. /\ base[0] = 0 /\ base[n] = Len(OpenNow)
          /\ \A i \in 0 .. n : base[i] \in Nat
          /\ \A i \in 0 .. n : \A j \in i .. n : base[i] <= base[j]
          /\ \A i \in 1 .. n : Segment(Entered(contexts[t][i].calls, contexts[t][i].hook),
                                     base[i - 1], base[i], OpenNow)
      BY <2>2, <3>1 DEF Stacked
    <3>4. /\ new \in [0 .. n + 1 -> Nat] /\ new[n + 1] = base[n]
          /\ \A i \in 0 .. n : new[i] = base[i]
      <4>1. n \in Nat /\ base[n] \in Nat /\ \A i \in 0 .. n : base[i] \in Nat
        BY <1>2, <3>3
      <4> HIDE DEF n
      <4>2. \A i \in 0 .. n + 1 : i = n + 1 \/ i \in 0 .. n
        BY <4>1
      <4> QED
        BY <4>1, <4>2
    <3> HIDE DEF new, n
    <3>5. \A i \in 0 .. n + 1 : \A j \in i .. n + 1 : new[i] <= new[j]
      <4>1. ASSUME NEW i \in 0 .. n, NEW j \in i .. n PROVE new[i] <= new[j]
        <5>1. j \in 0 .. n
          BY <1>2
        <5>2. base[i] <= base[j]
          BY <3>3
        <5>3. new[i] = base[i] /\ new[j] = base[j]
          BY <3>4, <5>1
        <5> QED
          BY <5>2, <5>3
      <4>2. \A i \in 0 .. n + 1 : new[i] <= new[n + 1]
        <5>1. \A i \in 0 .. n : n \in i .. n
          BY <1>2
        <5>2. \A i \in 0 .. n : base[i] <= base[n]
          BY <3>3, <5>1
        <5>3. n \in 0 .. n /\ base[n] \in Nat
          BY <1>2, <3>3
        <5> QED
          BY <1>2, <3>4, <5>2, <5>3
      <4> QED
        BY <1>2, <4>1, <4>2
    <3>6. \A i \in 1 .. n + 1 : Segment(Entered(contexts'[t][i].calls, contexts'[t][i].hook),
                                      new[i - 1], new[i], OpenNow)
      <4>1. ASSUME NEW i \in 1 .. n
            PROVE  Segment(Entered(contexts'[t][i].calls, contexts'[t][i].hook),
                           new[i - 1], new[i], OpenNow)
        <5>1. i \in 0 .. n /\ i - 1 \in 0 .. n
          BY <1>2
        <5> QED
          BY <1>3, <3>3, <3>4, <5>1
      <4>2. Entered(contexts'[t][n + 1].calls, contexts'[t][n + 1].hook) = <<>>
        BY <1>3, <1>4
      <4>3. new[n + 1] = new[n] + 0 /\ n + 1 - 1 = n /\ Len(<<>>) = 0
        BY <1>2, <3>3, <3>4
      <4>4. Segment(<<>>, new[n], new[n + 1], OpenNow)
        BY <4>3 DEF Segment
      <4>5. ASSUME NEW i \in 1 .. n + 1
            PROVE  Segment(Entered(contexts'[t][i].calls, contexts'[t][i].hook),
                           new[i - 1], new[i], OpenNow)
        <5>1. CASE i \in 1 .. n
          BY <4>1, <5>1
        <5>2. CASE i = n + 1
          <6>1. i - 1 = n
            BY <1>2, <5>2
          <6> QED
            BY <4>2, <4>4, <5>2, <6>1
        <5> QED
          BY <1>2, <5>1, <5>2
      <4> QED
        BY <4>5
    <3>7. Stacked(contexts'[t], n + 1, new, OpenNow)
      <4>1. new[0] = 0 /\ new[n + 1] = Len(OpenNow)
        BY <1>2, <3>3, <3>4
      <4> QED
        BY <3>4, <3>5, <3>6, <4>1 DEF Stacked
    <3>8. n + 1 \in Nat
      BY <1>2
    <3> QED
      BY <1>1, <2>3, <3>2, <3>4, <3>7, <3>8 DEF Nesting
  <2> QED
    BY <2>6, <2>7
<1> QED
  BY <1>5, <1>6, <1>7 DEF NestInv

LEMMA ReturnFromHandlerNest ==
  ASSUME TypeInv, NEW t \in Threads, Exclusive(t), NestInv(t), ReturnFromHandler(t)
  PROVE  NestInv(t)'
<1> DEFINE n == Len(contexts[t])
<1>1. UNCHANGED <<phase, recorded>> /\ phase \in {"profiling", "off"}
  BY DEF ReturnFromHandler, Running, history
<1>2. /\ n \in Nat /\ n > 1
      /\ contexts[t][n].hook = NoHook /\ contexts[t][n].calls = <<>>
  BY StackFacts DEF ReturnFromHandler, Idle, Nested
<1>3. /\ Len(contexts'[t]) = n - 1
      /\ \A i \in 1 .. n - 1 : contexts'[t][i] = contexts[t][i]
  <2>1. /\ contexts[t] \in Seq(ContextAt(clock)) /\ contexts[t] # <<>>
        /\ contexts'[t] = Front(contexts[t])
    BY DEF ReturnFromHandler, TypeInv, ContextTypes, TypedContexts
  <2> QED
    BY <2>1, FrontFacts
<1>4. ~Recording(NoHook) /\ Entered(<<>>, NoHook) = <<>>
  BY DEF Recording, Pending, Entered
<1>5. Entries(t)'
  BY <1>2, <1>3 DEF NestInv, Entries
<1>6. WellNested'
  BY <1>1 DEF NestInv, WellNested
<1>7. Nesting(t)'
  <2> SUFFICES ASSUME phase = "profiling" PROVE Nesting(t)'
    BY <1>1 DEF Nesting
  <2>1. PICK m \in Nat : /\ RecordedUpTo(contexts[t], m)
                        /\ \E base \in [0 .. m -> Nat] : Stacked(contexts[t], m, base, OpenNow)
    BY DEF NestInv, Nesting
  <2>2. PICK base \in [0 .. m -> Nat] : Stacked(contexts[t], m, base, OpenNow)
    BY <2>1
  <2>3. OpenNow' = OpenNow
    BY <1>1 DEF OpenNow
  <2>4. /\ m \in 1 .. n
        /\ \A i \in 1 .. n : Recording(contexts[t][i].hook) => i = m
        /\ m < n => Recording(contexts[t][m].hook)
    BY <2>1 DEF RecordedUpTo
  <2> DEFINE ds == contexts'[t]
  <2>a. \A i \in 1 .. n - 1 : ds[i] = contexts[t][i]
    BY <1>3
  <2>b. Len(ds) = n - 1
    BY <1>3
  <2> HIDE DEF ds, n
  <2>5. /\ Len(ds) = n - 1
        /\ \A i \in 1 .. n - 1 : /\ i \in 1 .. n
                               /\ ds[i].hook = contexts[t][i].hook
                               /\ ds[i].calls = contexts[t][i].calls
    <3>1. \A i \in 1 .. n - 1 : i \in 1 .. n
      BY <1>2
    <3> QED
      BY <2>a, <2>b, <3>1
  <2>6. CASE m < n
    <3>1. m \in 1 .. n - 1 /\ (\A i \in 1 .. m : i \in 1 .. n - 1)
      BY <1>2, <2>4, <2>6
    <3>2. RecordedUpTo(ds, m)
      BY <1>2, <2>4, <2>5, <2>6, <3>1 DEF RecordedUpTo
    <3>3. Stacked(ds, m, base, OpenNow)
      BY <2>2, <2>5, <3>1 DEF Stacked
    <3> QED
      BY <1>1, <2>3, <3>2, <3>3 DEF Nesting, ds
  <2>7. CASE m = n
    <3> DEFINE k   == n - 1
               new == [i \in 0 .. k |-> base[i]]
    <3>1. k \in Nat /\ k \in 1 .. k /\ n = k + 1 /\ k \in 1 .. n - 1
      BY <1>2
    <3>2. RecordedUpTo(ds, k)
      <4>1. \A i \in 1 .. n - 1 : ~Recording(ds[i].hook)
        BY <1>2, <2>4, <2>5, <2>7
      <4>2. Len(ds) = k
        BY <2>5
      <4> QED
        BY <3>1, <4>1, <4>2 DEF RecordedUpTo
    <3>3. /\ base[0] = 0 /\ base[n] = Len(OpenNow)
          /\ \A i \in 0 .. n : base[i] \in Nat
          /\ \A i \in 0 .. n : \A j \in i .. n : base[i] <= base[j]
          /\ \A i \in 1 .. n : Segment(Entered(contexts[t][i].calls, contexts[t][i].hook),
                                     base[i - 1], base[i], OpenNow)
      BY <2>2, <2>7 DEF Stacked
    <3>4. base[k] = Len(OpenNow)
      <4>1. n \in 1 .. n /\ n - 1 = k /\ k \in 0 .. n
        BY <3>1
      <4>2. Segment(<<>>, base[k], base[n], OpenNow)
        BY <1>2, <1>4, <3>3, <4>1
      <4>3. base[n] = base[k] + 0 /\ base[k] \in Nat
        BY <3>3, <4>1, <4>2 DEF Segment
      <4> QED
        BY <3>3, <4>3
    <3> HIDE DEF k
    <3>5. \A i \in 0 .. k : i \in 0 .. n /\ base[i] \in Nat
      BY <3>1, <3>3
    <3>6. new \in [0 .. k -> Nat] /\ \A i \in 0 .. k : new[i] = base[i]
      BY <3>5
    <3> HIDE DEF new
    <3>7. \A i \in 0 .. k : \A j \in i .. k : new[i] <= new[j]
      <4>1. \A i \in 0 .. k : \A j \in i .. k : i \in 0 .. n /\ j \in i .. n /\ j \in 0 .. k
        BY <3>1
      <4> QED
        BY <3>3, <3>6, <4>1
    <3>8. \A i \in 1 .. k : Segment(Entered(ds[i].calls, ds[i].hook), new[i - 1], new[i], OpenNow)
      <4>1. \A i \in 1 .. k : i \in 1 .. n /\ i \in 1 .. n - 1 /\ i \in 0 .. k /\ i - 1 \in 0 .. k
        BY <3>1
      <4> QED
        BY <2>5, <3>3, <3>6, <4>1
    <3>9. new[0] = 0 /\ new[k] = Len(OpenNow)
      BY <3>1, <3>3, <3>4, <3>6
    <3>10. Stacked(ds, k, new, OpenNow)
      BY <3>6, <3>7, <3>8, <3>9 DEF Stacked
    <3> QED
      BY <1>1, <2>3, <3>1, <3>2, <3>6, <3>10 DEF Nesting, ds
  <2> QED
    BY <2>4, <2>6, <2>7, <1>2
<1> QED
  BY <1>5, <1>6, <1>7 DEF NestInv

LEMMA OpeningNest ==
  ASSUME TypeInv, NEW t \in Threads, ThreadInv(t), NestInv(t),
         WriteHeaderEntry \/ FinishHeader \/ OpeningFails
  PROVE  NestInv(t)'
<1>1. /\ phase = "opening" /\ phase' \in {"opening", "profiling", "off"}
      /\ UNCHANGED <<contexts, recorded>>
  BY DEF WriteHeaderEntry, FinishHeader, OpeningFails, history
<1>2. contexts[t] = <<NewContext>> /\ recorded = <<>>
  BY <1>1 DEF NestInv, Nesting, ThreadInv, Log
<1>3. Entries(t)' /\ WellNested'
  BY <1>1 DEF NestInv, Entries, WellNested
<1>4. /\ Len(contexts[t]) = 1 /\ contexts[t][1].hook = NoHook /\ contexts[t][1].calls = <<>>
      /\ ~Recording(NoHook) /\ Entered(<<>>, NoHook) = <<>>
  BY <1>2 DEF NewContext, Recording, Pending, Entered
<1>5. RecordedUpTo(contexts[t], 1)
  BY <1>4 DEF RecordedUpTo
<1>6. OpenNow = <<>>
  <2>1. Len(recorded) = 0
    BY <1>2
  <2> QED
    BY <2>1, OpenEquations DEF OpenNow
<1>7. \E base \in [0 .. 1 -> Nat] : Stacked(contexts[t], 1, base, OpenNow)
  <2> DEFINE base == [i \in 0 .. 1 |-> 0]
  <2>1. base \in [0 .. 1 -> Nat] /\ base[0] = 0 /\ base[1] = 0 /\ \A i \in 0 .. 1 : base[i] = 0
    OBVIOUS
  <2> HIDE DEF base
  <2>2. Segment(<<>>, 0, 0, <<>>)
    BY DEF Segment
  <2>3. Stacked(contexts[t], 1, base, <<>>)
    BY <1>4, <2>1, <2>2 DEF Stacked
  <2> QED
    BY <1>6, <2>1, <2>3
<1>8. OpenNow' = OpenNow
  BY <1>1 DEF OpenNow
<1>9. Nesting(t)'
  BY <1>1, <1>2, <1>5, <1>7, <1>8 DEF Nesting
<1> QED
  BY <1>3, <1>9 DEF NestInv

LEMMA NextNestInv ==
  ASSUME TypeInv, NEW t, Threads = {t}, ThreadInv(t), NestInv(t), [Next]_vars
  PROVE  NestInv(t)'
<1> USE DEF NestInv
<1>1. t \in Threads /\ Exclusive(t)
  BY DEF ThreadInv
<1>2. CASE UNCHANGED vars
  <2>1. UNCHANGED <<phase, contexts, recorded>>
    BY <1>2 DEF vars
  <2> QED
    BY <2>1 DEF Entries, Nesting, OpenNow, WellNested
<1>3. CASE WriteHeaderEntry \/ FinishHeader \/ OpeningFails
  BY <1>1, <1>3, OpeningNest
<1>4. CASE Kill \/ Exit(t) \/ (Running /\ StoreBeyond(t))
  <2>1. /\ UNCHANGED <<contexts, recorded>>
        /\ phase' \notin {"opening", "profiling"}
    BY <1>4 DEF Kill, Exit, StoreBeyond, history
  <2> QED
    BY <2>1 DEF Entries, Nesting, WellNested
<1>5. CASE HookStep(t) /\ ~StoreBeyond(t)
  <2>1. Running /\ (Quiet(t) \/ StorePacket(t))
    BY <1>5 DEF HookStep, Quiet
  <2> QED
    BY <1>1, <2>1, QuietNest, StoreNest
<1>6. CASE Signal(t) \/ ReturnFromHandler(t)
  BY <1>1, <1>6, SignalNest, ReturnFromHandlerNest
<1>7. CASE ReturnFromFunction(t) \/ CallAllocator(t) \/ \E f \in Functions : CallFunction(t, f)
  BY <1>1, <1>7, CallsNest
<1> QED
  BY <1>2, <1>3, <1>4, <1>5, <1>6, <1>7 DEF Next, HookStep

LEMMA InitNestInv ==
  ASSUME Init, NEW t \in Threads
  PROVE  NestInv(t)
<1>1. contexts[t] = <<NewContext>> /\ phase = "opening" /\ recorded = <<>>
  BY DEF Init
<1>2. \A i \in 1 .. Len(contexts[t]) : ~Pending(contexts[t][i].hook)
  BY <1>1 DEF NewContext, Pending
<1> QED
  BY <1>1, <1>2 DEF NestInv, Entries, Nesting, WellNested

(* The trace of a program with one thread is what its reader takes for     *)
(* granted: every exit leaves the function entered last, whatever handlers *)
(* interrupted the hooks, and the times ascend.                            *)
THEOREM SpecTraceReadable ==
  ASSUME NEW t, Threads = {t}
  PROVE  Spec => []TraceReadable
<1>1. Init => NestInv(t)
  BY InitNestInv
<1>2. TypeInv /\ ThreadInv(t) /\ NestInv(t) /\ [Next]_vars => NestInv(t)'
  BY NextNestInv
<1>3. ThreadInv(t) /\ NestInv(t) => TraceReadable
  BY DEF ThreadInv, NestInv, TraceReadable
<1> QED
  BY <1>1, <1>2, <1>3, SpecTypes, SpecThreadInv, PTL DEF Spec

=============================================================================
