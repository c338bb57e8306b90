------------------------------ MODULE Session ------------------------------
(***************************************************************************)
(* A session with graprof (graprof/graprof.c): it runs the profilee, waits *)
(* for it, and reads the trace it finds under the name GRAPROF_OUT with    *)
(* the reading half of common/tracebuffer.c, packet by packet into the     *)
(* handlers of graprof/trace.c.  The profilee may be killed, may fail to   *)
(* start or to open its trace, and may start other instrumented programs,  *)
(* which inherit the name and may outlive it.                              *)
(*                                                                         *)
(* A file is a sequence of cells: the magic number, the count, one entry   *)
(* for each object file, the packets.  Every fopen begins a file, known by *)
(* the process that called it: where the name led to a file, that one has  *)
(* been truncated, and whoever was writing to it writes to the new one.    *)
(* The file that has the name is followed as long as one process writes to *)
(* it.  A hook is one step here, which module Libgraprof justifies, and    *)
(* every fwrite succeeds.                                                  *)
(***************************************************************************)
EXTENDS Integers, SequencesExt

CONSTANTS
  Profilee,
  Others,       (* instrumented programs the profilee may start            *)
  Earlier,      (* the run that left a trace under the same name before    *)
  None,
  ObjectFiles,  (* how many object files each process has, itself included *)
  BUFSIZE,
  MaxPackets    (* bound: the packets each process records                 *)

Process == {Profilee} \cup Others
Inode   == Process \cup {Earlier}

ASSUME ProcessAssumption ==
  Profilee \notin Others /\ Earlier \notin Process /\ None \notin Inode
ASSUME ObjectFilesAssumption == ObjectFiles \in [Process -> Nat \ {0}]
ASSUME BUFSIZEAssumption == BUFSIZE \in Nat \ {0}
ASSUME MaxPacketsAssumption == MaxPackets \in [Process -> Nat]

VARIABLES
  name,         (* the file that GRAPROF_OUT names, or None                *)
  content,      (* of that file, unless several processes write to it      *)
  pc,           (* "absent", "starting", "unlinked", "header", "profiling",
                   "off" (its hooks were never armed), "exited", "left"
                   (exited with the hooks off) or "killed"                 *)
  tracebuffer_file, tracebuffer_header_count, tracebuffer_index,
  recorded,     (* how many packets each process has recorded              *)
  reader,       (* what graprof does: "forking", "waiting", "opening",
                   "mapping", "handling", "profile", "corrupt" or "crashed" *)
  tracebuffer_packets_offset,
  header_file, mapped_file,   (* the files the two passes have read        *)
  packets, i,                 (* what the second pass iterates over        *)
  handled,                    (* what it has passed to the handlers        *)
  ended,                      (* trace_end has run                         *)
  outlived,     (* history: a program still ran when graprof began to read *)
  kept,         (* history: an unlink has left the file where it was       *)
  overwritten   (* history: the mapped file was truncated under its reader *)

history    == <<kept, overwritten>>
filevars   == <<name, content, history>>
openvars   == <<tracebuffer_file, tracebuffer_header_count>>
writervars == <<pc, openvars, tracebuffer_index, recorded>>
readervars == <<reader, tracebuffer_packets_offset, header_file, mapped_file, packets, i,
                handled, ended, outlived>>
vars       == <<filevars, writervars, readervars>>

-----------------------------------------------------------------------------
(* The cells of a file.  One that was cut off is not whole.                *)
Cell(kind, of, num) == [kind |-> kind, of |-> of, num |-> num, whole |-> TRUE]

Magic        == Cell("magic", None, 0)
Count(n)     == Cell("count", None, n)
Entry(p)     == Cell("entry", p, 0)
Packet(p, k) == Cell("packet", p, k)

Trace(p, n) == [k \in 1 .. n |-> Packet(p, k)]

Buffered(p) == SubSeq(Trace(p, recorded[p]), recorded[p] - tracebuffer_index[p] + 1, recorded[p])

Sharers(f) == {p \in Process : tracebuffer_file[p] = f}
Shared(f)  == \E p \in Sharers(f) : p # f

Followed(p) == tracebuffer_file[p] # None /\ tracebuffer_file[p] = name /\ ~Shared(name)

Written(p, cells) == IF Followed(p) THEN content \o cells ELSE content

Init ==
  /\ name \in {Earlier, None}
  /\ content = IF name = Earlier
               THEN <<Magic, Count(1), Entry(Earlier), Packet(Earlier, 1)>> ELSE <<>>
  /\ pc = [p \in Process |-> "absent"]
  /\ tracebuffer_file = [p \in Process |-> None]
  /\ tracebuffer_header_count = [p \in Process |-> 0]
  /\ tracebuffer_index = [p \in Process |-> 0]
  /\ recorded = [p \in Process |-> 0]
  /\ reader = "forking"
  /\ tracebuffer_packets_offset = 0
  /\ header_file = None /\ mapped_file = None
  /\ packets = <<>> /\ i = 0
  /\ handled = <<>>
  /\ ended = FALSE
  /\ outlived = FALSE /\ kept = FALSE /\ overwritten = FALSE

-----------------------------------------------------------------------------
(* The instrumented processes.                                             *)
Step(p, from, to) == pc[p] = from /\ pc' = [pc EXCEPT ![p] = to]

Gone(p) == pc[p] \in {"exited", "left", "killed"}

(* tracebuffer_openw takes the old file out of the way before it makes its *)
(* own, so that another process may go on writing to it; nobody looks at   *)
(* whether that worked.                                                    *)
NoUnlink(p) ==
  /\ Step(p, "starting", "unlinked")
  /\ UNCHANGED <<filevars, openvars, tracebuffer_index, recorded, readervars>>

Unlink(p) ==
  /\ Step(p, "starting", "unlinked")
  /\ name' \in {name, None}
  /\ content' = IF name' = None THEN <<>> ELSE content
  /\ kept' = (kept \/ name' # None)
  /\ UNCHANGED <<overwritten, openvars, tracebuffer_index, recorded, readervars>>

(* Whatever has the name by now is truncated.                              *)
Open(p) ==
  /\ Step(p, "unlinked", "header")
  /\ name' = p
  /\ content' = <<Magic, Count(0)>>
  /\ tracebuffer_file' = [q \in Process |->
       IF q = p \/ (name # None /\ q \in Sharers(name) /\ ~Gone(q)) THEN p
       ELSE tracebuffer_file[q]]
  /\ overwritten' = (overwritten \/ (name # None /\ name = mapped_file))
  /\ UNCHANGED <<kept, tracebuffer_header_count, tracebuffer_index, recorded, readervars>>

OpenFails(p) ==
  /\ Step(p, "unlinked", "off")
  /\ UNCHANGED <<filevars, openvars, tracebuffer_index, recorded, readervars>>

AppendHeader(p) ==
  /\ Step(p, "header", "header")
  /\ tracebuffer_header_count[p] < ObjectFiles[p]
  /\ tracebuffer_header_count' = [tracebuffer_header_count EXCEPT ![p] = @ + 1]
  /\ content' = Written(p, <<Entry(p)>>)
  /\ UNCHANGED <<name, history, tracebuffer_file, tracebuffer_index, recorded, readervars>>

FinishHeader(p) ==
  /\ Step(p, "header", "profiling")
  /\ tracebuffer_header_count[p] = ObjectFiles[p]
  /\ content' = IF Followed(p) THEN [content EXCEPT ![2] = Count(tracebuffer_header_count[p])]
                ELSE content
  /\ UNCHANGED <<name, history, openvars, tracebuffer_index, recorded, readervars>>

(* An object file that cannot be read for its digest, for example.         *)
HeaderFails(p) ==
  /\ Step(p, "header", "off")
  /\ UNCHANGED <<filevars, openvars, tracebuffer_index, recorded, readervars>>

(* A hook records a packet, and a full buffer is written.                  *)
FullLate(p) == tracebuffer_index[p] = BUFSIZE
Full(p) == tracebuffer_index[p] + 1 = BUFSIZE

Record(p) ==
  /\ Step(p, "profiling", "profiling")
  /\ recorded[p] < MaxPackets[p]
  /\ recorded' = [recorded EXCEPT ![p] = @ + 1]
  /\ \/ /\ ~Full(p)
        /\ tracebuffer_index' = [tracebuffer_index EXCEPT ![p] = @ + 1]
        /\ UNCHANGED content
     \/ /\ Full(p)
        /\ tracebuffer_index' = [tracebuffer_index EXCEPT ![p] = 0]
        /\ content' = Written(p, Append(Buffered(p), Packet(p, recorded'[p])))
  /\ UNCHANGED <<name, history, openvars, readervars>>

(* exit: libgraprof_fini writes the rest if the hooks are on.              *)
ExitUnflushed(p) ==
  /\ Step(p, "profiling", "exited")
  /\ tracebuffer_index' = [tracebuffer_index EXCEPT ![p] = 0]
  /\ UNCHANGED <<filevars, openvars, recorded, readervars>>

Exit(p) ==
  /\ Step(p, "profiling", "exited")
  /\ content' = Written(p, Buffered(p))
  /\ tracebuffer_index' = [tracebuffer_index EXCEPT ![p] = 0]
  /\ UNCHANGED <<name, history, openvars, recorded, readervars>>

(* They are off as well in a handler that has interrupted a hook: the rest *)
(* is lost if the process exits there.                                     *)
Leave(p) ==
  /\ Step(p, "off", "left") \/ Step(p, "profiling", "left")
  /\ UNCHANGED <<filevars, openvars, tracebuffer_index, recorded, readervars>>

(* What is on the disk of a file still being written: any first part of    *)
(* it, its last cell whole or not; the header is whole once it is counted. *)
OnDisk ==
  LET sure == IF Len(content) >= 2 /\ content[2].num > 0 THEN 2 + content[2].num ELSE 0
      cut(n) == SubSeq(content, 1, n)
  IN  {cut(n) : n \in sure .. Len(content)} \cup
      {[cut(n) EXCEPT ![n].whole = FALSE] : n \in sure + 1 .. Len(content)}

Kill(p) ==
  /\ pc[p] # "absent" /\ ~Gone(p)
  /\ pc' = [pc EXCEPT ![p] = "killed"]
  /\ content' \in IF Followed(p) THEN OnDisk ELSE {content}
  /\ UNCHANGED <<name, history, openvars, tracebuffer_index, recorded, readervars>>

StartOther(p) ==
  /\ pc[Profilee] \in {"profiling", "off"}
  /\ Step(p, "absent", "starting")
  /\ UNCHANGED <<filevars, openvars, tracebuffer_index, recorded, readervars>>

-----------------------------------------------------------------------------
(* graprof: main up to trace_read.                                         *)
Go(from, to) == reader = from /\ reader' = to

Fork ==
  /\ Go("forking", "waiting")
  /\ pc' = [pc EXCEPT ![Profilee] = "starting"]
  /\ UNCHANGED <<filevars, openvars, tracebuffer_index, recorded, outlived,
                 tracebuffer_packets_offset, header_file, mapped_file, packets, i, handled, ended>>

(* A trace is given with -t, or the child exits because there is nothing   *)
(* to execute, or what it executes is not instrumented.                    *)
NothingTraced ==
  /\ Go("forking", "opening")
  /\ UNCHANGED <<filevars, writervars, outlived,
                 tracebuffer_packets_offset, header_file, mapped_file, packets, i, handled, ended>>

WaitedTooShort == TRUE
Waited == Gone(Profilee)

WaitForChild ==
  /\ Go("waiting", "opening")
  /\ Waited
  /\ outlived' = \E p \in Others : pc[p] # "absent" /\ ~Gone(p)
  /\ UNCHANGED <<filevars, writervars,
                 tracebuffer_packets_offset, header_file, mapped_file, packets, i, handled, ended>>

(* What a reader of the file may find in it.                               *)
Views == IF \E p \in Sharers(name) : ~Gone(p) THEN OnDisk ELSE {content}

(* tracebuffer_iterate_header: every cell it reads has to be there, and    *)
(* the object files have to be readable still.                             *)
HeaderOf(v) == IF Len(v) >= 2 /\ v[2].whole THEN 2 + v[2].num ELSE 2

HasHeader(v) ==
  /\ Len(v) >= HeaderOf(v)
  /\ \A k \in 1 .. HeaderOf(v) : v[k].whole

(* A header several processes have written may be read as any of theirs.   *)
ReadHeader ==
  /\ Go("opening", "mapping")
  /\ name # None
  /\ \/ /\ ~Shared(name)
        /\ \E v \in Views :
             HasHeader(v) /\ tracebuffer_packets_offset' = HeaderOf(v)
     \/ /\ Shared(name)
        /\ tracebuffer_packets_offset' \in {2} \cup {2 + ObjectFiles[p] : p \in Sharers(name)}
  /\ header_file' = name
  /\ UNCHANGED <<filevars, writervars, mapped_file, packets, i, handled, ended, outlived>>

Corrupt ==
  /\ Go("opening", "corrupt") \/ Go("mapping", "corrupt")
  /\ UNCHANGED <<filevars, writervars, outlived,
                 tracebuffer_packets_offset, header_file, mapped_file, packets, i, handled, ended>>

(* The last cell may be cut off.                                           *)
WholeCells(cells) ==
  IF cells # <<>> /\ ~Last(cells).whole THEN Front(cells) ELSE cells

(* What is behind the offset, as packets.  The first entry of a header has *)
(* the offset of the program itself, zero, where a packet has its type; it *)
(* may be too short to make a packet.  Behind another header, and in a     *)
(* file that several processes write, the packets are out of step.         *)
NoPacket == Cell("none", None, 0)
Garbage  == Cell("packet", None, 0)

Scrambled == {<<>>, <<NoPacket>>, <<Garbage>>}

PacketsIn(v, offset) ==
  LET rest == SubSeq(v, offset + 1, Len(v))
  IN  IF rest # <<>> /\ Head(rest).kind = "entry"
      THEN {<<NoPacket>>} \cup (IF Len(rest) = 1 THEN {<<>>} ELSE {})
      ELSE {WholeCells(rest)}

(* tracebuffer_iterate_packet opens the name once more; a file that is     *)
(* still the same one has not become shorter.                              *)
MapPackets ==
  /\ Go("mapping", "handling")
  /\ name # None
  /\ mapped_file' = name
  /\ \/ /\ ~Shared(name)
        /\ \E v \in Views :
             /\ Len(v) >= tracebuffer_packets_offset
             /\ packets' \in PacketsIn(v, tracebuffer_packets_offset)
     \/ /\ Shared(name) \/ name # header_file
        /\ packets' \in Scrambled
  /\ UNCHANGED <<filevars, writervars, tracebuffer_packets_offset, header_file, i, handled,
                 ended, outlived>>

(* In another file the offset may lie behind the end, and the length wraps *)
(* below zero: packets are read from behind the mapping.  Those of a file  *)
(* that is truncated meanwhile are gone, or whatever is written there now. *)
Overrun ==
  /\ \/ /\ Go("mapping", "crashed")
        /\ name \notin {None, header_file}
        /\ \E v \in Views : v # <<>> /\ Len(v) < tracebuffer_packets_offset
        /\ mapped_file' = name
     \/ Go("handling", "crashed") /\ overwritten /\ i < Len(packets) /\ UNCHANGED mapped_file
  /\ UNCHANGED <<filevars, writervars, outlived,
                 tracebuffer_packets_offset, header_file, packets, i, handled, ended>>

Read(k) == IF overwritten THEN {packets[k], NoPacket, Garbage} ELSE {packets[k]}

(* trace_handle_packet; the last packet is also the end of the trace.      *)
IsLast(k) == k = Len(packets) - 1

HandlePacket ==
  /\ reader = "handling"
  /\ i < Len(packets)
  /\ \E c \in Read(i + 1) : c.kind = "packet" /\ handled' = Append(handled, c)
  /\ ended' = IsLast(i)
  /\ i' = i + 1
  /\ UNCHANGED <<filevars, writervars, reader, tracebuffer_packets_offset, header_file,
                 mapped_file, packets, outlived>>

UnknownType ==
  /\ Go("handling", "corrupt")
  /\ i < Len(packets)
  /\ \E c \in Read(i + 1) : c.kind # "packet"
  /\ UNCHANGED <<filevars, writervars, outlived,
                 tracebuffer_packets_offset, header_file, mapped_file, packets, i, handled, ended>>

Finish ==
  /\ Go("handling", "profile")
  /\ i = Len(packets)
  /\ UNCHANGED <<filevars, writervars, outlived,
                 tracebuffer_packets_offset, header_file, mapped_file, packets, i, handled, ended>>

Next ==
  \/ Fork \/ NothingTraced \/ WaitForChild \/ ReadHeader \/ Corrupt
  \/ MapPackets \/ Overrun \/ HandlePacket \/ UnknownType \/ Finish
  \/ \E p \in Process :
       \/ Unlink(p) \/ Open(p) \/ OpenFails(p) \/ AppendHeader(p) \/ FinishHeader(p) \/ HeaderFails(p)
       \/ Record(p) \/ Exit(p) \/ Leave(p) \/ Kill(p)
  \/ \E p \in Others : StartOther(p)

Spec == Init /\ [][Next]_vars

-----------------------------------------------------------------------------
AnyCell ==
  [kind : {"magic", "count", "entry", "packet", "none"}, of : Inode \cup {None}, num : Nat,
   whole : BOOLEAN]

(* Types; the offset of the packets lies behind the header it was read     *)
(* from.                                                                   *)
TypeOK ==
  /\ name \in Inode \cup {None}
  /\ content \in Seq(AnyCell)
  /\ pc \in [Process -> {"absent", "starting", "unlinked", "header", "profiling", "off",
                         "exited", "left", "killed"}]
  /\ tracebuffer_file \in [Process -> Inode \cup {None}]
  /\ tracebuffer_header_count \in [Process -> Nat]
  /\ tracebuffer_index \in [Process -> 0 .. BUFSIZE - 1]
  /\ recorded \in [Process -> Nat]
  /\ reader \in {"forking", "waiting", "opening", "mapping", "handling", "profile", "corrupt",
                "crashed"}
  /\ tracebuffer_packets_offset \in Nat
  /\ header_file \in Inode \cup {None} /\ mapped_file \in Inode \cup {None}
  /\ packets \in Seq(AnyCell) /\ handled \in Seq(AnyCell)
  /\ i \in 0 .. Len(packets)
  /\ ended \in BOOLEAN /\ outlived \in BOOLEAN /\ kept \in BOOLEAN /\ overwritten \in BOOLEAN

Mixed   == header_file # mapped_file
Spoiled == Mixed \/ overwritten

(* A profile is made of the beginning of what one process has recorded:    *)
(* no header, no packet of another process, none that was cut off, and     *)
(* none left out, wherever a process was killed and whatever others did to *)
(* the name meanwhile.  Programs that the profilee starts at the same time *)
(* may come to write one file, but its own is never among those unless it  *)
(* could not be removed.  And only a program that has outlived the         *)
(* profilee can replace or truncate the file under the reader, or make it  *)
(* read behind the end.                                                    *)
OneTrace ==
  /\ reader = "profile" =>
       IF Spoiled THEN outlived
       ELSE IF Shared(mapped_file) THEN kept \/ Profilee \notin Sharers(mapped_file)
       ELSE handled = Trace(mapped_file, Len(handled))
  /\ reader = "crashed" => outlived

(* An earlier run is presented only if the profilee has not opened a trace *)
(* of its own and is not going to.                                         *)
EarlierOnlyIfUntraced ==
  reader = "profile" /\ header_file = Earlier =>
    /\ tracebuffer_file[Profilee] = None
    /\ pc[Profilee] \in {"absent", "left", "killed"}

(* A profilee that exits gets all it has recorded into its profile; and    *)
(* the times are aggregated exactly when the last packet was handled, and  *)
(* not at all if there is none.                                            *)
CompleteIfExited ==
  /\ reader = "profile" /\ ~Spoiled /\ mapped_file = Profilee /\ pc[Profilee] = "exited" =>
       Len(handled) = recorded[Profilee]
  /\ ended <=> packets # <<>> /\ i = Len(packets)

=============================================================================
