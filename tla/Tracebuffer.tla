---------------------------- MODULE Tracebuffer ----------------------------
(***************************************************************************)
(* The writing half of common/tracebuffer.c: an array of BUFSIZE packets   *)
(* and the file it is flushed to.  A packet is whatever the hooks put into *)
(* it.  The file is what has been handed to fwrite: a header that names    *)
(* how many object files follow, those object files, and the packets.      *)
(*                                                                         *)
(* Slots count from zero as in the code, so index = BUFSIZE is one past    *)
(* the end of tracebuffer_buffer.                                          *)
(***************************************************************************)
EXTENDS Integers, Sequences

CONSTANT BUFSIZE   (* 1024 in the code *)

ASSUME BUFSIZEAssumption == BUFSIZE \in Nat \ {0}

VARIABLES
  tracebuffer_buffer,   (* a function from 0 .. BUFSIZE - 1, or less of it *)
  tracebuffer_index,
  header_count,         (* the count in the header of the file             *)
  entries,              (* how many object files the header lists          *)
  packets,              (* the packets in the file                         *)
  failed                (* history: an fwrite has come up short            *)

buffervars == <<tracebuffer_buffer, tracebuffer_index>>
filevars   == <<header_count, entries, packets>>

TracebufferInit ==
  /\ tracebuffer_buffer = [slot \in {} |-> 0]
  /\ tracebuffer_index = 0
  /\ header_count = 0
  /\ entries = 0
  /\ packets = <<>>
  /\ failed = FALSE

(* The first n packets of the array, in order.                             *)
Buffered(n) == [k \in 1 .. n |-> tracebuffer_buffer[k - 1]]

-----------------------------------------------------------------------------
tracebuffer_append_header ==
  /\ entries' = entries + 1
  /\ UNCHANGED <<header_count, packets, failed, buffervars>>

(* The count, zero until now, is filled in last.                           *)
tracebuffer_finish_header ==
  /\ header_count' = entries
  /\ UNCHANGED <<entries, packets, failed, buffervars>>

(* tracebuffer_append, first half: the packet goes into a slot read from   *)
(* tracebuffer_index before, whatever the index is by now.                 *)
StoreTwice(slot, p) ==
  /\ slot < BUFSIZE
  /\ tracebuffer_buffer' =
       [s \in DOMAIN tracebuffer_buffer \cup {slot} |->
          IF s = slot THEN p ELSE tracebuffer_buffer[s]]
  /\ tracebuffer_index' = slot + 2
  /\ UNCHANGED <<filevars, failed>>

Store(slot, p) ==
  /\ slot < BUFSIZE
  /\ tracebuffer_buffer' =
       [s \in DOMAIN tracebuffer_buffer \cup {slot} |->
          IF s = slot THEN p ELSE tracebuffer_buffer[s]]
  /\ tracebuffer_index' = slot + 1
  /\ UNCHANGED <<filevars, failed>>

(* tracebuffer_flush: everything is written and the index starts over, or  *)
(* fwrite stops after n packets and the index stays where it is.           *)
FlushDoneNoReset ==
  /\ packets' = packets \o Buffered(tracebuffer_index)
  /\ UNCHANGED <<tracebuffer_buffer, tracebuffer_index, header_count, entries, failed>>

FlushDone ==
  /\ packets' = packets \o Buffered(tracebuffer_index)
  /\ tracebuffer_index' = 0
  /\ UNCHANGED <<tracebuffer_buffer, header_count, entries, failed>>

FlushFailed(n) ==
  /\ n < tracebuffer_index
  /\ packets' = packets \o Buffered(n)
  /\ failed' = TRUE
  /\ UNCHANGED <<buffervars, header_count, entries>>

(* tracebuffer_close asks for a flush when there is something to flush,    *)
(* and does not look at what the flush returns.                            *)
CloseWithoutFlush == UNCHANGED <<filevars, failed, buffervars>>

tracebuffer_close ==
  \/ tracebuffer_index = 0 /\ UNCHANGED <<filevars, failed, buffervars>>
  \/ tracebuffer_index > 0 /\ FlushDone
  \/ \E n \in 0 .. tracebuffer_index - 1 : FlushFailed(n)

(* A process killed leaves in the file what has reached the disk by then:  *)
(* some first part of what was handed to fwrite.                           *)
Truncate(n) ==
  /\ packets' = SubSeq(packets, 1, n)
  /\ UNCHANGED <<header_count, entries, failed, buffervars>>

=============================================================================
