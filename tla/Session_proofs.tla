--------------------------- MODULE Session_proofs ---------------------------
(***************************************************************************)
(* Theorems about a session of graprof, for any number of programs, object *)
(* files, packets and any size of the buffer: what is presented is the     *)
(* beginning of what one process has recorded, all of it if that process   *)
(* has exited, and never an older trace in place of a newer one.           *)
(***************************************************************************)
EXTENDS Session, SequenceTheorems, TLAPS

(* What stands in place k of a file whose header says n object files.      *)
Objects(f) == IF f = Earlier THEN 1 ELSE ObjectFiles[f]

CellAt(f, n, k) ==
  IF k = 1 THEN Magic
  ELSE IF k = 2 THEN Count(n)
  ELSE IF k <= 2 + Objects(f) THEN Entry(f)
  ELSE Packet(f, k - 2 - Objects(f))

CutCell(c) == [kind |-> c.kind, of |-> c.of, num |-> c.num, whole |-> FALSE]

(* As long as a header says no object files it is not complete; once it    *)
(* says how many there are it stays whole.                                 *)
Lengths(f, n, v) == IF n = 0 THEN Len(v) <= 2 + Objects(f) ELSE Len(v) >= 2 + Objects(f)

(* A file of process f, and one that was cut off.                          *)
File(f, n, v) ==
  /\ v \in Seq(AnyCell)
  /\ n \in {0, Objects(f)}
  /\ Lengths(f, n, v)
  /\ \A k \in 1 .. Len(v) : v[k] = CellAt(f, n, k)

CutFile(f, n, v) ==
  /\ v \in Seq(AnyCell)
  /\ n \in {0, Objects(f)}
  /\ Lengths(f, n, v)
  /\ \A k \in 1 .. Len(v) :
       \/ v[k] = CellAt(f, n, k)
       \/ /\ k = Len(v)
          /\ n # 0 => k > 2 + Objects(f)
          /\ v[k] = CutCell(CellAt(f, n, k))

-----------------------------------------------------------------------------
(* What each process has done: it has opened a file once it is past the    *)
(* fopen, and nobody has a file or knows a name of its before.             *)
Opened(p) == tracebuffer_file[p] # None

Unopened == {"absent", "starting", "unlinked"}

Writer(p) ==
  /\ tracebuffer_file[p] \in Process \cup {None}
  /\ tracebuffer_file[p] \in Process => Opened(tracebuffer_file[p])
  /\ pc[p] \in {"header", "profiling", "exited"} => Opened(p)
  /\ pc[p] \in Unopened => ~Opened(p) /\ name # p /\ tracebuffer_header_count[p] = 0
  /\ pc[p] \in Unopened \cup {"header"} => recorded[p] = 0
  /\ tracebuffer_index[p] <= recorded[p]
  /\ pc[p] = "exited" => tracebuffer_index[p] = 0

(* What the file under the name holds if it is of p alone.                 *)
Held(p) ==
  Followed(p) =>
    /\ pc[p] = "header" =>
         /\ File(p, 0, content)
         /\ Len(content) = 2 + tracebuffer_header_count[p]
    /\ pc[p] = "off" => File(p, 0, content)
    /\ pc[p] \in {"profiling", "exited"} =>
         /\ File(p, Objects(p), content)
         /\ Len(content) = 2 + Objects(p) + recorded[p] - tracebuffer_index[p]
    /\ \E n \in {0, Objects(p)} : CutFile(p, n, content)

(* The name leads to a file somebody has made, and to the earlier one only *)
(* as long as nobody has.                                                  *)
Named ==
  /\ name \in Process => tracebuffer_file[name] = name
  /\ name = Earlier => /\ \A p \in Process : ~Opened(p)
                       /\ File(Earlier, 1, content)

Files == Named /\ \A p \in Process : Writer(p) /\ Held(p)

(* No program writes to the file the profilee has begun, since none runs   *)
(* before that; and the profilee writes to no other one as long as those   *)
(* programs find its name free.                                            *)
Private ==
  /\ pc[Profilee] \in Unopened \cup {"header"} => \A q \in Others : pc[q] = "absent"
  /\ \A q \in Others : tracebuffer_file[q] # Profilee
  /\ ~kept => /\ tracebuffer_file[Profilee] \in {None, Profilee}
              /\ \A q \in Others : pc[q] = "unlinked" => name # Profilee

(* Once graprof has waited, the profilee does nothing any more.            *)
Reading == reader \notin {"forking", "waiting"}

Alone ==
  /\ reader = "forking" => \A p \in Process : pc[p] = "absent"
  /\ Reading => /\ pc[Profilee] \in {"absent", "exited", "left", "killed"}
                /\ outlived \/ \A p \in Others : pc[p] = "absent" \/ Gone(p)

(* The files the two passes have read are files that somebody has made.    *)
Made(f) == f # None /\ (f \in Process => Opened(f))

HeaderRead ==
  /\ reader \in {"mapping", "handling", "profile"} =>
       /\ Made(header_file)
       /\ header_file = Earlier => ~Opened(Profilee)
  /\ reader \in {"handling", "profile"} => Made(mapped_file)

(* What the first pass has found, if the second one finds the same file.   *)
HeaderComplete == CutFile(header_file, Objects(header_file), content)

Mapping ==
  reader = "mapping" =>
    /\ name = header_file \/ outlived
    /\ name = header_file /\ ~Shared(name) =>
         /\ \/ tracebuffer_packets_offset = 2
            \/ HeaderComplete /\ tracebuffer_packets_offset = 2 + Objects(header_file)
         /\ header_file = Profilee /\ pc[Profilee] = "exited" =>
              tracebuffer_packets_offset = 2 + Objects(Profilee)

(* What the second pass has found, as far as it is one process's.          *)
Handling ==
  /\ reader \in {"handling", "profile"} =>
       IF Spoiled THEN outlived
       ELSE /\ \/ Shared(mapped_file)
               \/ packets = <<NoPacket>>
               \/ \A k \in 1 .. Len(packets) : packets[k] = Packet(mapped_file, k)
            /\ mapped_file = Profilee /\ pc[Profilee] = "exited" =>
                 Len(packets) = recorded[Profilee] /\ packets # <<NoPacket>>
  /\ reader = "crashed" => outlived
  /\ Len(handled) = i
  /\ ~overwritten => \A k \in 1 .. i : handled[k] = packets[k] /\ packets[k].kind = "packet"
  /\ reader = "profile" => i = Len(packets)
  /\ reader \in {"forking", "waiting", "opening", "mapping"} =>
       packets = <<>> /\ i = 0 /\ ended = FALSE /\ mapped_file = None /\ overwritten = FALSE
  /\ ended <=> packets # <<>> /\ i = Len(packets)

Inv == TypeOK /\ Files /\ Private /\ Alone /\ HeaderRead /\ Mapping /\ Handling

-----------------------------------------------------------------------------
(* Cells.                                                                  *)
LEMMA ObjectsType == \A f \in Inode : Objects(f) \in Nat \ {0}
BY ProcessAssumption, ObjectFilesAssumption DEF Objects, Inode

LEMMA CellTypes ==
  ASSUME NEW f \in Inode, NEW n \in Nat, NEW k \in Nat \ {0}
  PROVE  /\ CellAt(f, n, k) \in AnyCell
         /\ CutCell(CellAt(f, n, k)) \in AnyCell
         /\ CutCell(CellAt(f, n, k)).kind = CellAt(f, n, k).kind
         /\ CutCell(CellAt(f, n, k)).num = CellAt(f, n, k).num
         /\ CutCell(CellAt(f, n, k)).whole = FALSE
         /\ CellAt(f, n, k).whole = TRUE
<1>1. Objects(f) \in Nat \ {0}
  BY ObjectsType
<1>2. CASE k <= 2 + Objects(f)
  BY <1>1, <1>2 DEF CellAt, CutCell, AnyCell, Magic, Count, Entry, Packet, Cell
<1>3. CASE ~(k <= 2 + Objects(f))
  <2>1. k - 2 - Objects(f) \in Nat
    BY <1>1, <1>3
  <2> QED
    BY <1>1, <1>3, <2>1 DEF CellAt, CutCell, AnyCell, Magic, Count, Entry, Packet, Cell
<1> QED
  BY <1>2, <1>3

LEMMA CutRecord ==
  ASSUME NEW c, NEW w, c = [kind |-> c.kind, of |-> c.of, num |-> c.num, whole |-> c.whole]
  PROVE  [c EXCEPT !.whole = w] = [kind |-> c.kind, of |-> c.of, num |-> c.num, whole |-> w]
OBVIOUS

LEMMA CutCellIs ==
  ASSUME NEW c \in AnyCell
  PROVE  [c EXCEPT !.whole = FALSE] = CutCell(c)
<1>1. c = [kind |-> c.kind, of |-> c.of, num |-> c.num, whole |-> c.whole]
  BY DEF AnyCell
<1> QED
  BY <1>1, CutRecord DEF CutCell

LEMMA FileIsCut ==
  ASSUME NEW f, NEW n, NEW v, File(f, n, v)
  PROVE  CutFile(f, n, v)
BY DEF File, CutFile

(* The fields of a cell of a file.                                         *)
LEMMA CutFacts ==
  ASSUME NEW f \in Inode, NEW n, NEW v, CutFile(f, n, v)
  PROVE  /\ n \in Nat /\ n \in {0, Objects(f)} /\ Objects(f) \in Nat \ {0}
         /\ Len(v) \in Nat
         /\ \A k \in 1 .. Len(v) :
              /\ v[k] \in AnyCell
              /\ v[k].kind = CellAt(f, n, k).kind
              /\ v[k].num = CellAt(f, n, k).num
              /\ k < Len(v) => v[k] = CellAt(f, n, k)
              /\ v[k].whole => v[k] = CellAt(f, n, k)
              /\ v[k] = CellAt(f, n, k) => v[k].whole
         /\ n # 0 => /\ Len(v) >= 2 + Objects(f)
                     /\ \A k \in 1 .. 2 + Objects(f) : v[k] = CellAt(f, n, k)
         /\ n = 0 => Len(v) <= 2 + Objects(f)
<1>1. /\ n \in Nat /\ n \in {0, Objects(f)} /\ Objects(f) \in Nat \ {0} /\ Len(v) \in Nat
      /\ v \in Seq(AnyCell) /\ Lengths(f, n, v)
  BY ObjectsType DEF CutFile
<1>2. ASSUME NEW k \in 1 .. Len(v)
      PROVE  /\ v[k] \in AnyCell
             /\ v[k].kind = CellAt(f, n, k).kind
             /\ v[k].num = CellAt(f, n, k).num
             /\ k < Len(v) => v[k] = CellAt(f, n, k)
             /\ v[k].whole => v[k] = CellAt(f, n, k)
             /\ v[k] = CellAt(f, n, k) => v[k].whole
             /\ n # 0 /\ k <= 2 + Objects(f) => v[k] = CellAt(f, n, k)
  <2>1. k \in Nat \ {0}
    BY <1>1
  <2>2. /\ CellAt(f, n, k) \in AnyCell
        /\ CutCell(CellAt(f, n, k)) \in AnyCell
        /\ CutCell(CellAt(f, n, k)).kind = CellAt(f, n, k).kind
        /\ CutCell(CellAt(f, n, k)).num = CellAt(f, n, k).num
        /\ CutCell(CellAt(f, n, k)).whole = FALSE
        /\ CellAt(f, n, k).whole = TRUE
    BY <1>1, <2>1, CellTypes
  <2>3. \/ v[k] = CellAt(f, n, k)
        \/ /\ k = Len(v)
           /\ n # 0 => k > 2 + Objects(f)
           /\ v[k] = CutCell(CellAt(f, n, k))
    BY DEF CutFile
  <2>4. CASE v[k] = CellAt(f, n, k)
    BY <2>2, <2>4
  <2>5. CASE k = Len(v) /\ (n # 0 => k > 2 + Objects(f)) /\ v[k] = CutCell(CellAt(f, n, k))
    BY <1>1, <2>2, <2>5
  <2> QED
    BY <2>3, <2>4, <2>5
<1>3. n # 0 => Len(v) >= 2 + Objects(f)
  BY <1>1 DEF Lengths
<1>4. n = 0 => Len(v) <= 2 + Objects(f)
  BY <1>1 DEF Lengths
<1>5. n # 0 => \A k \in 1 .. 2 + Objects(f) : v[k] = CellAt(f, n, k)
  <2> SUFFICES ASSUME n # 0, NEW k \in 1 .. 2 + Objects(f) PROVE v[k] = CellAt(f, n, k)
    OBVIOUS
  <2>1. k \in 1 .. Len(v) /\ k <= 2 + Objects(f)
    BY <1>1, <1>3
  <2> QED
    BY <1>2, <2>1
<1> QED
  BY <1>1, <1>2, <1>3, <1>4, <1>5

(* A header says one number.                                               *)
LEMMA OneCount ==
  ASSUME NEW f \in Inode, NEW v, NEW n, CutFile(f, n, v), CutFile(f, Objects(f), v)
  PROVE  n = Objects(f)
<1>1. Objects(f) \in Nat \ {0} /\ Len(v) >= 2 + Objects(f) /\ Len(v) \in Nat
  BY CutFacts
<1>2. 2 \in 1 .. Len(v)
  BY <1>1
<1>3. v[2].num = CellAt(f, n, 2).num /\ v[2].num = CellAt(f, Objects(f), 2).num
  BY <1>2, CutFacts
<1> QED
  BY <1>3 DEF CellAt, Count, Cell

-----------------------------------------------------------------------------
(* What is found of a file that is still being written is the same file,   *)
(* cut off behind a complete header or anywhere before it is complete.     *)
LEMMA CutSomewhere ==
  ASSUME NEW f \in Inode, NEW n, File(f, n, content),
         NEW m \in 0 .. Len(content), n # 0 => m >= 2 + Objects(f)
  PROVE  CutFile(f, n, SubSeq(content, 1, m))
<1> DEFINE c == content
           v == SubSeq(c, 1, m)
<1>1. /\ c \in Seq(AnyCell) /\ Len(c) \in Nat /\ n \in {0, Objects(f)} /\ n \in Nat
      /\ Objects(f) \in Nat \ {0} /\ Lengths(f, n, c)
      /\ \A k \in 1 .. Len(c) : c[k] = CellAt(f, n, k) /\ c[k] \in AnyCell
  BY ObjectsType DEF File
<1> HIDE DEF c
<1>2. /\ v \in Seq(AnyCell) /\ Len(v) = m
      /\ \A k \in 1 .. m : v[k] = c[k]
  <2>1. \A k \in 1 .. m : c[k] \in AnyCell
    BY <1>1 DEF c
  <2>2. /\ v \in Seq(AnyCell)
        /\ Len(v) = IF 1 <= m THEN m - 1 + 1 ELSE 0
        /\ \A k \in 1 .. m - 1 + 1 : v[k] = c[1 + k - 1]
    BY <2>1, SubSeqProperties
  <2> HIDE DEF v
  <2>3. m \in Nat
    BY <1>1
  <2> QED
    BY <2>2, <2>3
<1> HIDE DEF v
<1>3. Lengths(f, n, v)
  BY <1>1, <1>2 DEF Lengths, c
<1>4. \A k \in 1 .. Len(v) : v[k] = CellAt(f, n, k)
  BY <1>1, <1>2 DEF c
<1> QED
  BY <1>1, <1>2, <1>3, <1>4 DEF CutFile, v, c

LEMMA OnDiskCut ==
  ASSUME NEW f \in Inode, NEW n, File(f, n, content), NEW v \in OnDisk
  PROVE  CutFile(f, n, v)
<1> DEFINE c == content
           sure == IF Len(c) >= 2 /\ c[2].num > 0 THEN 2 + c[2].num ELSE 0
           cut(m) == SubSeq(c, 1, m)
<1>1. /\ c \in Seq(AnyCell) /\ Len(c) \in Nat /\ n \in {0, Objects(f)} /\ n \in Nat
      /\ Objects(f) \in Nat \ {0} /\ Lengths(f, n, c)
      /\ \A k \in 1 .. Len(c) : c[k] = CellAt(f, n, k)
  BY ObjectsType DEF File
<1>2. sure \in Nat /\ (n # 0 => sure = 2 + Objects(f))
  <2>1. CASE n = 0
    <3>1. Len(c) >= 2 => c[2].num = 0
      BY <1>1, <2>1 DEF CellAt, Count, Cell
    <3> QED
      BY <2>1, <3>1
  <2>2. CASE n # 0
    <3>1. Len(c) >= 2 /\ 2 \in 1 .. Len(c) /\ n = Objects(f)
      BY <1>1, <2>2 DEF Lengths
    <3>2. c[2].num = n
      BY <1>1, <3>1 DEF CellAt, Count, Cell
    <3> QED
      BY <1>1, <3>1, <3>2
  <2> QED
    BY <2>1, <2>2
<1>3. \/ \E m \in sure .. Len(c) : v = cut(m)
      \/ \E m \in sure + 1 .. Len(c) : v = [cut(m) EXCEPT ![m].whole = FALSE]
  BY Zenon DEF OnDisk
<1> HIDE DEF sure
<1>4. ASSUME NEW m \in sure .. Len(c) PROVE CutFile(f, n, cut(m))
  <2>1. m \in 0 .. Len(content) /\ (n # 0 => m >= 2 + Objects(f))
    BY <1>1, <1>2
  <2> QED
    BY <2>1, CutSomewhere
<1>5. ASSUME NEW m \in sure + 1 .. Len(c)
      PROVE  CutFile(f, n, [cut(m) EXCEPT ![m].whole = FALSE])
  <2> DEFINE w == cut(m)
             u == [w EXCEPT ![m].whole = FALSE]
  <2>1. m \in 1 .. Len(c) /\ m \in sure .. Len(c) /\ (n # 0 => m > 2 + Objects(f))
    BY <1>1, <1>2
  <2>2. CutFile(f, n, w)
    BY <1>4, <2>1
  <2>3. w \in Seq(AnyCell) /\ Len(w) = m /\ \A k \in 1 .. m : w[k] = CellAt(f, n, k)
    <3>1. \A k \in 1 .. m : c[k] \in AnyCell
      BY <1>1, <2>1
    <3>2. /\ w \in Seq(AnyCell)
          /\ Len(w) = IF 1 <= m THEN m - 1 + 1 ELSE 0
          /\ \A k \in 1 .. m - 1 + 1 : w[k] = c[1 + k - 1]
      BY <1>1, <2>1, <3>1, SubSeqProperties
    <3> HIDE DEF w, c
    <3>3. m \in Nat /\ 1 <= m /\ m - 1 + 1 = m
      BY <2>1
    <3>4. w \in Seq(AnyCell) /\ Len(w) = m
      BY <3>2, <3>3
    <3>5. ASSUME NEW k \in 1 .. m PROVE w[k] = CellAt(f, n, k)
      <4>1. k \in 1 .. m - 1 + 1 /\ 1 + k - 1 = k /\ k \in 1 .. Len(c)
        BY <2>1, <3>3
      <4> QED
        BY <1>1, <3>2, <4>1
    <3> QED
      BY <3>4, <3>5
  <2> HIDE DEF w, c
  <2>4. m \in 1 .. Len(w) /\ m \in Nat \ {0}
    BY <1>1, <2>1, <2>3
  <2>5. CutCell(CellAt(f, n, m)) \in AnyCell /\ CellAt(f, n, m) \in AnyCell
    BY <1>1, <2>4, CellTypes
  <2>6. [w[m] EXCEPT !.whole = FALSE] = CutCell(CellAt(f, n, m))
    <3>1. w[m] = CellAt(f, n, m)
      BY <2>3, <2>4
    <3> QED
      BY <2>5, <3>1, CutCellIs
  <2>7. u = [w EXCEPT ![m] = CutCell(CellAt(f, n, m))]
    BY <2>6
  <2>8. /\ u \in Seq(AnyCell) /\ Len(u) = m
        /\ \A k \in 1 .. m : u[k] = IF k = m THEN CutCell(CellAt(f, n, m)) ELSE w[k]
    <3> DEFINE e == CutCell(CellAt(f, n, m))
    <3>1. e \in AnyCell /\ w \in Seq(AnyCell) /\ m \in 1 .. Len(w)
      BY <2>3, <2>4, <2>5
    <3> HIDE DEF e, u
    <3>2. /\ [w EXCEPT ![m] = e] \in Seq(AnyCell)
          /\ Len([w EXCEPT ![m] = e]) = Len(w)
          /\ \A k \in 1 .. Len(w) : [w EXCEPT ![m] = e][k] = IF k = m THEN e ELSE w[k]
      BY <3>1, ExceptSeq
    <3>3. u = [w EXCEPT ![m] = e] /\ Len(w) = m
      BY <2>3, <2>7 DEF e
    <3> QED
      BY <3>2, <3>3 DEF e
  <2> HIDE DEF u
  <2>9. Lengths(f, n, u)
    BY <2>2, <2>3, <2>8 DEF CutFile, Lengths
  <2>10. CutFile(f, n, u)
    BY <1>1, <2>1, <2>3, <2>8, <2>9 DEF CutFile
  <2> QED
    BY <2>10 DEF u, w
<1> QED
  BY <1>3, <1>4, <1>5

(* A file that nobody is writing is read as it is, another one as it may   *)
(* be on the disk; both say the same number of object files.               *)
LEMMA Owner ==
  ASSUME Files, NEW p \in Process, name = p, ~Shared(name)
  PROVE  Followed(p) /\ Writer(p) /\ Held(p) /\ tracebuffer_file[p] = p /\ Opened(p)
<1>1. tracebuffer_file[p] = p /\ Writer(p) /\ Held(p)
  BY DEF Files, Named
<1>2. p # None
  BY ProcessAssumption DEF Inode
<1> QED
  BY <1>1, <1>2 DEF Followed, Opened

LEMMA ViewsCut ==
  ASSUME Files, name \in Inode, ~Shared(name), NEW v \in Views,
         \A p \in Process : pc[p] \in {"absent", "starting", "unlinked", "header", "profiling",
                                       "off", "exited", "left", "killed"}
  PROVE  /\ \E n : CutFile(name, n, content) /\ CutFile(name, n, v)
         /\ name \in Process /\ Gone(name) => v = content
<1>1. name \in Process =>
        /\ Followed(name) /\ Writer(name) /\ Held(name) /\ tracebuffer_file[name] = name
        /\ Opened(name)
  BY Owner
<1>2. CASE \E p \in Sharers(name) : ~Gone(p)
  <2>1. name \in Process /\ ~Gone(name)
    BY <1>2 DEF Shared, Sharers
  <2>2. pc[name] \in {"header", "profiling", "off"}
    BY <1>1, <2>1 DEF Writer, Gone, Unopened
  <2>3. File(name, 0, content) \/ File(name, Objects(name), content)
    BY <1>1, <2>1, <2>2 DEF Held
  <2>4. v \in OnDisk
    BY <1>2 DEF Views
  <2> QED
    BY <2>1, <2>3, <2>4, OnDiskCut, FileIsCut
<1>3. CASE ~\E p \in Sharers(name) : ~Gone(p)
  <2>1. v = content
    BY <1>3 DEF Views
  <2>2. name \in Process => \E n : CutFile(name, n, content)
    BY <1>1 DEF Held
  <2>3. name = Earlier => CutFile(name, 1, content)
    BY FileIsCut DEF Files, Named
  <2> QED
    BY <2>1, <2>2, <2>3 DEF Inode
<1> QED
  BY <1>2, <1>3

(* Where the packets begin, as the first pass finds it.                    *)
LEMMA HeaderOfCut ==
  ASSUME NEW f \in Inode, NEW n, NEW v, CutFile(f, n, v), HasHeader(v)
  PROVE  HeaderOf(v) = IF n = 0 THEN 2 ELSE 2 + Objects(f)
<1>1. /\ n \in Nat /\ n \in {0, Objects(f)} /\ Len(v) \in Nat
      /\ \A k \in 1 .. Len(v) : v[k].num = CellAt(f, n, k).num
      /\ Objects(f) \in Nat \ {0}
  BY CutFacts
<1>2. CASE Len(v) >= 2
  <2>1. 2 \in 1 .. Len(v)
    BY <1>1, <1>2
  <2>2. v[2].num = n
    BY <1>1, <2>1 DEF CellAt, Count, Cell
  <2>3. HeaderOf(v) \in Nat /\ HeaderOf(v) >= 2
    BY <1>1, <2>2 DEF HeaderOf
  <2>4. v[2].whole
    BY <2>3 DEF HasHeader
  <2> QED
    BY <1>1, <1>2, <2>2, <2>4 DEF HeaderOf
<1>3. CASE ~(Len(v) >= 2)
  <2>1. HeaderOf(v) = 2
    BY <1>3 DEF HeaderOf
  <2> QED
    BY <1>1, <1>3, <2>1 DEF HasHeader
<1> QED
  BY <1>2, <1>3

(* What lies behind an offset.                                             *)
LEMMA RestFacts ==
  ASSUME NEW v \in Seq(AnyCell), NEW offset \in Nat
  PROVE  LET rest == SubSeq(v, offset + 1, Len(v))
         IN  /\ rest \in Seq(AnyCell) /\ Len(rest) \in Nat
             /\ Len(rest) = IF offset <= Len(v) THEN Len(v) - offset ELSE 0
             /\ \A k \in 1 .. Len(rest) : k + offset \in 1 .. Len(v) /\ rest[k] = v[k + offset]
             /\ rest # <<>> <=> Len(rest) # 0
             /\ rest # <<>> => Head(rest) = rest[1]
<1> DEFINE rest == SubSeq(v, offset + 1, Len(v))
<1>1. Len(v) \in Nat /\ \A k \in 1 .. Len(v) : v[k] \in AnyCell
  OBVIOUS
<1>2. \A k \in offset + 1 .. Len(v) : v[k] \in AnyCell
  BY <1>1
<1>3. /\ rest \in Seq(AnyCell)
      /\ Len(rest) = IF offset + 1 <= Len(v) THEN Len(v) - (offset + 1) + 1 ELSE 0
      /\ \A k \in 1 .. Len(v) - (offset + 1) + 1 : rest[k] = v[offset + 1 + k - 1]
  BY <1>1, <1>2, SubSeqProperties
<1> HIDE DEF rest
<1>4. /\ Len(rest) = IF offset <= Len(v) THEN Len(v) - offset ELSE 0
      /\ Len(rest) \in Nat
  BY <1>1, <1>3
<1>5. ASSUME NEW k \in 1 .. Len(rest)
      PROVE  k + offset \in 1 .. Len(v) /\ rest[k] = v[k + offset]
  <2>1. k + offset \in 1 .. Len(v) /\ k \in 1 .. Len(v) - (offset + 1) + 1
        /\ offset + 1 + k - 1 = k + offset
    BY <1>1, <1>4
  <2> QED
    BY <1>3, <2>1
<1>6. rest # <<>> <=> Len(rest) # 0
  BY <1>3
<1>7. rest # <<>> => Head(rest) = rest[1]
  BY <1>3
<1> QED
  BY <1>3, <1>4, <1>5, <1>6, <1>7 DEF rest

(* A cell that was cut off is not taken for a packet.                      *)
LEMMA WholeCellsFacts ==
  ASSUME NEW s \in Seq(AnyCell)
  PROVE  LET w == WholeCells(s)
         IN  /\ w \in Seq(AnyCell) /\ Len(w) \in Nat /\ Len(w) <= Len(s)
             /\ \A k \in 1 .. Len(w) : w[k] = s[k] /\ (k = Len(s) => s[k].whole)
             /\ (\A k \in 1 .. Len(s) : s[k].whole) => w = s
<1>1. Len(s) \in Nat /\ (s = <<>> <=> Len(s) = 0) /\ \A k \in 1 .. Len(s) : s[k] \in AnyCell
  OBVIOUS
<1>2. CASE s = <<>>
  BY <1>1, <1>2 DEF WholeCells
<1>3. CASE s # <<>>
  <2>1. Last(s) = s[Len(s)] /\ Len(s) \in 1 .. Len(s)
    BY <1>1, <1>3 DEF Last
  <2>2. CASE s[Len(s)].whole
    BY <1>1, <2>1, <2>2 DEF WholeCells
  <2>3. CASE ~s[Len(s)].whole
    <3> DEFINE w == SubSeq(s, 1, Len(s) - 1)
    <3>1. WholeCells(s) = w
      BY <1>3, <2>1, <2>3 DEF WholeCells, Front
    <3>2. \A k \in 1 .. Len(s) - 1 : s[k] \in AnyCell
      BY <1>1
    <3>3. /\ w \in Seq(AnyCell)
          /\ Len(w) = IF 1 <= Len(s) - 1 THEN Len(s) - 1 - 1 + 1 ELSE 0
          /\ \A k \in 1 .. Len(s) - 1 - 1 + 1 : w[k] = s[1 + k - 1]
      BY <1>1, <3>2, SubSeqProperties
    <3> HIDE DEF w
    <3>4. Len(w) = Len(s) - 1 /\ \A k \in 1 .. Len(s) - 1 : w[k] = s[k]
      <4> DEFINE l == Len(s)
      <4>1. l \in Nat /\ l # 0
        BY <1>1, <1>3
      <4> HIDE DEF l
      <4>2. /\ Len(w) = IF 1 <= l - 1 THEN l - 1 - 1 + 1 ELSE 0
            /\ \A k \in 1 .. l - 1 - 1 + 1 : w[k] = s[1 + k - 1]
        BY <3>3 DEF l
      <4>3. Len(w) = l - 1
        BY <4>1, <4>2
      <4>4. ASSUME NEW k \in 1 .. l - 1 PROVE w[k] = s[k]
        <5>1. k \in 1 .. l - 1 - 1 + 1 /\ 1 + k - 1 = k
          BY <4>1
        <5> QED
          BY <4>2, <5>1
      <4> QED
        BY <4>3, <4>4 DEF l
    <3> QED
      BY <1>1, <2>1, <2>3, <3>1, <3>3, <3>4
  <2> QED
    BY <2>2, <2>3
<1> QED
  BY <1>2, <1>3

LEMMA PacketsTyped ==
  ASSUME NEW v \in Seq(AnyCell), NEW offset \in Nat, NEW q \in PacketsIn(v, offset)
  PROVE  q \in Seq(AnyCell)
<1> DEFINE rest == SubSeq(v, offset + 1, Len(v))
<1>1. rest \in Seq(AnyCell)
  BY RestFacts
<1>2. WholeCells(rest) \in Seq(AnyCell)
  BY <1>1, WholeCellsFacts
<1>3. NoPacket \in AnyCell
  BY DEF NoPacket, Cell, AnyCell
<1>4. q \in {<<NoPacket>>, <<>>, WholeCells(rest)}
  BY DEF PacketsIn
<1> HIDE DEF rest
<1>5. <<NoPacket>> \in Seq(AnyCell) /\ <<>> \in Seq(AnyCell)
  BY <1>3
<1> QED
  BY <1>2, <1>4, <1>5, Zenon

(* Behind its header a file has the packets of its process; in the header  *)
(* nothing is taken for one.                                               *)
LEMMA PacketsOfCut ==
  ASSUME NEW f \in Inode, NEW n, NEW v, CutFile(f, n, v), NEW offset,
         offset = 2 \/ (n = Objects(f) /\ offset = 2 + Objects(f)),
         NEW q \in PacketsIn(v, offset)
  PROVE  /\ q = <<NoPacket>> \/ \A k \in 1 .. Len(q) : q[k] = Packet(f, k)
         /\ File(f, n, v) /\ offset = 2 + Objects(f) =>
              Len(q) = Len(v) - offset /\ q # <<NoPacket>>
<1> DEFINE rest == SubSeq(v, offset + 1, Len(v))
<1>1. /\ n \in Nat /\ n \in {0, Objects(f)} /\ Objects(f) \in Nat \ {0} /\ Len(v) \in Nat
      /\ v \in Seq(AnyCell)
      /\ \A k \in 1 .. Len(v) :
           /\ v[k].kind = CellAt(f, n, k).kind
           /\ v[k].whole => v[k] = CellAt(f, n, k)
           /\ k < Len(v) => v[k] = CellAt(f, n, k)
           /\ v[k] = CellAt(f, n, k) => v[k].whole
      /\ n # 0 => Len(v) >= 2 + Objects(f)
      /\ n = 0 => Len(v) <= 2 + Objects(f)
  BY CutFacts DEF CutFile
<1>2. offset \in Nat
  BY <1>1
<1>3. /\ rest \in Seq(AnyCell) /\ Len(rest) \in Nat
      /\ Len(rest) = IF offset <= Len(v) THEN Len(v) - offset ELSE 0
      /\ \A k \in 1 .. Len(rest) : k + offset \in 1 .. Len(v) /\ rest[k] = v[k + offset]
      /\ rest # <<>> <=> Len(rest) # 0
      /\ rest # <<>> => Head(rest) = rest[1]
  BY <1>1, <1>2, RestFacts
<1>4. LET w == WholeCells(rest)
      IN  /\ w \in Seq(AnyCell) /\ Len(w) \in Nat /\ Len(w) <= Len(rest)
          /\ \A k \in 1 .. Len(w) : w[k] = rest[k] /\ (k = Len(rest) => rest[k].whole)
          /\ (\A k \in 1 .. Len(rest) : rest[k].whole) => w = rest
  BY <1>3, WholeCellsFacts
<1>5. /\ rest # <<>> /\ Head(rest).kind = "entry" => q = <<NoPacket>> \/ q = <<>>
      /\ ~(rest # <<>> /\ Head(rest).kind = "entry") => q = WholeCells(rest)
  BY Zenon DEF PacketsIn
<1> HIDE DEF rest
<1>6. CASE offset = 2
  <2>1. CASE rest = <<>>
    <3>1. q = WholeCells(rest) /\ Len(q) = 0
      BY <1>3, <1>4, <1>5, <2>1
    <3> QED
      BY <1>1, <1>6, <3>1
  <2>2. CASE rest # <<>>
    <3>1. 1 \in 1 .. Len(rest) /\ rest[1] = v[3] /\ 3 \in 1 .. Len(v)
      BY <1>3, <1>6, <2>2
    <3>2. CellAt(f, n, 3) = Entry(f)
      BY <1>1 DEF CellAt
    <3>3. Head(rest).kind = "entry"
      BY <1>1, <1>3, <2>2, <3>1, <3>2 DEF Entry, Cell
    <3>4. q = <<NoPacket>> \/ q = <<>>
      BY <1>5, <2>2, <3>3
    <3> QED
      BY <1>1, <1>6, <3>4
  <2> QED
    BY <2>1, <2>2
<1>7. CASE n = Objects(f) /\ offset = 2 + Objects(f)
  <2>1. ASSUME NEW k \in 1 .. Len(rest)
        PROVE  /\ rest[k].kind = "packet"
               /\ k < Len(rest) \/ rest[k].whole => rest[k] = Packet(f, k)
               /\ rest[k] = Packet(f, k) => rest[k].whole
    <3>1. k + offset \in 1 .. Len(v) /\ rest[k] = v[k + offset]
      BY <1>3
    <3>2. CellAt(f, n, k + offset) = Packet(f, k)
      <4>1. /\ k \in Nat \ {0}
            /\ k + offset # 1 /\ k + offset # 2 /\ ~(k + offset <= 2 + Objects(f))
            /\ k + offset - 2 - Objects(f) = k
        <5> DEFINE o == Objects(f)
        <5>1. o \in Nat \ {0} /\ offset = 2 + o /\ k \in Nat \ {0}
          BY <1>1, <1>3, <1>7
        <5> HIDE DEF o
        <5>2. k + offset # 1 /\ k + offset # 2 /\ ~(k + offset <= 2 + o) /\ k + offset - 2 - o = k
          BY <5>1
        <5> QED
          BY <5>1, <5>2 DEF o
      <4>2. ASSUME NEW z, z = k + offset PROVE CellAt(f, n, z) = Packet(f, k)
        BY <4>1, <4>2, <1>1, <1>2 DEF CellAt
      <4> QED
        BY <4>2
    <3>3. k < Len(rest) => k + offset < Len(v)
      BY <1>1, <1>2, <1>3
    <3> QED
      BY <1>1, <3>1, <3>2, <3>3 DEF Packet, Cell
  <2>2. ~(rest # <<>> /\ Head(rest).kind = "entry")
    <3>1. rest # <<>> => 1 \in 1 .. Len(rest)
      BY <1>3
    <3> QED
      BY <1>3, <2>1, <3>1
  <2>3. q = WholeCells(rest)
    BY <1>5, <2>2
  <2>4. ASSUME NEW k \in 1 .. Len(q) PROVE q[k] = Packet(f, k)
    <3>1. k \in 1 .. Len(rest) /\ q[k] = rest[k] /\ (k = Len(rest) => rest[k].whole)
      BY <1>3, <1>4, <2>3
    <3> QED
      BY <1>3, <2>1, <3>1
  <2>5. q # <<NoPacket>>
    <3>1. SUFFICES ASSUME q = <<NoPacket>> PROVE FALSE
      OBVIOUS
    <3>2. 1 \in 1 .. Len(q) /\ q[1] = NoPacket
      <4>1. Len(<<NoPacket>>) = 1 /\ <<NoPacket>>[1] = NoPacket
        OBVIOUS
      <4> QED
        BY <3>1, <4>1
    <3>3. NoPacket = Packet(f, 1)
      BY <2>4, <3>2
    <3>4. NoPacket.kind = "none" /\ Packet(f, 1).kind = "packet"
      BY DEF NoPacket, Packet, Cell
    <3> QED
      BY <3>3, <3>4
  <2>6. File(f, n, v) => Len(q) = Len(v) - offset
    <3> SUFFICES ASSUME File(f, n, v) PROVE Len(q) = Len(v) - offset
      OBVIOUS
    <3>1. ASSUME NEW k \in 1 .. Len(rest) PROVE rest[k].whole
      <4>1. k + offset \in 1 .. Len(v) /\ rest[k] = v[k + offset]
        BY <1>3
      <4> QED
        BY <1>1, <4>1 DEF File
    <3>2. q = rest
      BY <1>4, <2>3, <3>1
    <3> QED
      BY <1>1, <1>3, <1>7, <3>2
  <2> QED
    BY <2>4, <2>5, <2>6
<1> QED
  BY <1>6, <1>7

-----------------------------------------------------------------------------
(* What a process does to its file.                                        *)
Continued(f, n, v, cells) ==
  /\ cells \in Seq(AnyCell)
  /\ \A j \in 1 .. Len(cells) : cells[j] = CellAt(f, n, Len(v) + j)
  /\ n = 0 => Len(v) + Len(cells) <= 2 + Objects(f)

LEMMA FileExtended ==
  ASSUME NEW f \in Inode, NEW n, NEW v, NEW cells, File(f, n, v), Continued(f, n, v, cells)
  PROVE  File(f, n, v \o cells) /\ Len(v \o cells) = Len(v) + Len(cells)
<1>1. /\ v \in Seq(AnyCell) /\ Len(v) \in Nat /\ Len(cells) \in Nat /\ n \in {0, Objects(f)}
      /\ Objects(f) \in Nat /\ Lengths(f, n, v)
      /\ \A k \in 1 .. Len(v) : v[k] = CellAt(f, n, k)
      /\ cells \in Seq(AnyCell)
      /\ \A j \in 1 .. Len(cells) : cells[j] = CellAt(f, n, Len(v) + j)
      /\ n = 0 => Len(v) + Len(cells) <= 2 + Objects(f)
  BY ObjectsType DEF File, Continued
<1> DEFINE w == v \o cells
<1>2. /\ w \in Seq(AnyCell) /\ Len(w) = Len(v) + Len(cells)
      /\ \A k \in 1 .. Len(v) + Len(cells) :
           w[k] = IF k <= Len(v) THEN v[k] ELSE cells[k - Len(v)]
  BY <1>1, ConcatProperties
<1> HIDE DEF w
<1>3. ASSUME NEW k \in 1 .. Len(w) PROVE w[k] = CellAt(f, n, k)
  <2>1. CASE k <= Len(v)
    BY <1>1, <1>2, <2>1
  <2>2. CASE ~(k <= Len(v))
    <3>1. k - Len(v) \in 1 .. Len(cells) /\ Len(v) + (k - Len(v)) = k
      BY <1>1, <1>2, <2>2
    <3>2. cells[k - Len(v)] = CellAt(f, n, Len(v) + (k - Len(v)))
      BY <1>1, <3>1
    <3> QED
      BY <1>2, <2>2, <3>1, <3>2
  <2> QED
    BY <2>1, <2>2
<1>4. Lengths(f, n, w)
  BY <1>1, <1>2 DEF Lengths
<1> QED
  BY <1>1, <1>2, <1>3, <1>4 DEF File, w

LEMMA FileCounted ==
  ASSUME NEW f \in Inode, NEW v, File(f, 0, v), Len(v) = 2 + Objects(f)
  PROVE  LET w == [v EXCEPT ![2] = Count(Objects(f))]
         IN  File(f, Objects(f), w) /\ Len(w) = Len(v)
<1> DEFINE c == Count(Objects(f))
           w == [v EXCEPT ![2] = c]
<1>1. /\ v \in Seq(AnyCell) /\ Objects(f) \in Nat \ {0}
      /\ \A k \in 1 .. Len(v) : v[k] = CellAt(f, 0, k)
  BY ObjectsType DEF File
<1>2. c = CellAt(f, Objects(f), 2) /\ c \in AnyCell
  BY <1>1 DEF CellAt, Count, Cell, AnyCell
<1> HIDE DEF c
<1>3. 2 \in 1 .. Len(v)
  BY <1>1
<1>4. /\ w \in Seq(AnyCell) /\ Len(w) = Len(v)
      /\ \A k \in 1 .. Len(v) : w[k] = IF k = 2 THEN c ELSE v[k]
  BY <1>1, <1>2, <1>3, ExceptSeq
<1> HIDE DEF w
<1>5. \A k \in 1 .. Len(w) : w[k] = CellAt(f, Objects(f), k)
  BY <1>1, <1>2, <1>4 DEF CellAt
<1>6. Lengths(f, Objects(f), w)
  BY <1>1, <1>4 DEF Lengths
<1> QED
  BY <1>4, <1>5, <1>6 DEF File, w, c

LEMMA NewFile ==
  ASSUME NEW f \in Inode
  PROVE  /\ File(f, 0, <<Magic, Count(0)>>) /\ Len(<<Magic, Count(0)>>) = 2
         /\ File(f, 0, <<>>)
<1> DEFINE m == Magic
           c == Count(0)
           v == <<m, c>>
<1>1. Objects(f) \in Nat \ {0}
  BY ObjectsType
<1>2. m = CellAt(f, 0, 1) /\ c = CellAt(f, 0, 2) /\ m \in AnyCell /\ c \in AnyCell
  BY DEF CellAt, Magic, Count, Cell, AnyCell
<1> HIDE DEF m, c
<1>3. v \in Seq(AnyCell) /\ Len(v) = 2 /\ v[1] = m /\ v[2] = c
  BY <1>2
<1> HIDE DEF v
<1>4. \A k \in 1 .. Len(v) : v[k] = CellAt(f, 0, k)
  BY <1>2, <1>3
<1>5. File(f, 0, v)
  BY <1>1, <1>3, <1>4 DEF File, Lengths
<1>6. File(f, 0, <<>>)
  BY <1>1 DEF File, Lengths
<1> QED
  BY <1>3, <1>5, <1>6 DEF v, m, c

(* The packets not yet written.                                            *)
LEMMA BufferedFacts ==
  ASSUME NEW p \in Process, recorded[p] \in Nat, tracebuffer_index[p] \in Nat,
         tracebuffer_index[p] <= recorded[p]
  PROVE  /\ Buffered(p) \in Seq(AnyCell)
         /\ Len(Buffered(p)) = tracebuffer_index[p]
         /\ \A j \in 1 .. tracebuffer_index[p] :
              Buffered(p)[j] = Packet(p, recorded[p] - tracebuffer_index[p] + j)
<1> DEFINE r == recorded[p]
           x == tracebuffer_index[p]
           t == Trace(p, r)
           b == SubSeq(t, r - x + 1, r)
<1>1. r \in Nat /\ x \in Nat /\ x <= r
  OBVIOUS
<1>2. \A k \in 1 .. r : t[k] = Packet(p, k)
  BY DEF Trace
<1>3. \A k \in Nat : Packet(p, k) \in AnyCell
  BY DEF Packet, Cell, AnyCell, Inode
<1> HIDE DEF r, x, t
<1>4. ASSUME NEW k \in r - x + 1 .. r PROVE t[k] \in AnyCell
  <2>1. k \in 1 .. r /\ k \in Nat
    BY <1>1
  <2> QED
    BY <1>2, <1>3, <2>1
<1>5. /\ b \in Seq(AnyCell)
      /\ Len(b) = IF r - x + 1 <= r THEN r - (r - x + 1) + 1 ELSE 0
      /\ \A j \in 1 .. r - (r - x + 1) + 1 : b[j] = t[(r - x + 1) + j - 1]
  BY <1>1, <1>4, SubSeqProperties
<1> HIDE DEF b
<1>6. Len(b) = x
  BY <1>1, <1>5
<1>7. ASSUME NEW j \in 1 .. x PROVE b[j] = Packet(p, r - x + j)
  <2>1. /\ j \in 1 .. r - (r - x + 1) + 1
        /\ (r - x + 1) + j - 1 = r - x + j
        /\ r - x + j \in 1 .. r
    BY <1>1
  <2> QED
    BY <1>2, <1>5, <2>1
<1> QED
  BY <1>5, <1>6, <1>7 DEF Buffered, b, t, x, r

(* A file with n packets, and the packets that come behind those.          *)
HasPackets(p, v, n) == File(p, Objects(p), v) /\ Len(v) = 2 + Objects(p) + n

PacketsBehind(p, n, cells) ==
  /\ cells \in Seq(AnyCell)
  /\ \A j \in 1 .. Len(cells) : cells[j] = Packet(p, n + j)

(* A full buffer, or the rest of it, appended to a file.                   *)
LEMMA ProcessFileExtended ==
  ASSUME NEW p \in Inode, NEW v, NEW cells, File(p, Objects(p), v),
         Continued(p, Objects(p), v, cells)
  PROVE  File(p, Objects(p), v \o cells) /\ Len(v \o cells) = Len(v) + Len(cells)
BY FileExtended

LEMMA Flushed ==
  ASSUME NEW p \in Process, NEW v, NEW cells, NEW n \in Nat,
         HasPackets(p, v, n), PacketsBehind(p, n, cells)
  PROVE  HasPackets(p, v \o cells, n + Len(cells))
<1>1. /\ p \in Inode /\ Objects(p) \in Nat \ {0} /\ Len(cells) \in Nat
      /\ cells \in Seq(AnyCell) /\ \A j \in 1 .. Len(cells) : cells[j] = Packet(p, n + j)
      /\ File(p, Objects(p), v) /\ Len(v) = 2 + Objects(p) + n
  BY ObjectsType DEF Inode, HasPackets, PacketsBehind
<1>2. ASSUME NEW j \in 1 .. Len(cells)
      PROVE  cells[j] = CellAt(p, Objects(p), Len(v) + j)
  <2>1. ASSUME NEW z, z = Len(v) + j PROVE CellAt(p, Objects(p), z) = Packet(p, n + j)
    <3>1. /\ z # 1 /\ z # 2 /\ ~(z <= 2 + Objects(p))
          /\ z - 2 - Objects(p) = n + j
      <4> DEFINE o == Objects(p)
                 l == Len(v)
      <4>1. o \in Nat \ {0} /\ l = 2 + o + n /\ z = l + j /\ j \in Nat \ {0}
        BY <1>1, <2>1
      <4> HIDE DEF o, l
      <4>2. z # 1 /\ z # 2 /\ ~(z <= 2 + o) /\ z - 2 - o = n + j
        BY <4>1
      <4> QED
        BY <4>2 DEF o
    <3> QED
      BY <3>1 DEF CellAt
  <2> QED
    BY <1>1, <2>1
<1>3. Continued(p, Objects(p), v, cells)
  BY <1>1, <1>2 DEF Continued
<1>4. File(p, Objects(p), v \o cells) /\ Len(v \o cells) = Len(v) + Len(cells)
  BY <1>1, <1>3, ProcessFileExtended
<1> QED
  BY <1>1, <1>4 DEF HasPackets

-----------------------------------------------------------------------------
(* A step of process p other than its fopen: it leaves the other processes *)
(* and the reader alone, may take the name away, and changes what the file *)
(* holds only if that is its own.                                          *)
StepOf(p) ==
  /\ UNCHANGED <<readervars, tracebuffer_file, overwritten>>
  /\ \A q \in Process \ {p} :
       /\ pc'[q] = pc[q] /\ recorded'[q] = recorded[q]
       /\ tracebuffer_index'[q] = tracebuffer_index[q]
       /\ tracebuffer_header_count'[q] = tracebuffer_header_count[q]
  /\ \/ name' = name /\ (content' = content \/ Followed(p))
     \/ name' = None
  /\ kept => kept'

(* When it may: the profilee only until graprof has waited for it, another *)
(* program only once the profilee is past its header.                      *)
Works(p) ==
  /\ reader # "forking"
  /\ Reading => p # Profilee /\ pc[p] # "absent" /\ ~Gone(p)
  /\ p = Profilee /\ pc'[p] \in Unopened \cup {"header"} => pc[p] \in Unopened \cup {"header"}
  /\ p # Profilee /\ pc[p] = "absent" => pc[Profilee] \notin Unopened \cup {"header"}
  /\ pc'[p] = "unlinked" => kept' \/ name' = None

(* What the type invariant says of the part the processes change.          *)
WriterTypes ==
  /\ name \in Inode \cup {None}
  /\ content \in Seq(AnyCell)
  /\ pc \in [Process -> {"absent", "starting", "unlinked", "header", "profiling", "off",
                         "exited", "left", "killed"}]
  /\ tracebuffer_file \in [Process -> Inode \cup {None}]
  /\ tracebuffer_header_count \in [Process -> Nat]
  /\ tracebuffer_index \in [Process -> 0 .. BUFSIZE - 1]
  /\ recorded \in [Process -> Nat]
  /\ kept \in BOOLEAN /\ overwritten \in BOOLEAN

LEMMA TypesSplit ==
  /\ TypeOK => WriterTypes
  /\ TypeOK /\ UNCHANGED readervars /\ WriterTypes' => TypeOK'
BY DEF TypeOK, WriterTypes, readervars

(* The files after a step of a process.                                    *)
LEMMA FilesStep ==
  ASSUME TypeOK, Files, NEW p \in Process, StepOf(p), Writer(p)', Held(p)'
  PROVE  Files'
<1>1. /\ \A q \in Process : Writer(q) /\ Held(q)
      /\ tracebuffer_file' = tracebuffer_file
      /\ name' = name \/ name' = None
      /\ None \notin Process /\ None # Earlier /\ Earlier \notin Process
  BY ProcessAssumption DEF Files, StepOf, Inode
<1>2. \A q \in Process : Opened(q)' = Opened(q)
  BY <1>1 DEF Opened
<1>3. ASSUME NEW q \in Process \ {p} PROVE Writer(q)'
  <2>1. /\ pc'[q] = pc[q] /\ recorded'[q] = recorded[q]
        /\ tracebuffer_index'[q] = tracebuffer_index[q]
        /\ tracebuffer_header_count'[q] = tracebuffer_header_count[q]
    BY DEF StepOf
  <2>2. name # q => name' # q
    BY <1>1
  <2>3. tracebuffer_file[q] \in Process => Opened(tracebuffer_file[q])'
    BY <1>1, <1>2 DEF Writer
  <2> QED
    BY <1>1, <2>1, <2>2, <2>3 DEF Writer, Opened
<1>4. ASSUME NEW q \in Process \ {p} PROVE Held(q)'
  <2> SUFFICES ASSUME Followed(q)' PROVE Held(q)'
    BY DEF Held
  <2>1. name' = name /\ name' # None /\ Followed(q)
    BY <1>1 DEF Followed, Shared, Sharers
  <2>2. ~Followed(p)
    BY <2>1 DEF Followed, Shared, Sharers
  <2>3. /\ pc'[q] = pc[q] /\ recorded'[q] = recorded[q] /\ content' = content
        /\ tracebuffer_index'[q] = tracebuffer_index[q]
        /\ tracebuffer_header_count'[q] = tracebuffer_header_count[q]
    BY <1>1, <2>1, <2>2 DEF StepOf
  <2> QED
    BY <1>1, <2>1, <2>3 DEF Held, File, CutFile, Lengths, CellAt, Objects
<1>5. Named'
  <2>1. CASE name' = None
    BY <1>1, <2>1 DEF Named
  <2>2. CASE name' = name /\ name # None
    <3>1. name \in Process => tracebuffer_file'[name'] = name'
      BY <1>1, <2>2 DEF Files, Named
    <3>2. ASSUME name = Earlier
          PROVE  (\A q \in Process : ~Opened(q)') /\ File(Earlier, 1, content')
      <4>1. (\A q \in Process : ~Opened(q)) /\ File(Earlier, 1, content)
        BY <3>2 DEF Files, Named
      <4>2. ~Followed(p)
        BY <4>1 DEF Followed, Opened
      <4>3. content' = content
        BY <2>2, <4>2 DEF StepOf
      <4> QED
        BY <1>2, <4>1, <4>3
    <3> QED
      BY <2>2, <3>1, <3>2 DEF Named, File, Lengths, CellAt, Objects
  <2> QED
    BY <1>1, <2>1, <2>2
<1> QED
  BY <1>3, <1>4, <1>5 DEF Files

(* The rest of the invariant after it: a step while graprof reads is one   *)
(* of a program that has outlived the profilee.                            *)
LEMMA Outlives ==
  ASSUME Inv, NEW p \in Process, Reading, p # Profilee, pc[p] # "absent", ~Gone(p)
  PROVE  outlived /\ p \in Others /\ Profilee \in Process \ {p}
BY DEF Inv, Alone, Process

LEMMA StepInv ==
  ASSUME Inv, NEW p \in Process, StepOf(p), Works(p), WriterTypes', Writer(p)', Held(p)',
         CutFile(p, Objects(p), content) => CutFile(p, Objects(p), content') \/ name' = None
  PROVE  Inv'
<1> USE DEF Inv
<1>1. /\ UNCHANGED readervars /\ UNCHANGED tracebuffer_file /\ UNCHANGED overwritten
      /\ name' = name \/ name' = None
      /\ None \notin Process /\ None # Earlier /\ Profilee \in Process
  BY ProcessAssumption DEF StepOf, Inode, Process
<1>2. /\ \A q \in Process : Opened(q)' = Opened(q)
      /\ \A f : Shared(f)' = Shared(f)
  BY <1>1 DEF Opened, Shared, Sharers
<1>3. Reading =>
        /\ p # Profilee /\ outlived
        /\ pc'[Profilee] = pc[Profilee] /\ recorded'[Profilee] = recorded[Profilee]
  BY Outlives DEF StepOf, Works
<1>4. TypeOK' /\ Files'
  BY <1>1, TypesSplit, FilesStep
<1>5. Private'
  <2>1. pc'[Profilee] \in Unopened \cup {"header"} => \A q \in Others : pc'[q] = "absent"
    <3>1. CASE p = Profilee
      <4>1. pc'[Profilee] \in Unopened \cup {"header"} => pc[Profilee] \in Unopened \cup {"header"}
        BY <3>1 DEF Works
      <4>2. \A q \in Others : q \in Process \ {p}
        BY <3>1, ProcessAssumption DEF Process
      <4> QED
        BY <4>1, <4>2 DEF Private, StepOf
    <3>2. CASE p # Profilee
      <4>1. pc'[Profilee] = pc[Profilee] /\ p \in Others
        BY <1>1, <3>2 DEF StepOf, Process
      <4>2. pc[Profilee] \notin Unopened \cup {"header"}
        BY <3>2, <4>1 DEF Works, Private
      <4> QED
        BY <4>1, <4>2
    <3> QED
      BY <3>1, <3>2
  <2>2. ASSUME ~kept', NEW q \in Others, pc'[q] = "unlinked" PROVE name' # Profilee
    <3>1. CASE q = p
      BY <1>1, <2>2, <3>1 DEF Works
    <3>2. CASE q # p
      <4>1. pc[q] = "unlinked" /\ ~kept
        BY <2>2, <3>2 DEF StepOf, Process
      <4>2. name # Profilee
        BY <4>1 DEF Private
      <4> QED
        BY <1>1, <4>2
    <3> QED
      BY <3>1, <3>2
  <2>3. kept => kept'
    BY DEF StepOf
  <2> QED
    BY <1>1, <2>1, <2>2, <2>3 DEF Private
<1>6. Alone'
  BY <1>1, <1>3 DEF Alone, Reading, Works, readervars
<1>7. HeaderRead'
  <2>1. header_file' = header_file /\ mapped_file' = mapped_file /\ reader' = reader
    BY <1>1 DEF readervars
  <2>2. Made(header_file) => Made(header_file)'
    BY <1>1, <1>2, <2>1 DEF Made, Opened
  <2>3. Made(mapped_file) => Made(mapped_file)'
    BY <1>1, <1>2, <2>1 DEF Made, Opened
  <2>4. Opened(Profilee)' = Opened(Profilee)
    BY <1>1, <1>2
  <2> QED
    BY <2>1, <2>2, <2>3, <2>4 DEF HeaderRead
<1>8. Mapping'
  <2> SUFFICES ASSUME reader' = "mapping" PROVE Mapping'
    BY DEF Mapping
  <2>1. /\ reader = "mapping" /\ header_file' = header_file /\ outlived' = outlived
        /\ tracebuffer_packets_offset' = tracebuffer_packets_offset
        /\ header_file # None /\ Reading
    BY <1>1 DEF readervars, HeaderRead, Made, Reading
  <2>2. ASSUME name' = header_file', ~Shared(name)'
        PROVE  /\ \/ tracebuffer_packets_offset' = 2
                  \/ HeaderComplete' /\ tracebuffer_packets_offset' = 2 + Objects(header_file)
               /\ header_file = Profilee /\ pc'[Profilee] = "exited" =>
                    tracebuffer_packets_offset' = 2 + Objects(Profilee)
    <3>1. name = header_file /\ name' = name /\ ~Shared(name)
      BY <1>1, <1>2, <2>1, <2>2
    <3>2. CutFile(header_file, Objects(header_file), content) =>
            CutFile(header_file, Objects(header_file), content')
      <4>1. CASE Followed(p)
        <5>1. p = header_file
          BY <3>1, <4>1 DEF Followed, Shared, Sharers
        <5> QED
          BY <2>1, <3>1, <5>1
      <4>2. CASE ~Followed(p)
        BY <2>1, <3>1, <4>2 DEF StepOf
      <4> QED
        BY <4>1, <4>2
    <3>3. HeaderComplete => HeaderComplete'
      BY <2>1, <3>2 DEF HeaderComplete, CutFile, Lengths, CellAt, Objects
    <3> QED
      BY <1>3, <2>1, <3>1, <3>3 DEF Mapping
  <2> QED
    BY <1>3, <2>1, <2>2 DEF Mapping, Objects
<1>9. Handling'
  <2>1. /\ reader' = reader /\ header_file' = header_file /\ outlived' = outlived
        /\ mapped_file' = mapped_file /\ packets' = packets /\ i' = i /\ handled' = handled
        /\ ended' = ended /\ overwritten' = overwritten
        /\ Shared(mapped_file)' = Shared(mapped_file)
    BY <1>1 DEF readervars, Shared, Sharers
  <2>2. reader \in {"handling", "profile"} => Reading
    BY DEF Reading
  <2> QED
    BY <1>3, <2>1, <2>2 DEF Handling, Mixed, Spoiled
<1> QED
  BY <1>4, <1>5, <1>6, <1>7, <1>8, <1>9

-----------------------------------------------------------------------------
LEMMA UnlinkInv ==
  ASSUME Inv, NEW p \in Process, Unlink(p)
  PROVE  Inv'
<1> USE DEF Inv
<1>0. /\ p \in Inode /\ WriterTypes /\ Writer(p) /\ Held(p) /\ Files
      /\ None \notin Process
  BY TypesSplit, ProcessAssumption DEF Files, Inode
<1>1. pc[p] = "starting" /\ ~Opened(p) /\ name # p
  BY <1>0 DEF Unlink, Step, Writer, Unopened
<1>2. /\ pc' = [pc EXCEPT ![p] = "unlinked"]
      /\ name' \in {name, None}
      /\ content' = IF name' = None THEN <<>> ELSE content
      /\ kept' = (kept \/ name' # None)
      /\ UNCHANGED <<overwritten, tracebuffer_file, tracebuffer_header_count, tracebuffer_index,
                     recorded, readervars>>
  BY DEF Unlink, Step, openvars
<1>3. WriterTypes'
  <2>1. content' \in Seq(AnyCell) /\ name' \in Inode \cup {None} /\ kept' \in BOOLEAN
    BY <1>0, <1>2 DEF WriterTypes
  <2> QED
    BY <1>0, <1>2, <2>1 DEF WriterTypes
<1>4. StepOf(p)
  BY <1>0, <1>2 DEF StepOf, WriterTypes
<1>5. pc'[p] = "unlinked"
  BY <1>0, <1>2 DEF WriterTypes
<1>6. Writer(p)'
  <2>1. name' # p
    BY <1>0, <1>1, <1>2
  <2> QED
    BY <1>0, <1>1, <1>2, <1>5, <2>1 DEF Writer, Opened, Unopened
<1>7. Held(p)'
  BY <1>1, <1>2 DEF Held, Followed, Opened
<1>8. Works(p)
  BY <1>1, <1>2, <1>5 DEF Works, Alone, Gone, Unopened
<1>9. CutFile(p, Objects(p), content) => CutFile(p, Objects(p), content') \/ name' = None
  BY <1>2
<1> QED
  BY <1>3, <1>4, <1>6, <1>7, <1>8, <1>9, StepInv

(* A process that gives up or ends with its hooks off.                     *)
LEMMA OffInv ==
  ASSUME Inv, NEW p \in Process, OpenFails(p) \/ HeaderFails(p) \/ Leave(p)
  PROVE  Inv'
<1> USE DEF Inv
<1>0. /\ p \in Inode /\ WriterTypes /\ Writer(p) /\ Held(p) /\ Files /\ p # None
  BY TypesSplit, ProcessAssumption DEF Files, Inode
<1>1. /\ \/ pc[p] \in {"unlinked", "header"} /\ pc' = [pc EXCEPT ![p] = "off"]
         \/ pc[p] \in {"off", "profiling"} /\ pc' = [pc EXCEPT ![p] = "left"]
      /\ UNCHANGED <<name, content, kept, overwritten, tracebuffer_file,
                     tracebuffer_header_count, tracebuffer_index, recorded, readervars>>
  BY DEF OpenFails, HeaderFails, Leave, Step, filevars, history, openvars
<1>2. WriterTypes'
  BY <1>0, <1>1 DEF WriterTypes
<1>3. StepOf(p)
  BY <1>0, <1>1 DEF StepOf, WriterTypes
<1>4. \/ pc[p] \in {"unlinked", "header"} /\ pc'[p] = "off"
      \/ pc'[p] = "left"
  BY <1>0, <1>1 DEF WriterTypes
<1>5. Writer(p)'
  BY <1>0, <1>1, <1>4 DEF Writer, Opened, Unopened
<1>6. Held(p)'
  <2> SUFFICES ASSUME Followed(p)' PROVE Held(p)'
    BY DEF Held
  <2>1. Followed(p) /\ Opened(p)
    BY <1>1 DEF Followed, Shared, Sharers, Opened
  <2>2. pc[p] # "unlinked"
    BY <1>0, <2>1 DEF Writer, Unopened
  <2>3. /\ pc'[p] = "off" => File(p, 0, content)
        /\ \E n \in {0, Objects(p)} : CutFile(p, n, content)
    BY <1>0, <1>4, <2>1, <2>2 DEF Held
  <2>4. content' = content
    BY <1>1
  <2> QED
    BY <1>4, <2>3, <2>4 DEF Held, File, CutFile, Lengths, CellAt, Objects
<1>7. Works(p)
  BY <1>1, <1>4 DEF Works, Alone, Gone, Unopened
<1> QED
  BY <1>1, <1>2, <1>3, <1>5, <1>6, <1>7, StepInv

LEMMA SameOwner ==
  ASSUME UNCHANGED <<name, tracebuffer_file>>, NEW p
  PROVE  Followed(p)' = Followed(p) /\ Opened(p)' = Opened(p)
BY DEF Followed, Shared, Sharers, Opened

LEMMA AppendHeaderInv ==
  ASSUME Inv, NEW p \in Process, AppendHeader(p)
  PROVE  Inv'
<1> USE DEF Inv
<1>0. /\ p \in Inode /\ WriterTypes /\ Writer(p) /\ Held(p) /\ Files
      /\ Objects(p) \in Nat \ {0} /\ Objects(p) = ObjectFiles[p]
  BY TypesSplit, ObjectsType, ProcessAssumption DEF Files, Inode, Objects
<1> DEFINE n == tracebuffer_header_count[p]
           v == content
           e == <<Entry(p)>>
           new == v \o e
<1>1. pc[p] = "header" /\ Opened(p) /\ n \in Nat /\ n < Objects(p) /\ recorded[p] = 0
  BY <1>0 DEF AppendHeader, Step, Writer, WriterTypes
<1>2. /\ pc' = [pc EXCEPT ![p] = "header"]
      /\ tracebuffer_header_count' = [tracebuffer_header_count EXCEPT ![p] = n + 1]
      /\ content' = IF Followed(p) THEN new ELSE content
      /\ UNCHANGED <<name, kept, overwritten, tracebuffer_file, tracebuffer_index, recorded,
                     readervars>>
  BY DEF AppendHeader, Step, Written, history
<1>3. Followed(p) => File(p, 0, v) /\ Len(v) = 2 + n
  BY <1>0, <1>1 DEF Held
<1>4. Followed(p) => File(p, 0, new) /\ Len(new) = 2 + (n + 1)
  <2> SUFFICES ASSUME Followed(p) PROVE File(p, 0, new) /\ Len(new) = 2 + (n + 1)
    OBVIOUS
  <2>1. e \in Seq(AnyCell) /\ Len(e) = 1 /\ e[1] = Entry(p)
    <3>1. Entry(p) \in AnyCell
      BY <1>0 DEF Entry, Cell, AnyCell
    <3> QED
      BY <3>1
  <2> HIDE DEF e, n
  <2>2. ASSUME NEW j \in 1 .. Len(e) PROVE e[j] = CellAt(p, 0, Len(v) + j)
    <3>1. j = 1
      BY <2>1
    <3>2. ASSUME NEW z, z = Len(v) + j PROVE CellAt(p, 0, z) = Entry(p)
      <4>1. z # 1 /\ z # 2 /\ z <= 2 + Objects(p)
        BY <1>0, <1>1, <1>3, <3>1, <3>2
      <4> QED
        BY <4>1 DEF CellAt
    <3> QED
      BY <2>1, <3>1, <3>2
  <2>3. Len(v) + Len(e) <= 2 + Objects(p)
    BY <1>0, <1>1, <1>3, <2>1
  <2> HIDE DEF v
  <2>4. File(p, 0, v \o e) /\ Len(v \o e) = Len(v) + Len(e)
    <3>1. File(p, 0, v)
      BY <1>3
    <3>2. Continued(p, 0, v, e)
      BY <2>1, <2>2, <2>3 DEF Continued
    <3> QED
      BY <1>0, <3>1, <3>2, FileExtended
  <2> QED
    BY <1>1, <1>3, <2>1, <2>4
<1> HIDE DEF new, n, v
<1>5. content' \in Seq(AnyCell)
  BY <1>0, <1>2, <1>4 DEF WriterTypes, File
<1>6. WriterTypes'
  BY <1>0, <1>1, <1>2, <1>5 DEF WriterTypes
<1>7. StepOf(p)
  BY <1>0, <1>2 DEF StepOf, WriterTypes
<1>8. pc'[p] = "header" /\ tracebuffer_header_count'[p] = n + 1
  BY <1>0, <1>2 DEF WriterTypes
<1>9. Writer(p)'
  BY <1>0, <1>1, <1>2, <1>8 DEF Writer, Opened, Unopened
<1>10. Held(p)'
  <2> SUFFICES ASSUME Followed(p) PROVE Held(p)'
    BY <1>2, SameOwner DEF Held
  <2>1. File(p, 0, content') /\ Len(content') = 2 + tracebuffer_header_count'[p]
    BY <1>2, <1>4, <1>8
  <2>2. CutFile(p, 0, content')
    BY <2>1, FileIsCut
  <2> QED
    BY <1>8, <2>1, <2>2 DEF Held
<1>11. Works(p)
  BY <1>1, <1>8 DEF Works, Alone, Gone
<1>12. CutFile(p, Objects(p), content) => CutFile(p, Objects(p), content') \/ name' = None
  <2>1. Followed(p) => ~CutFile(p, Objects(p), content)
    BY <1>0, <1>3, FileIsCut, OneCount DEF v
  <2>2. ~Followed(p) => content' = content
    BY <1>2
  <2> QED
    BY <2>1, <2>2
<1> QED
  BY <1>6, <1>7, <1>9, <1>10, <1>11, <1>12, StepInv

LEMMA FinishHeaderInv ==
  ASSUME Inv, NEW p \in Process, FinishHeader(p)
  PROVE  Inv'
<1> USE DEF Inv
<1>0. /\ p \in Inode /\ WriterTypes /\ Writer(p) /\ Held(p) /\ Files
      /\ Objects(p) \in Nat \ {0} /\ Objects(p) = ObjectFiles[p]
  BY TypesSplit, ObjectsType, ProcessAssumption DEF Files, Inode, Objects
<1> DEFINE v == content
           new == [v EXCEPT ![2] = Count(Objects(p))]
<1>1. /\ pc[p] = "header" /\ Opened(p) /\ recorded[p] = 0 /\ tracebuffer_index[p] = 0
      /\ tracebuffer_header_count[p] = Objects(p)
  <2>1. /\ pc[p] = "header" /\ Opened(p) /\ recorded[p] = 0
        /\ tracebuffer_index[p] <= recorded[p] /\ tracebuffer_index[p] \in 0 .. BUFSIZE - 1
        /\ tracebuffer_header_count[p] = Objects(p)
    BY <1>0 DEF FinishHeader, Step, Writer, WriterTypes
  <2> QED
    BY <2>1, BUFSIZEAssumption
<1>2. /\ pc' = [pc EXCEPT ![p] = "profiling"]
      /\ content' = IF Followed(p) THEN new ELSE content
      /\ UNCHANGED <<name, kept, overwritten, tracebuffer_file, tracebuffer_header_count,
                     tracebuffer_index, recorded, readervars>>
  BY <1>1 DEF FinishHeader, Step, history, openvars
<1>3. Followed(p) => File(p, 0, v) /\ Len(v) = 2 + Objects(p)
  BY <1>0, <1>1 DEF Held
<1>4. Followed(p) => File(p, Objects(p), new) /\ Len(new) = 2 + Objects(p)
  BY <1>0, <1>3, FileCounted
<1> HIDE DEF new
<1>5. content' \in Seq(AnyCell)
  BY <1>0, <1>2, <1>4 DEF WriterTypes, File
<1>6. WriterTypes'
  BY <1>0, <1>2, <1>5 DEF WriterTypes
<1>7. StepOf(p)
  BY <1>0, <1>2 DEF StepOf, WriterTypes
<1>8. pc'[p] = "profiling"
  BY <1>0, <1>2 DEF WriterTypes
<1>9. Writer(p)'
  BY <1>0, <1>1, <1>2, <1>8 DEF Writer, Opened, Unopened
<1>10. Followed(p) => CutFile(p, Objects(p), content')
  BY <1>2, <1>4, FileIsCut
<1>11. Held(p)'
  <2> SUFFICES ASSUME Followed(p) PROVE Held(p)'
    BY <1>2, SameOwner DEF Held
  <2>1. /\ File(p, Objects(p), content')
        /\ Len(content') = 2 + Objects(p) + recorded'[p] - tracebuffer_index'[p]
    BY <1>0, <1>1, <1>2, <1>4
  <2> QED
    BY <1>8, <1>10, <2>1 DEF Held, Objects
<1>12. Works(p)
  BY <1>1, <1>8 DEF Works, Alone, Gone, Unopened
<1>13. CutFile(p, Objects(p), content) => CutFile(p, Objects(p), content') \/ name' = None
  BY <1>2, <1>10
<1> QED
  BY <1>6, <1>7, <1>9, <1>11, <1>12, <1>13, StepInv

(* A packet recorded, and the buffer written if that fills it; the rest of *)
(* the buffer written at exit.                                             *)
LEMMA FlushInv ==
  ASSUME Inv, NEW p \in Process, Record(p) \/ Exit(p)
  PROVE  Inv'
<1> USE DEF Inv
<1> DEFINE v == content
           r == recorded[p]
           x == tracebuffer_index[p]
<1>0. /\ p \in Inode /\ WriterTypes /\ Writer(p) /\ Held(p) /\ Files /\ Objects(p) \in Nat \ {0}
      /\ r \in Nat /\ x \in 0 .. BUFSIZE - 1 /\ x \in Nat /\ BUFSIZE \in Nat \ {0}
  <2>1. p \in Inode /\ WriterTypes /\ Writer(p) /\ Held(p) /\ Files /\ Objects(p) \in Nat \ {0}
    BY TypesSplit, ObjectsType DEF Files, Inode
  <2>2. r \in Nat /\ x \in 0 .. BUFSIZE - 1
    BY <2>1 DEF WriterTypes
  <2> HIDE DEF r, x
  <2>3. x \in Nat
    BY <2>2, BUFSIZEAssumption
  <2> QED
    BY <2>1, <2>2, <2>3, BUFSIZEAssumption
<1>1. pc[p] = "profiling" /\ Opened(p) /\ x <= r
  BY <1>0 DEF Record, Exit, Step, Writer
<1>2. Followed(p) => File(p, Objects(p), v) /\ Len(v) = 2 + Objects(p) + r - x
  BY <1>0, <1>1 DEF Held
<1>3. /\ Buffered(p) \in Seq(AnyCell) /\ Len(Buffered(p)) = x
      /\ \A j \in 1 .. x : Buffered(p)[j] = Packet(p, r - x + j)
  BY <1>0, <1>1, BufferedFacts
<1> HIDE DEF v, r, x
<1>6. r - x \in Nat /\ (Followed(p) => HasPackets(p, v, r - x))
  BY <1>0, <1>1, <1>2 DEF HasPackets
<1>4. CASE Exit(p)
  <2> DEFINE new == v \o Buffered(p)
  <2>1. /\ pc' = [pc EXCEPT ![p] = "exited"]
        /\ content' = IF Followed(p) THEN new ELSE content
        /\ tracebuffer_index' = [tracebuffer_index EXCEPT ![p] = 0]
        /\ UNCHANGED <<name, kept, overwritten, tracebuffer_file, tracebuffer_header_count,
                       recorded, readervars>>
    BY <1>4 DEF Exit, Step, Written, v, history, openvars
  <2>2. Followed(p) => File(p, Objects(p), new) /\ Len(new) = 2 + Objects(p) + r
    <3> SUFFICES ASSUME Followed(p)
                 PROVE  File(p, Objects(p), new) /\ Len(new) = 2 + Objects(p) + r
      OBVIOUS
    <3>1. PacketsBehind(p, r - x, Buffered(p))
      BY <1>3 DEF PacketsBehind
    <3>2. HasPackets(p, new, r - x + Len(Buffered(p)))
      BY <1>6, <3>1, Flushed
    <3> HIDE DEF new
    <3> QED
      BY <1>0, <1>3, <3>2 DEF HasPackets
  <2> HIDE DEF new
  <2>3. content' \in Seq(AnyCell) /\ 0 \in 0 .. BUFSIZE - 1
    BY <1>0, <2>1, <2>2 DEF WriterTypes, File
  <2>4. WriterTypes'
    BY <1>0, <2>1, <2>3 DEF WriterTypes
  <2>5. StepOf(p)
    BY <1>0, <2>1 DEF StepOf, WriterTypes
  <2>6. pc'[p] = "exited" /\ recorded'[p] = r /\ tracebuffer_index'[p] = 0
    BY <1>0, <2>1 DEF WriterTypes, r
  <2>7. Followed(p) => CutFile(p, Objects(p), content')
    BY <2>1, <2>2, FileIsCut
  <2>8. Writer(p)'
    <3>1. tracebuffer_index'[p] <= recorded'[p]
      BY <1>0, <2>6
    <3> QED
      BY <1>0, <1>1, <2>1, <2>6, <3>1 DEF Writer, Opened, Unopened
  <2>9. Held(p)'
    <3> SUFFICES ASSUME Followed(p) PROVE Held(p)'
      BY <2>1, SameOwner DEF Held
    <3>1. /\ File(p, Objects(p), content')
          /\ Len(content') = 2 + Objects(p) + recorded'[p] - tracebuffer_index'[p]
      BY <1>0, <2>1, <2>2, <2>6
    <3> QED
      BY <2>6, <2>7, <3>1 DEF Held, Objects
  <2>10. Works(p)
    BY <1>1, <2>6 DEF Works, Alone, Gone, Unopened
  <2>11. CutFile(p, Objects(p), content) => CutFile(p, Objects(p), content') \/ name' = None
    BY <2>1, <2>7
  <2> QED
    BY <2>4, <2>5, <2>8, <2>9, <2>10, <2>11, StepInv
<1>5. CASE Record(p)
  <2>1. /\ pc' = [pc EXCEPT ![p] = "profiling"]
        /\ recorded' = [recorded EXCEPT ![p] = r + 1]
        /\ UNCHANGED <<name, kept, overwritten, tracebuffer_file, tracebuffer_header_count,
                       readervars>>
    BY <1>5 DEF Record, Step, r, history, openvars
  <2>2. recorded'[p] = r + 1 /\ pc'[p] = "profiling"
    BY <1>0, <2>1 DEF WriterTypes
  <2>3. \E y \in Nat, new \in Seq(AnyCell) :
          /\ tracebuffer_index' = [tracebuffer_index EXCEPT ![p] = y]
          /\ content' = IF Followed(p) THEN new ELSE content
          /\ y < BUFSIZE /\ y <= r + 1
          /\ Followed(p) => /\ File(p, Objects(p), new)
                            /\ Len(new) = 2 + Objects(p) + (r + 1) - y
    <3>1. CASE ~Full(p)
      <4>1. tracebuffer_index' = [tracebuffer_index EXCEPT ![p] = x + 1] /\ content' = content
        BY <1>5, <3>1 DEF Record, x
      <4>2. x + 1 \in Nat /\ x + 1 < BUFSIZE /\ x + 1 <= r + 1
        <5>1. x + 1 # BUFSIZE
          BY <3>1 DEF Full, x
        <5> QED
          BY <1>0, <1>1, <5>1
      <4>3. v \in Seq(AnyCell) /\ content' = IF Followed(p) THEN v ELSE content
        BY <1>0, <4>1 DEF WriterTypes, v
      <4>4. Followed(p) => Len(v) = 2 + Objects(p) + (r + 1) - (x + 1)
        BY <1>0, <1>2
      <4> QED
        BY <1>2, <4>1, <4>2, <4>3, <4>4
    <3>2. CASE Full(p)
      <4> DEFINE cells == Append(Buffered(p), Packet(p, r + 1))
                 new == v \o cells
      <4>1. /\ tracebuffer_index' = [tracebuffer_index EXCEPT ![p] = 0]
            /\ content' = IF Followed(p) THEN new ELSE content
        BY <1>5, <2>2, <3>2 DEF Record, Written, v
      <4>2. Packet(p, r + 1) \in AnyCell
        BY <1>0 DEF Packet, Cell, AnyCell
      <4>3. /\ cells \in Seq(AnyCell) /\ Len(cells) = x + 1
            /\ \A j \in 1 .. x + 1 : cells[j] = Packet(p, r - x + j)
        <5>1. cells \in Seq(AnyCell) /\ Len(cells) = x + 1
          BY <1>3, <4>2
        <5>2. ASSUME NEW j \in 1 .. x + 1 PROVE cells[j] = Packet(p, r - x + j)
          <6>1. CASE j = x + 1
            <7>1. cells[j] = Packet(p, r + 1)
              BY <1>3, <4>2, <6>1
            <7>2. r - x + j = r + 1
              BY <1>0, <6>1
            <7> QED
              BY <7>1, <7>2
          <6>2. CASE j # x + 1
            <7>1. j \in 1 .. x
              BY <1>0, <6>2
            <7>2. cells[j] = Buffered(p)[j]
              BY <1>3, <4>2, <7>1
            <7> QED
              BY <1>3, <7>1, <7>2
          <6> QED
            BY <6>1, <6>2
        <5> QED
          BY <5>1, <5>2
      <4> HIDE DEF cells
      <4>4. Followed(p) => File(p, Objects(p), new) /\ Len(new) = 2 + Objects(p) + (r + 1) - 0
        <5> SUFFICES ASSUME Followed(p)
                     PROVE  File(p, Objects(p), new) /\ Len(new) = 2 + Objects(p) + (r + 1) - 0
          OBVIOUS
        <5>1. PacketsBehind(p, r - x, cells)
          BY <4>3 DEF PacketsBehind
        <5>2. HasPackets(p, new, r - x + Len(cells))
          BY <1>6, <5>1, Flushed
        <5> HIDE DEF new
        <5> QED
          BY <1>0, <4>3, <5>2 DEF HasPackets
      <4>5. v \in Seq(AnyCell) /\ new \in Seq(AnyCell)
        BY <1>0, <4>3 DEF WriterTypes, v
      <4> HIDE DEF new
      <4>6. 0 \in Nat /\ 0 < BUFSIZE /\ 0 <= r + 1
        BY <1>0
      <4> QED
        BY <4>1, <4>4, <4>5, <4>6
    <3> QED
      BY <3>1, <3>2
  <2>4. PICK y \in Nat, new \in Seq(AnyCell) :
          /\ tracebuffer_index' = [tracebuffer_index EXCEPT ![p] = y]
          /\ content' = IF Followed(p) THEN new ELSE content
          /\ y < BUFSIZE /\ y <= r + 1
          /\ Followed(p) => /\ File(p, Objects(p), new)
                            /\ Len(new) = 2 + Objects(p) + (r + 1) - y
    BY <2>3
  <2>5. WriterTypes'
    <3>1. r + 1 \in Nat /\ y \in 0 .. BUFSIZE - 1
      BY <1>0, <2>4
    <3>2. content' \in Seq(AnyCell)
      BY <1>0, <2>4 DEF WriterTypes
    <3> QED
      BY <1>0, <2>1, <2>4, <3>1, <3>2 DEF WriterTypes
  <2>6. StepOf(p)
    BY <1>0, <2>1, <2>4 DEF StepOf, WriterTypes
  <2>7. tracebuffer_index'[p] = y
    BY <1>0, <2>4 DEF WriterTypes
  <2>8. Followed(p) => CutFile(p, Objects(p), content')
    BY <2>4, FileIsCut
  <2>9. Writer(p)'
    <3>1. tracebuffer_index'[p] <= recorded'[p]
      BY <2>2, <2>4, <2>7
    <3> QED
      BY <1>0, <1>1, <2>1, <2>2, <3>1 DEF Writer, Opened, Unopened
  <2>10. Held(p)'
    <3> SUFFICES ASSUME Followed(p) PROVE Held(p)'
      BY <2>1, SameOwner DEF Held
    <3>1. /\ File(p, Objects(p), content')
          /\ Len(content') = 2 + Objects(p) + recorded'[p] - tracebuffer_index'[p]
      BY <2>2, <2>4, <2>7
    <3> QED
      BY <2>2, <2>8, <3>1 DEF Held, Objects
  <2>11. Works(p)
    BY <1>1, <2>2 DEF Works, Alone, Gone, Unopened
  <2>12. CutFile(p, Objects(p), content) => CutFile(p, Objects(p), content') \/ name' = None
    BY <2>4, <2>8
  <2> QED
    BY <2>5, <2>6, <2>9, <2>10, <2>11, <2>12, StepInv
<1> QED
  BY <1>4, <1>5

LEMMA KillInv ==
  ASSUME Inv, NEW p \in Process, Kill(p)
  PROVE  Inv'
<1> USE DEF Inv
<1>0. p \in Inode /\ WriterTypes /\ Writer(p) /\ Held(p) /\ Files
  BY TypesSplit DEF Files, Inode
<1>1. /\ pc[p] # "absent" /\ ~Gone(p)
      /\ pc' = [pc EXCEPT ![p] = "killed"]
      /\ content' \in IF Followed(p) THEN OnDisk ELSE {content}
      /\ UNCHANGED <<name, kept, overwritten, tracebuffer_file, tracebuffer_header_count,
                     tracebuffer_index, recorded, readervars>>
  BY DEF Kill, history, openvars
<1>2. Followed(p) =>
        /\ \E n \in {0, Objects(p)} : CutFile(p, n, content')
        /\ CutFile(p, Objects(p), content) => CutFile(p, Objects(p), content')
  <2> SUFFICES ASSUME Followed(p)
               PROVE  /\ \E n \in {0, Objects(p)} : CutFile(p, n, content')
                      /\ CutFile(p, Objects(p), content) => CutFile(p, Objects(p), content')
    OBVIOUS
  <2>1. Opened(p) /\ content' \in OnDisk
    BY <1>1 DEF Followed, Opened
  <2>2. pc[p] \in {"header", "profiling", "off"}
    BY <1>0, <1>1, <2>1 DEF Writer, WriterTypes, Gone, Unopened
  <2>3. PICK n \in {0, Objects(p)} : File(p, n, content)
    BY <1>0, <2>2 DEF Held
  <2>4. CutFile(p, n, content')
    BY <1>0, <2>1, <2>3, OnDiskCut
  <2>5. CutFile(p, Objects(p), content) => n = Objects(p)
    BY <1>0, <2>3, FileIsCut, OneCount
  <2> QED
    BY <2>4, <2>5
<1>3. content' \in Seq(AnyCell)
  BY <1>0, <1>1, <1>2 DEF WriterTypes, CutFile
<1>4. WriterTypes'
  BY <1>0, <1>1, <1>3 DEF WriterTypes
<1>5. StepOf(p)
  BY <1>0, <1>1 DEF StepOf, WriterTypes
<1>6. pc'[p] = "killed"
  BY <1>0, <1>1 DEF WriterTypes
<1>7. Writer(p)'
  BY <1>0, <1>1, <1>6 DEF Writer, Opened, Unopened
<1>8. Held(p)'
  BY <1>1, <1>2, <1>6, SameOwner DEF Held, Objects
<1>9. Works(p)
  BY <1>1, <1>6 DEF Works, Alone, Gone, Unopened
<1>10. CutFile(p, Objects(p), content) => CutFile(p, Objects(p), content') \/ name' = None
  BY <1>1, <1>2
<1> QED
  BY <1>4, <1>5, <1>7, <1>8, <1>9, <1>10, StepInv

LEMMA StartOtherInv ==
  ASSUME Inv, NEW p \in Others, StartOther(p)
  PROVE  Inv'
<1> USE DEF Inv
<1>0. /\ p \in Process /\ p \in Inode /\ p # Profilee /\ Profilee \in Process
      /\ WriterTypes /\ Writer(p) /\ Held(p) /\ Files
  BY TypesSplit, ProcessAssumption DEF Files, Inode, Process
<1>1. /\ pc[Profilee] \in {"profiling", "off"} /\ pc[p] = "absent"
      /\ pc' = [pc EXCEPT ![p] = "starting"]
      /\ UNCHANGED <<name, content, kept, overwritten, tracebuffer_file,
                     tracebuffer_header_count, tracebuffer_index, recorded, readervars>>
  BY DEF StartOther, Step, filevars, history, openvars
<1>2. WriterTypes'
  BY <1>0, <1>1 DEF WriterTypes
<1>3. StepOf(p)
  BY <1>0, <1>1 DEF StepOf, WriterTypes
<1>4. pc'[p] = "starting"
  BY <1>0, <1>1 DEF WriterTypes
<1>5. Writer(p)'
  BY <1>0, <1>1, <1>4 DEF Writer, Opened, Unopened
<1>6. Held(p)'
  <2>1. ~Opened(p)
    BY <1>0, <1>1 DEF Writer, Unopened
  <2> QED
    BY <1>1, <2>1 DEF Held, Followed, Opened
<1>7. Works(p)
  BY <1>0, <1>1, <1>4 DEF Works, Alone, Unopened
<1> QED
  BY <1>0, <1>1, <1>2, <1>3, <1>5, <1>6, <1>7, StepInv

(* The fopen: the name leads to a file nobody knows yet; whoever was       *)
(* writing to the one it led to before writes to this one.                 *)
LEMMA OpenInv ==
  ASSUME Inv, NEW p \in Process, Open(p)
  PROVE  Inv'
<1> USE DEF Inv
<1>0. /\ p \in Inode /\ WriterTypes /\ Writer(p) /\ Files
      /\ \A q \in Process : Writer(q)
      /\ None \notin Process /\ Earlier \notin Process /\ Profilee \in Process
      /\ \A q \in Others : q \in Process /\ q # Profilee
  BY TypesSplit, ProcessAssumption DEF Files, Inode, Process
<1>1. pc[p] = "unlinked"
  BY DEF Open, Step
<1>2. /\ tracebuffer_file[p] = None /\ name # p /\ tracebuffer_header_count[p] = 0
      /\ recorded[p] = 0 /\ tracebuffer_index[p] <= recorded[p]
      /\ tracebuffer_index[p] \in 0 .. BUFSIZE - 1
  BY <1>0, <1>1 DEF Writer, Opened, Unopened, WriterTypes
<1> DEFINE new == <<Magic, Count(0)>>
           Moved(q) == q = p \/ (name # None /\ tracebuffer_file[q] = name /\ ~Gone(q))
<1>3. File(p, 0, new) /\ Len(new) = 2
  BY <1>0, NewFile
<1> HIDE DEF new
<1>4. /\ pc' = [pc EXCEPT ![p] = "header"]
      /\ name' = p
      /\ content' = new
      /\ tracebuffer_file' = [q \in Process |-> IF Moved(q) THEN p ELSE tracebuffer_file[q]]
      /\ overwritten' = (overwritten \/ (name # None /\ name = mapped_file))
      /\ UNCHANGED <<kept, tracebuffer_header_count, tracebuffer_index, recorded, readervars>>
  BY DEF Open, Step, Sharers, new
<1>5. /\ tracebuffer_file'[p] = p /\ pc'[p] = "header"
      /\ \A q \in Process : tracebuffer_file'[q] = IF Moved(q) THEN p ELSE tracebuffer_file[q]
      /\ \A q \in Process \ {p} : pc'[q] = pc[q]
  BY <1>0, <1>4 DEF WriterTypes
<1> HIDE DEF Moved
<1>6. \A q \in Process : q # p => Opened(q)' = Opened(q)
  <2>1. ASSUME NEW q \in Process, q # p
        PROVE  tracebuffer_file'[q] # None <=> tracebuffer_file[q] # None
    BY <1>0, <1>5, <2>1 DEF Moved
  <2> QED
    BY <2>1 DEF Opened
<1>7. Opened(p)'
  BY <1>0, <1>5 DEF Opened
<1>8. TypeOK'
  <2>1. WriterTypes'
    <3>1. content' \in Seq(AnyCell)
      BY <1>3, <1>4 DEF File
    <3>2. tracebuffer_file' \in [Process -> Inode \cup {None}]
      BY <1>0, <1>4 DEF WriterTypes
    <3>3. overwritten' \in BOOLEAN
      BY <1>0, <1>4 DEF WriterTypes
    <3> QED
      BY <1>0, <1>4, <3>1, <3>2, <3>3 DEF WriterTypes
  <2> QED
    BY <1>4, <2>1, TypesSplit
<1>9. ASSUME NEW q \in Process PROVE Writer(q)'
  <2>1. CASE q = p
    <3>1. tracebuffer_index[p] = 0
      BY <1>2, BUFSIZEAssumption
    <3> QED
      BY <1>2, <1>4, <1>5, <1>7, <2>1, <3>1 DEF Writer, Unopened
  <2>2. CASE q # p
    <3>1. Writer(q) /\ pc'[q] = pc[q] /\ Opened(q)' = Opened(q)
      BY <1>0, <1>5, <1>6, <2>2
    <3>2. tracebuffer_file'[q] \in {tracebuffer_file[q], p}
      BY <1>5
    <3>3. (tracebuffer_file[q] \in Process => Opened(tracebuffer_file[q]))'
      <4>1. CASE tracebuffer_file'[q] = p
        BY <1>7, <4>1 DEF Opened
      <4>2. CASE tracebuffer_file'[q] = tracebuffer_file[q] /\ tracebuffer_file[q] # p
        BY <1>6, <3>1, <4>2 DEF Writer, Opened
      <4> QED
        BY <3>2, <4>1, <4>2
    <3>4. name' # q
      BY <1>4, <2>2
    <3>5. /\ recorded'[q] = recorded[q] /\ tracebuffer_index'[q] = tracebuffer_index[q]
          /\ tracebuffer_header_count'[q] = tracebuffer_header_count[q]
      BY <1>4
    <3>6. tracebuffer_file'[q] \in Process \cup {None}
      BY <3>1, <3>2 DEF Writer
    <3> QED
      BY <3>1, <3>3, <3>4, <3>5, <3>6 DEF Writer, Opened
  <2> QED
    BY <2>1, <2>2
<1>10. ASSUME NEW q \in Process PROVE Held(q)'
  <2>1. CASE q = p
    <3>1. CutFile(p, 0, new)
      BY <1>3, FileIsCut
    <3>2. /\ File(p, 0, content') /\ CutFile(p, 0, content')
          /\ Len(content') = 2 + tracebuffer_header_count'[p]
      BY <1>2, <1>3, <1>4, <3>1
    <3> QED
      BY <1>5, <2>1, <3>2 DEF Held
  <2>2. CASE q # p
    BY <1>4, <2>2 DEF Held, Followed, Shared, Sharers
  <2> QED
    BY <2>1, <2>2
<1>11. Files'
  BY <1>0, <1>4, <1>5, <1>9, <1>10 DEF Files, Named
<1>12. Private'
  <2>1. CASE p = Profilee
    <3>1. \A q \in Others : pc[q] = "absent" /\ ~Opened(q)
      BY <1>0, <1>1, <2>1 DEF Private, Writer, Unopened
    <3>2. \A q \in Others : pc'[q] = "absent" /\ ~Opened(q)'
      BY <1>0, <1>5, <1>6, <2>1, <3>1
    <3> QED
      BY <1>0, <1>5, <2>1, <3>2 DEF Private, Opened
  <2>2. CASE p # Profilee
    <3>1. p \in Others /\ pc'[Profilee] = pc[Profilee] /\ kept' = kept
      BY <1>0, <1>4, <1>5, <2>2 DEF Process
    <3>2. pc[Profilee] \notin Unopened \cup {"header"}
      BY <1>1, <3>1 DEF Private
    <3>3. \A q \in Others : tracebuffer_file'[q] # Profilee
      BY <1>0, <1>5, <2>2 DEF Private
    <3>4. ~kept => tracebuffer_file'[Profilee] \in {None, Profilee}
      <4> SUFFICES ASSUME ~kept PROVE tracebuffer_file'[Profilee] \in {None, Profilee}
        OBVIOUS
      <4>1. name # Profilee /\ tracebuffer_file[Profilee] \in {None, Profilee}
        BY <1>1, <3>1 DEF Private
      <4>2. ~Moved(Profilee)
        BY <2>2, <4>1 DEF Moved
      <4> QED
        BY <1>0, <1>5, <4>1, <4>2
    <3> QED
      BY <1>4, <2>2, <3>1, <3>2, <3>3, <3>4 DEF Private
  <2> QED
    BY <2>1, <2>2
<1>13. Reading =>
         /\ p # Profilee /\ outlived
         /\ pc'[Profilee] = pc[Profilee] /\ recorded'[Profilee] = recorded[Profilee]
         /\ Opened(Profilee)' = Opened(Profilee)
  <2> SUFFICES ASSUME Reading
               PROVE  /\ p # Profilee /\ outlived
                      /\ pc'[Profilee] = pc[Profilee] /\ recorded'[Profilee] = recorded[Profilee]
                      /\ Opened(Profilee)' = Opened(Profilee)
    OBVIOUS
  <2>1. p # Profilee
    BY <1>1 DEF Alone
  <2>2. outlived
    BY <1>1, <2>1, Outlives DEF Gone
  <2> QED
    BY <1>0, <1>4, <1>5, <1>6, <2>1, <2>2
<1>14. /\ reader' = reader /\ header_file' = header_file /\ outlived' = outlived
       /\ mapped_file' = mapped_file /\ packets' = packets /\ i' = i /\ handled' = handled
       /\ ended' = ended /\ tracebuffer_packets_offset' = tracebuffer_packets_offset
  BY <1>4 DEF readervars
<1>15. Alone'
  <2>1. reader # "forking"
    BY <1>1 DEF Alone
  <2> QED
    BY <1>13, <1>14, <2>1 DEF Alone, Reading
<1>16. ASSUME NEW f, Made(f)
       PROVE  /\ f # p
              /\ f # None /\ (f \in Process => Opened(f)')
              /\ f # name => Shared(f)' = Shared(f)
  <2>1. f # p
    BY <1>2, <1>16 DEF Made, Opened
  <2>2. f # None /\ (f \in Process => Opened(f)')
    <3>1. CASE f \in Process
      <4>1. Opened(f)' = Opened(f)
        BY <1>6, <2>1, <3>1
      <4> QED
        BY <1>16, <3>1, <4>1 DEF Made
    <3>2. CASE f \notin Process
      BY <1>16, <3>2 DEF Made
    <3> QED
      BY <3>1, <3>2
  <2>3. f # name => \A q \in Process : tracebuffer_file'[q] = f <=> tracebuffer_file[q] = f
    BY <1>2, <1>5, <2>1, <2>2 DEF Moved
  <2> QED
    BY <2>1, <2>2, <2>3 DEF Shared, Sharers
<1>17. HeaderRead'
  <2>1. reader \in {"mapping", "handling", "profile"} => Reading
    BY DEF Reading
  <2> QED
    BY <1>13, <1>14, <1>16, <2>1 DEF HeaderRead, Made, Opened
<1>18. Mapping'
  <2> SUFFICES ASSUME reader' = "mapping" PROVE Mapping'
    BY DEF Mapping
  <2>1. outlived'
    BY <1>13, <1>14 DEF Reading
  <2>2. name' # header_file'
    BY <1>4, <1>14, <1>16 DEF HeaderRead
  <2> QED
    BY <2>1, <2>2 DEF Mapping
<1>19. Handling'
  <2>1. reader' \in {"handling", "profile"} =>
          IF Spoiled' THEN outlived'
          ELSE /\ \/ Shared(mapped_file)'
                  \/ packets' = <<NoPacket>>
                  \/ \A k \in 1 .. Len(packets') : packets'[k] = Packet(mapped_file', k)
               /\ mapped_file' = Profilee /\ pc'[Profilee] = "exited" =>
                    Len(packets') = recorded'[Profilee] /\ packets' # <<NoPacket>>
    <3> SUFFICES ASSUME reader' \in {"handling", "profile"}, ~Spoiled'
                 PROVE  /\ \/ Shared(mapped_file)'
                           \/ packets' = <<NoPacket>>
                           \/ \A k \in 1 .. Len(packets') : packets'[k] = Packet(mapped_file', k)
                        /\ mapped_file' = Profilee /\ pc'[Profilee] = "exited" =>
                             Len(packets') = recorded'[Profilee] /\ packets' # <<NoPacket>>
      BY <1>13, <1>14 DEF Reading
    <3>1. Reading /\ Made(mapped_file)
      BY <1>14 DEF Reading, HeaderRead
    <3>2. ~Spoiled /\ mapped_file # name
      BY <1>4, <1>14, <3>1 DEF Spoiled, Mixed, Made
    <3>3. Shared(mapped_file)' = Shared(mapped_file)
      BY <1>14, <1>16, <3>1, <3>2 DEF Shared, Sharers
    <3> QED
      BY <1>13, <1>14, <3>1, <3>2, <3>3 DEF Handling
  <2>2. ~overwritten' => ~overwritten
    BY <1>4
  <2>3. reader \in {"forking", "waiting", "opening", "mapping"} => overwritten' = FALSE
    BY <1>4 DEF Handling
  <2> QED
    BY <1>14, <2>1, <2>2, <2>3 DEF Handling
<1> QED
  BY <1>8, <1>11, <1>12, <1>15, <1>17, <1>18, <1>19

-----------------------------------------------------------------------------
(* The steps of graprof change no file.                                    *)
LEMMA FilesKept ==
  ASSUME Files, Private, UNCHANGED <<filevars, writervars>>
  PROVE  /\ Files' /\ Private'
         /\ \A f : Shared(f)' = Shared(f) /\ Made(f)' = Made(f)
         /\ \A p : Opened(p)' = Opened(p) /\ Gone(p)' = Gone(p)
<1>1. UNCHANGED <<name, content, kept, overwritten, tracebuffer_file, tracebuffer_header_count,
                  tracebuffer_index, recorded, pc>>
  BY DEF filevars, writervars, history, openvars
<1> QED
  BY <1>1 DEF Files, Named, Writer, Held, Followed, Shared, Sharers, Opened, File, CutFile,
     Lengths, CellAt, Objects, Private, Made, Gone

LEMMA ForkInv ==
  ASSUME Inv, Fork
  PROVE  Inv'
<1> USE DEF Inv
<1>0. /\ Profilee \in Process /\ WriterTypes /\ Files
      /\ \A q \in Others : q \in Process /\ q # Profilee
      /\ \A p \in Process : Writer(p) /\ Held(p)
  BY TypesSplit, ProcessAssumption DEF Files, Process
<1>1. /\ reader = "forking" /\ reader' = "waiting"
      /\ pc' = [pc EXCEPT ![Profilee] = "starting"]
      /\ UNCHANGED <<name, content, kept, overwritten, tracebuffer_file,
                     tracebuffer_header_count, tracebuffer_index, recorded, outlived,
                     tracebuffer_packets_offset, header_file, mapped_file, packets, i, handled,
                     ended>>
  BY DEF Fork, Go, filevars, history, openvars
<1>2. \A p \in Process : pc[p] = "absent"
  BY <1>1 DEF Alone
<1>3. TypeOK'
  BY <1>0, <1>1 DEF TypeOK
<1>4. /\ \A q \in Process : pc'[q] \in {"absent", "starting"}
      /\ \A q \in Others : pc'[q] = "absent"
  BY <1>0, <1>1, <1>2 DEF WriterTypes
<1>5. Files'
  <2>1. ASSUME NEW p \in Process PROVE Writer(p)'
    <3>1. Writer(p) /\ pc[p] = "absent"
      BY <1>0, <1>2
    <3> QED
      BY <1>1, <1>4, <3>1 DEF Writer, Opened, Unopened
  <2>2. ASSUME NEW p \in Process PROVE Held(p)'
    <3>1. ~Opened(p)
      BY <1>0, <1>2 DEF Writer, Unopened
    <3> QED
      BY <1>1, <3>1 DEF Held, Followed, Opened
  <2>3. Named'
    BY <1>0, <1>1 DEF Files, Named, Opened, File, Lengths, CellAt, Objects
  <2> QED
    BY <2>1, <2>2, <2>3 DEF Files
<1>6. Private'
  BY <1>1, <1>4 DEF Private
<1>7. Alone' /\ HeaderRead' /\ Mapping'
  BY <1>1 DEF Alone, Reading, HeaderRead, Mapping
<1>8. Handling'
  BY <1>1 DEF Handling
<1> QED
  BY <1>3, <1>5, <1>6, <1>7, <1>8

LEMMA NothingTracedInv ==
  ASSUME Inv, NothingTraced
  PROVE  Inv'
<1> USE DEF Inv
<1>1. /\ reader = "forking" /\ reader' = "opening"
      /\ UNCHANGED <<filevars, writervars>>
      /\ UNCHANGED <<name, content, kept, overwritten, tracebuffer_file,
                     tracebuffer_header_count, tracebuffer_index, recorded, pc, outlived,
                     tracebuffer_packets_offset, header_file, mapped_file, packets, i, handled,
                     ended>>
  BY DEF NothingTraced, Go, filevars, writervars, history, openvars
<1>2. \A p \in Process : pc[p] = "absent"
  BY <1>1 DEF Alone
<1>3. TypeOK'
  BY <1>1 DEF TypeOK
<1>4. Files' /\ Private'
  BY <1>1, FilesKept
<1>5. Alone'
  BY <1>1, <1>2 DEF Alone, Process
<1>6. HeaderRead' /\ Mapping' /\ Handling'
  BY <1>1 DEF HeaderRead, Mapping, Handling
<1> QED
  BY <1>3, <1>4, <1>5, <1>6

LEMMA WaitForChildInv ==
  ASSUME Inv, WaitForChild
  PROVE  Inv'
<1> USE DEF Inv
<1>1. /\ reader = "waiting" /\ reader' = "opening" /\ Gone(Profilee)
      /\ outlived' = \E p \in Others : pc[p] # "absent" /\ ~Gone(p)
      /\ UNCHANGED <<filevars, writervars>>
      /\ UNCHANGED <<name, content, kept, overwritten, tracebuffer_file,
                     tracebuffer_header_count, tracebuffer_index, recorded, pc,
                     tracebuffer_packets_offset, header_file, mapped_file, packets, i, handled,
                     ended>>
  BY DEF WaitForChild, Go, Waited, filevars, writervars, history, openvars
<1>2. outlived' \in BOOLEAN
  BY <1>1
<1>3. TypeOK'
  BY <1>1, <1>2 DEF TypeOK
<1>4. Files' /\ Private'
  BY <1>1, FilesKept
<1>5. Alone'
  BY <1>1 DEF Alone, Gone
<1>6. HeaderRead' /\ Mapping' /\ Handling'
  BY <1>1 DEF HeaderRead, Mapping, Handling
<1> QED
  BY <1>3, <1>4, <1>5, <1>6

LEMMA ReadHeaderInv ==
  ASSUME Inv, ReadHeader
  PROVE  Inv'
<1> USE DEF Inv
<1>0. /\ Profilee \in Process /\ WriterTypes /\ Files /\ \A p \in Process : Writer(p) /\ Held(p)
      /\ name \in Inode \cup {None} /\ Earlier \notin Process
  BY TypesSplit, ProcessAssumption DEF Files, Process, WriterTypes
<1>1. /\ reader = "opening" /\ reader' = "mapping" /\ name # None /\ header_file' = name
      /\ UNCHANGED <<filevars, writervars>>
      /\ UNCHANGED <<name, content, kept, overwritten, tracebuffer_file,
                     tracebuffer_header_count, tracebuffer_index, recorded, pc, outlived,
                     mapped_file, packets, i, handled, ended>>
  BY DEF ReadHeader, Go, filevars, writervars, history, openvars
<1>2. name \in Inode /\ Objects(name) \in Nat \ {0}
  BY <1>0, <1>1, ObjectsType
<1>3. Files' /\ Private' /\ (\A f : Shared(f)' = Shared(f) /\ Made(f)' = Made(f))
      /\ \A p : Opened(p)' = Opened(p)
  BY <1>1, FilesKept
<1>4. ~Shared(name) =>
        \E n \in {0, Objects(name)} :
          /\ CutFile(name, n, content)
          /\ tracebuffer_packets_offset' = IF n = 0 THEN 2 ELSE 2 + Objects(name)
          /\ name = Profilee /\ pc[Profilee] = "exited" => n = Objects(Profilee)
  <2> SUFFICES ASSUME ~Shared(name)
               PROVE  \E n \in {0, Objects(name)} :
                        /\ CutFile(name, n, content)
                        /\ tracebuffer_packets_offset' = IF n = 0 THEN 2 ELSE 2 + Objects(name)
                        /\ name = Profilee /\ pc[Profilee] = "exited" => n = Objects(Profilee)
    OBVIOUS
  <2>1. PICK v \in Views : HasHeader(v) /\ tracebuffer_packets_offset' = HeaderOf(v)
    BY DEF ReadHeader
  <2>2. PICK n : CutFile(name, n, content) /\ CutFile(name, n, v)
    BY <1>0, <1>2, ViewsCut DEF WriterTypes
  <2>3. n \in {0, Objects(name)}
    BY <2>2 DEF CutFile
  <2>4. tracebuffer_packets_offset' = IF n = 0 THEN 2 ELSE 2 + Objects(name)
    BY <1>2, <2>1, <2>2, HeaderOfCut
  <2>5. name = Profilee /\ pc[Profilee] = "exited" => n = Objects(Profilee)
    <3> SUFFICES ASSUME name = Profilee, pc[Profilee] = "exited" PROVE n = Objects(Profilee)
      OBVIOUS
    <3>1. File(Profilee, Objects(Profilee), content)
      BY <1>0, Owner DEF Held
    <3> QED
      BY <1>2, <2>2, <3>1, FileIsCut, OneCount
  <2> QED
    BY <2>2, <2>3, <2>4, <2>5
<1>5. tracebuffer_packets_offset' \in Nat
  <2>1. CASE Shared(name)
    <3>1. tracebuffer_packets_offset' \in {2} \cup {2 + ObjectFiles[p] : p \in Sharers(name)}
      BY <2>1 DEF ReadHeader
    <3>2. \A p \in Sharers(name) : ObjectFiles[p] \in Nat
      BY ObjectFilesAssumption DEF Sharers
    <3> QED
      BY <3>1, <3>2
  <2>2. CASE ~Shared(name)
    BY <1>2, <1>4, <2>2
  <2> QED
    BY <2>1, <2>2
<1>6. TypeOK'
  BY <1>0, <1>1, <1>2, <1>5 DEF TypeOK
<1>7. Alone'
  BY <1>1 DEF Alone, Reading, Gone
<1>8. HeaderRead'
  <2>1. Made(name)
    <3>1. name \in Process => tracebuffer_file[name] = name /\ name # None
      BY <1>0, <1>1 DEF Files, Named
    <3> QED
      BY <1>1, <3>1 DEF Made, Opened
  <2>2. name = Earlier => ~Opened(Profilee)
    BY <1>0 DEF Files, Named
  <2> QED
    BY <1>1, <1>3, <2>1, <2>2 DEF HeaderRead
<1>9. Mapping'
  <2>1. HeaderComplete' <=> CutFile(name, Objects(name), content)
    BY <1>1 DEF HeaderComplete, CutFile, Lengths, CellAt, Objects
  <2>2. ASSUME ~Shared(name)
        PROVE  /\ \/ tracebuffer_packets_offset' = 2
                  \/ HeaderComplete' /\ tracebuffer_packets_offset' = 2 + Objects(name)
               /\ name = Profilee /\ pc[Profilee] = "exited" =>
                    tracebuffer_packets_offset' = 2 + Objects(Profilee)
    <3>1. PICK n \in {0, Objects(name)} :
            /\ CutFile(name, n, content)
            /\ tracebuffer_packets_offset' = IF n = 0 THEN 2 ELSE 2 + Objects(name)
            /\ name = Profilee /\ pc[Profilee] = "exited" => n = Objects(Profilee)
      BY <1>4, <2>2
    <3> QED
      BY <1>2, <2>1, <3>1
  <2>3. Shared(name)' = Shared(name)
    BY <1>1 DEF Shared, Sharers
  <2> QED
    BY <1>1, <2>2, <2>3 DEF Mapping, Objects
<1>10. Handling'
  BY <1>1 DEF Handling
<1> QED
  BY <1>3, <1>6, <1>7, <1>8, <1>9, <1>10

(* The trace is given up, or graprof crashes on it.                        *)
LEMMA StoppedInv ==
  ASSUME Inv, Corrupt \/ UnknownType \/ Overrun
  PROVE  Inv'
<1> USE DEF Inv
<1>1. /\ reader \in {"opening", "mapping", "handling"} /\ reader' \in {"corrupt", "crashed"}
      /\ reader' = "crashed" => \/ reader = "mapping" /\ name # header_file
                                \/ reader = "handling" /\ overwritten
      /\ mapped_file' = mapped_file \/ mapped_file' = name
      /\ UNCHANGED <<filevars, writervars>>
      /\ UNCHANGED <<name, content, kept, overwritten, tracebuffer_file,
                     tracebuffer_header_count, tracebuffer_index, recorded, pc, outlived,
                     tracebuffer_packets_offset, header_file, packets, i, handled, ended>>
  BY DEF Corrupt, UnknownType, Overrun, Go, filevars, writervars, history, openvars
<1>2. TypeOK'
  BY <1>1 DEF TypeOK
<1>3. Files' /\ Private'
  BY <1>1, FilesKept
<1>4. Alone'
  BY <1>1 DEF Alone, Reading, Gone
<1>5. HeaderRead' /\ Mapping'
  BY <1>1 DEF HeaderRead, Mapping
<1>6. Handling'
  <2>1. reader' = "crashed" => outlived
    BY <1>1 DEF Mapping, Handling, Spoiled
  <2> QED
    BY <1>1, <2>1 DEF Handling
<1> QED
  BY <1>2, <1>3, <1>4, <1>5, <1>6

LEMMA FinishInv ==
  ASSUME Inv, Finish
  PROVE  Inv'
<1> USE DEF Inv
<1>1. /\ reader = "handling" /\ reader' = "profile" /\ i = Len(packets)
      /\ UNCHANGED <<filevars, writervars>>
      /\ UNCHANGED <<name, content, kept, overwritten, tracebuffer_file,
                     tracebuffer_header_count, tracebuffer_index, recorded, pc, outlived,
                     tracebuffer_packets_offset, header_file, mapped_file, packets, i, handled,
                     ended>>
  BY DEF Finish, Go, filevars, writervars, history, openvars
<1>2. TypeOK'
  BY <1>1 DEF TypeOK
<1>3. Files' /\ Private' /\ (\A f : Made(f)' = Made(f)) /\ \A p : Opened(p)' = Opened(p)
  BY <1>1, FilesKept
<1>4. Alone'
  BY <1>1 DEF Alone, Reading, Gone
<1>5. HeaderRead' /\ Mapping'
  BY <1>1, <1>3 DEF HeaderRead, Mapping, Made, Opened
<1>6. Handling'
  BY <1>1 DEF Handling, Mixed, Spoiled, Shared, Sharers
<1> QED
  BY <1>2, <1>3, <1>4, <1>5, <1>6

LEMMA MapPacketsInv ==
  ASSUME Inv, MapPackets
  PROVE  Inv'
<1> USE DEF Inv
<1>0. /\ Profilee \in Process /\ WriterTypes /\ Files /\ \A p \in Process : Writer(p) /\ Held(p)
      /\ name \in Inode \cup {None} /\ tracebuffer_packets_offset \in Nat
      /\ \A q \in Process : q # Profilee => q \in Others
  BY TypesSplit DEF Files, Process, WriterTypes, TypeOK
<1>1. /\ reader = "mapping" /\ reader' = "handling" /\ name # None /\ mapped_file' = name
      /\ UNCHANGED <<filevars, writervars>>
      /\ UNCHANGED <<name, content, kept, overwritten, tracebuffer_file,
                     tracebuffer_header_count, tracebuffer_index, recorded, pc, outlived,
                     tracebuffer_packets_offset, header_file, i, handled, ended>>
  BY DEF MapPackets, Go, filevars, writervars, history, openvars
<1>2. packets = <<>> /\ i = 0 /\ ended = FALSE /\ overwritten = FALSE
  BY <1>1 DEF Handling
<1>3. \/ /\ ~Shared(name)
         /\ \E v \in Views : packets' \in PacketsIn(v, tracebuffer_packets_offset)
      \/ /\ Shared(name) \/ name # header_file
         /\ packets' \in Scrambled
  BY DEF MapPackets
<1>4. name \in Inode /\ Objects(name) \in Nat \ {0}
  BY <1>0, <1>1, ObjectsType
<1>5. ASSUME ~Shared(name), NEW v \in Views
      PROVE  /\ \E n : CutFile(name, n, content) /\ CutFile(name, n, v)
             /\ name \in Process /\ Gone(name) => v = content
  BY <1>0, <1>4, <1>5, ViewsCut DEF WriterTypes
<1>6. packets' \in Seq(AnyCell)
  <2>1. CASE packets' \in Scrambled
    <3>1. NoPacket \in AnyCell /\ Garbage \in AnyCell
      BY DEF NoPacket, Garbage, Cell, AnyCell
    <3>2. <<>> \in Seq(AnyCell) /\ <<NoPacket>> \in Seq(AnyCell) /\ <<Garbage>> \in Seq(AnyCell)
      BY <3>1
    <3> QED
      BY <2>1, <3>2 DEF Scrambled
  <2>2. CASE ~Shared(name) /\ \E v \in Views : packets' \in PacketsIn(v, tracebuffer_packets_offset)
    <3>1. PICK v \in Views : packets' \in PacketsIn(v, tracebuffer_packets_offset)
      BY <2>2
    <3>2. v \in Seq(AnyCell)
      BY <1>5, <2>2 DEF CutFile
    <3> QED
      BY <1>0, <3>1, <3>2, PacketsTyped
  <2> QED
    BY <1>3, <2>1, <2>2
<1>7. Len(packets') \in Nat /\ (packets' # <<>> => Len(packets') # 0)
  BY <1>6
<1>8. TypeOK'
  BY <1>1, <1>2, <1>4, <1>6, <1>7 DEF TypeOK
<1>9. Files' /\ Private' /\ (\A f : Shared(f)' = Shared(f) /\ Made(f)' = Made(f))
      /\ \A p : Opened(p)' = Opened(p)
  BY <1>1, FilesKept
<1>10. Alone'
  BY <1>1 DEF Alone, Reading, Gone
<1>11. HeaderRead'
  <2>1. Made(name)
    <3>1. name \in Process => tracebuffer_file[name] = name /\ name # None
      BY <1>0, <1>1 DEF Files, Named
    <3> QED
      BY <1>1, <3>1 DEF Made, Opened
  <2>2. Made(header_file) /\ (header_file = Earlier => ~Opened(Profilee))
    BY <1>1 DEF HeaderRead
  <2> QED
    BY <1>1, <1>9, <2>1, <2>2 DEF HeaderRead, Made, Opened
<1>12. Mapping'
  BY <1>1 DEF Mapping
<1>13. /\ Len(handled) = 0 /\ handled' = handled /\ i' = 0 /\ ended' = FALSE
       /\ overwritten' = FALSE /\ mapped_file' = name /\ pc' = pc /\ recorded' = recorded
       /\ Shared(mapped_file)' = Shared(name)
  BY <1>1, <1>2 DEF Handling, Shared, Sharers
<1>14. Handling'
  <2>1. CASE name # header_file
    <3>1. Spoiled' /\ outlived'
      BY <1>1, <2>1 DEF Mixed, Spoiled, Mapping
    <3> QED
      BY <1>1, <1>7, <1>13, <3>1 DEF Handling
  <2>2. CASE name = header_file /\ Shared(name)
    <3>1. name # Profilee
      BY <1>0, <2>2 DEF Private, Shared, Sharers
    <3>2. ~Spoiled'
      BY <1>1, <1>13, <2>2 DEF Mixed, Spoiled
    <3> QED
      BY <1>1, <1>7, <1>13, <2>2, <3>1, <3>2 DEF Handling
  <2>3. CASE name = header_file /\ ~Shared(name)
    <3>1. ~Spoiled'
      BY <1>1, <1>13, <2>3 DEF Mixed, Spoiled
    <3>2. PICK v \in Views : packets' \in PacketsIn(v, tracebuffer_packets_offset)
      BY <1>3, <2>3
    <3>3. PICK n : CutFile(name, n, content) /\ CutFile(name, n, v)
      BY <1>5, <2>3
    <3>4. \/ tracebuffer_packets_offset = 2
          \/ n = Objects(name) /\ tracebuffer_packets_offset = 2 + Objects(name)
      BY <1>1, <1>4, <2>3, <3>3, OneCount DEF Mapping, HeaderComplete
    <3>5. /\ packets' = <<NoPacket>> \/ \A k \in 1 .. Len(packets') : packets'[k] = Packet(name, k)
          /\ File(name, n, v) /\ tracebuffer_packets_offset = 2 + Objects(name) =>
               Len(packets') = Len(v) - tracebuffer_packets_offset /\ packets' # <<NoPacket>>
      BY <1>4, <3>2, <3>3, <3>4, PacketsOfCut
    <3>6. ASSUME name = Profilee, pc[Profilee] = "exited"
          PROVE  Len(packets') = recorded[Profilee] /\ packets' # <<NoPacket>>
      <4>1. /\ File(name, Objects(name), content)
            /\ Len(content) = 2 + Objects(name) + recorded[name]
            /\ recorded[name] \in Nat
        <5>1. Writer(name) /\ Held(name) /\ Followed(name) /\ recorded[name] \in Nat
          BY <1>0, <2>3, <3>6, Owner DEF WriterTypes
        <5>2. /\ File(name, Objects(name), content)
              /\ tracebuffer_index[name] = 0
              /\ Len(content) = 2 + Objects(name) + recorded[name] - tracebuffer_index[name]
          BY <3>6, <5>1 DEF Writer, Held
        <5> QED
          BY <1>4, <5>1, <5>2
      <4>2. v = content
        BY <1>0, <1>5, <2>3, <3>6 DEF Gone
      <4>3. n = Objects(name)
        BY <1>4, <3>3, <4>1, FileIsCut, OneCount
      <4>4. tracebuffer_packets_offset = 2 + Objects(name)
        BY <1>1, <2>3, <3>6 DEF Mapping
      <4> QED
        BY <1>4, <3>5, <3>6, <4>1, <4>2, <4>3, <4>4
    <3> QED
      BY <1>1, <1>7, <1>13, <3>1, <3>5, <3>6 DEF Handling
  <2> QED
    BY <2>1, <2>2, <2>3
<1> QED
  BY <1>8, <1>9, <1>10, <1>11, <1>12, <1>14

LEMMA HandlePacketInv ==
  ASSUME Inv, HandlePacket
  PROVE  Inv'
<1> USE DEF Inv
<1>0. PICK c \in Read(i + 1) : c.kind = "packet" /\ handled' = Append(handled, c)
  BY DEF HandlePacket
<1>1. /\ reader = "handling" /\ reader' = reader
      /\ i < Len(packets)
      /\ ended' = (i = Len(packets) - 1)
      /\ i' = i + 1
      /\ UNCHANGED <<filevars, writervars>>
      /\ UNCHANGED <<name, content, kept, overwritten, tracebuffer_file,
                     tracebuffer_header_count, tracebuffer_index, recorded, pc, outlived,
                     tracebuffer_packets_offset, header_file, mapped_file, packets>>
  BY DEF HandlePacket, IsLast, filevars, writervars, history, openvars
<1>2. /\ packets \in Seq(AnyCell) /\ handled \in Seq(AnyCell) /\ Len(packets) \in Nat /\ i \in Nat
      /\ Len(handled) = i
      /\ ~overwritten => \A k \in 1 .. i : handled[k] = packets[k] /\ packets[k].kind = "packet"
  BY DEF TypeOK, Handling
<1>3. i + 1 \in 1 .. Len(packets) /\ packets[i + 1] \in AnyCell
  BY <1>1, <1>2
<1>4. c \in AnyCell /\ (~overwritten => c = packets[i + 1])
  <2>1. NoPacket \in AnyCell /\ Garbage \in AnyCell
    BY DEF NoPacket, Garbage, Cell, AnyCell
  <2>2. c \in {packets[i + 1], NoPacket, Garbage} /\ (~overwritten => c = packets[i + 1])
    BY DEF Read
  <2> QED
    BY <1>3, <2>1, <2>2
<1>5. /\ handled' \in Seq(AnyCell) /\ Len(handled') = i + 1
      /\ handled'[i + 1] = c
      /\ \A k \in 1 .. i : handled'[k] = handled[k]
  BY <1>0, <1>2, <1>4
<1>6. TypeOK'
  <2>1. i' \in 0 .. Len(packets') /\ ended' \in BOOLEAN
    BY <1>1, <1>2
  <2> QED
    BY <1>1, <1>5, <2>1 DEF TypeOK
<1>7. Files' /\ Private' /\ (\A f : Made(f)' = Made(f)) /\ \A p : Opened(p)' = Opened(p)
  BY <1>1, FilesKept
<1>8. Alone'
  BY <1>1 DEF Alone, Reading, Gone
<1>9. HeaderRead' /\ Mapping'
  BY <1>1, <1>7 DEF HeaderRead, Mapping, Made, Opened
<1>10. Handling'
  <2>1. ASSUME ~overwritten, NEW k \in 1 .. i'
        PROVE  handled'[k] = packets[k] /\ packets[k].kind = "packet"
    <3>1. CASE k = i + 1
      BY <1>0, <1>4, <1>5, <2>1, <3>1
    <3>2. CASE k # i + 1
      <4>1. k \in 1 .. i
        BY <1>1, <1>2, <3>2
      <4> QED
        BY <1>2, <1>5, <2>1, <4>1
    <3> QED
      BY <3>1, <3>2
  <2>2. ended' <=> packets # <<>> /\ i' = Len(packets)
    <3>1. packets # <<>>
      BY <1>2, <1>3
    <3>2. i = Len(packets) - 1 <=> i' = Len(packets)
      BY <1>1, <1>2
    <3> QED
      BY <1>1, <3>1, <3>2, Zenon
  <2> QED
    BY <1>1, <1>5, <2>1, <2>2 DEF Handling, Mixed, Spoiled, Shared, Sharers
<1> QED
  BY <1>6, <1>7, <1>8, <1>9, <1>10

-----------------------------------------------------------------------------
LEMMA InitInv == Init => Inv
<1> SUFFICES ASSUME Init PROVE Inv
  OBVIOUS
<1>1. /\ name \in {Earlier, None} /\ reader = "forking" /\ tracebuffer_packets_offset = 0
      /\ pc = [p \in Process |-> "absent"]
      /\ tracebuffer_file = [p \in Process |-> None]
      /\ tracebuffer_header_count = [p \in Process |-> 0]
      /\ tracebuffer_index = [p \in Process |-> 0]
      /\ recorded = [p \in Process |-> 0]
      /\ header_file = None /\ mapped_file = None /\ packets = <<>> /\ i = 0
      /\ handled = <<>> /\ ended = FALSE /\ outlived = FALSE
      /\ kept = FALSE /\ overwritten = FALSE
  BY DEF Init
<1> DEFINE old == <<Magic, Count(1), Entry(Earlier), Packet(Earlier, 1)>>
<1>2. content = IF name = Earlier THEN old ELSE <<>>
  BY DEF Init
<1>3. /\ Earlier \notin Process /\ None \notin Process /\ Earlier \in Inode
      /\ Objects(Earlier) = 1 /\ None # Earlier
  BY ProcessAssumption DEF Inode, Objects
<1>4. File(Earlier, 1, old)
  <2> DEFINE a == Magic
             b == Count(1)
             c == Entry(Earlier)
             d == Packet(Earlier, 1)
  <2>1. a \in AnyCell /\ b \in AnyCell /\ c \in AnyCell /\ d \in AnyCell
    BY DEF Magic, Count, Entry, Packet, Cell, AnyCell, Inode
  <2>2. /\ CellAt(Earlier, 1, 1) = a /\ CellAt(Earlier, 1, 2) = b
        /\ CellAt(Earlier, 1, 3) = c /\ CellAt(Earlier, 1, 4) = d
    BY <1>3 DEF CellAt
  <2> HIDE DEF a, b, c, d
  <2>3. /\ old \in Seq(AnyCell) /\ Len(old) = 4
        /\ old[1] = a /\ old[2] = b /\ old[3] = c /\ old[4] = d
    BY <2>1 DEF a, b, c, d
  <2> HIDE DEF old
  <2>4. \A k \in 1 .. Len(old) : old[k] = CellAt(Earlier, 1, k)
    BY <2>2, <2>3
  <2>5. Lengths(Earlier, 1, old)
    BY <1>3, <2>3 DEF Lengths
  <2> QED
    BY <1>3, <2>3, <2>4, <2>5 DEF File
<1> HIDE DEF old
<1>5. TypeOK
  <2>1. content \in Seq(AnyCell)
    BY <1>2, <1>4 DEF File
  <2>2. 0 \in 0 .. BUFSIZE - 1
    BY BUFSIZEAssumption
  <2>3. /\ pc \in [Process -> {"absent", "starting", "unlinked", "header", "profiling", "off",
                              "exited", "left", "killed"}]
        /\ tracebuffer_header_count \in [Process -> Nat]
        /\ tracebuffer_file \in [Process -> Inode \cup {None}]
        /\ tracebuffer_index \in [Process -> 0 .. BUFSIZE - 1]
        /\ recorded \in [Process -> Nat]
    BY <1>1, <2>2
  <2>4. /\ name \in Inode \cup {None} /\ packets \in Seq(AnyCell) /\ handled \in Seq(AnyCell)
        /\ i \in 0 .. Len(packets) /\ tracebuffer_packets_offset \in Nat
        /\ header_file \in Inode \cup {None} /\ mapped_file \in Inode \cup {None}
    BY <1>1, <1>3
  <2> QED
    BY <1>1, <2>1, <2>3, <2>4 DEF TypeOK
<1>6. Files
  <2>1. Named
    BY <1>1, <1>2, <1>3, <1>4 DEF Named, Opened
  <2>2. ASSUME NEW p \in Process PROVE Writer(p) /\ Held(p)
    <3>1. p # Earlier /\ p # None
      BY <1>3
    <3>2. /\ tracebuffer_file[p] = None /\ pc[p] = "absent" /\ recorded[p] = 0
          /\ tracebuffer_index[p] = 0 /\ tracebuffer_header_count[p] = 0
      BY <1>1
    <3>3. Writer(p)
      BY <1>1, <1>3, <3>1, <3>2 DEF Writer, Opened, Unopened
    <3> QED
      BY <3>2, <3>3 DEF Held, Followed
  <2> QED
    BY <2>1, <2>2 DEF Files
<1>8. Private
  <2>1. Profilee \in Process /\ \A q \in Others : q \in Process
    BY DEF Process
  <2> QED
    BY <1>1, <1>3, <2>1 DEF Private
<1>7. Alone /\ HeaderRead /\ Mapping /\ Handling
  BY <1>1 DEF Alone, Reading, HeaderRead, Mapping, Handling
<1> QED
  BY <1>5, <1>6, <1>7, <1>8 DEF Inv

LEMMA NextInv == Inv /\ [Next]_vars => Inv'
<1> SUFFICES ASSUME Inv, [Next]_vars PROVE Inv'
  OBVIOUS
<1>1. CASE \E p \in Process :
             \/ Unlink(p) \/ Open(p) \/ OpenFails(p) \/ AppendHeader(p) \/ FinishHeader(p)
             \/ HeaderFails(p) \/ Record(p) \/ Exit(p) \/ Leave(p) \/ Kill(p)
  BY <1>1, UnlinkInv, OpenInv, AppendHeaderInv, FinishHeaderInv, OffInv, FlushInv, KillInv
<1>2. CASE \E p \in Others : StartOther(p)
  BY <1>2, StartOtherInv
<1>3. CASE \/ Fork \/ NothingTraced \/ WaitForChild \/ ReadHeader \/ Corrupt
           \/ MapPackets \/ Overrun \/ HandlePacket \/ UnknownType \/ Finish
  BY <1>3, ForkInv, NothingTracedInv, WaitForChildInv, ReadHeaderInv, StoppedInv, MapPacketsInv,
     HandlePacketInv, FinishInv
<1>4. CASE UNCHANGED vars
  <2>1. /\ UNCHANGED <<filevars, writervars>>
        /\ UNCHANGED <<name, content, kept, overwritten, tracebuffer_file,
                       tracebuffer_header_count, tracebuffer_index, recorded, pc, reader,
                       tracebuffer_packets_offset, header_file, mapped_file, packets, i, handled,
                       ended, outlived>>
    BY <1>4 DEF vars, filevars, writervars, readervars, history, openvars
  <2>2. Files' /\ Private' /\ (\A f : Made(f)' = Made(f)) /\ \A p : Opened(p)' = Opened(p)
    BY <2>1, FilesKept DEF Inv
  <2>3. TypeOK'
    BY <2>1 DEF Inv, TypeOK
  <2>4. Alone' /\ HeaderRead'
    BY <2>1, <2>2 DEF Inv, Alone, Reading, Gone, HeaderRead, Made, Opened
  <2>5. Mapping'
    BY <2>1 DEF Inv, Mapping, HeaderComplete, Shared, Sharers, CutFile, Lengths, CellAt, Objects
  <2>6. Handling'
    BY <2>1 DEF Inv, Handling, Mixed, Spoiled, Shared, Sharers
  <2> QED
    BY <2>2, <2>3, <2>4, <2>5, <2>6 DEF Inv
<1> QED
  BY <1>1, <1>2, <1>3, <1>4 DEF Next

(* What the files hold, who may still write to them, and how far the two   *)
(* passes have come, in every state.                                       *)
THEOREM SpecInv == Spec => []Inv
BY InitInv, NextInv, PTL DEF Spec

(* The offset of the packets, the buffer index and all that is read from a *)
(* file keep their types, wherever the file was cut off.                   *)
THEOREM SpecTypeOK == Spec => []TypeOK
<1>1. Inv => TypeOK
  BY DEF Inv
<1> QED
  BY <1>1, SpecInv, PTL

(* A profile is the beginning of what one process has recorded, however    *)
(* many programs are started and wherever each is killed: what reader and  *)
(* writer do in common/tracebuffer.c fits, unless a program that has       *)
(* outlived the profilee replaces or truncates the file under the reader,  *)
(* or programs that the profilee has started at once share one file, which *)
(* is never the profilee's own if its unlinks succeed.                     *)
THEOREM SpecOneTrace == Spec => []OneTrace
<1>1. Inv => OneTrace
  <2>0. ASSUME Inv, reader = "profile", Shared(mapped_file)
        PROVE  kept \/ Profilee \notin Sharers(mapped_file)
    <3>1. ~kept /\ tracebuffer_file[Profilee] = mapped_file => mapped_file = Profilee
      BY <2>0, ProcessAssumption DEF Inv, Private, HeaderRead, Made
    <3>2. ~Shared(Profilee)
      BY <2>0 DEF Inv, Private, Shared, Sharers, Process
    <3> QED
      BY <2>0, <3>1, <3>2 DEF Sharers
  <2> SUFFICES ASSUME Inv, reader = "profile", ~Spoiled, ~Shared(mapped_file)
               PROVE  handled = Trace(mapped_file, Len(handled))
    BY <2>0 DEF OneTrace, Inv, Handling
  <2>1. /\ handled \in Seq(AnyCell) /\ Len(handled) = i /\ i = Len(packets)
        /\ \A k \in 1 .. i : handled[k] = packets[k] /\ packets[k].kind = "packet"
        /\ packets = <<NoPacket>> \/ \A k \in 1 .. Len(packets) : packets[k] = Packet(mapped_file, k)
    BY DEF Inv, TypeOK, Handling, Spoiled
  <2>2. packets # <<NoPacket>>
    <3> SUFFICES ASSUME packets = <<NoPacket>> PROVE FALSE
      OBVIOUS
    <3>1. Len(packets) = 1 /\ packets[1] = NoPacket
      <4>1. Len(<<NoPacket>>) = 1 /\ <<NoPacket>>[1] = NoPacket
        OBVIOUS
      <4> QED
        BY <4>1
    <3> QED
      BY <2>1, <3>1 DEF NoPacket, Cell
  <2>3. \A k \in 1 .. Len(handled) : handled[k] = Packet(mapped_file, k)
    BY <2>1, <2>2
  <2>4. handled = [k \in 1 .. Len(handled) |-> handled[k]]
    BY <2>1
  <2> QED
    BY <2>3, <2>4 DEF Trace
<1> QED
  BY <1>1, SpecInv, PTL

(* graprof presents the trace of an earlier run only if the profilee has   *)
(* opened none and cannot do so any more.                                  *)
THEOREM SpecEarlierOnlyIfUntraced == Spec => []EarlierOnlyIfUntraced
<1>1. Inv => EarlierOnlyIfUntraced
  <2> SUFFICES ASSUME Inv, reader = "profile", header_file = Earlier
               PROVE  /\ tracebuffer_file[Profilee] = None
                      /\ pc[Profilee] \in {"absent", "left", "killed"}
    BY DEF EarlierOnlyIfUntraced
  <2>1. Profilee \in Process /\ Writer(Profilee)
    BY DEF Inv, Files, Process
  <2>2. ~Opened(Profilee) /\ pc[Profilee] \in {"absent", "exited", "left", "killed"}
    BY DEF Inv, HeaderRead, Alone, Reading
  <2> QED
    BY <2>1, <2>2 DEF Writer, Opened
<1> QED
  BY <1>1, SpecInv, PTL

(* A profilee that has exited gets all it has recorded into its profile,   *)
(* and the times are aggregated exactly once all packets are handled.      *)
THEOREM SpecCompleteIfExited == Spec => []CompleteIfExited
<1>1. Inv => CompleteIfExited
  BY DEF Inv, Handling, CompleteIfExited
<1> QED
  BY <1>1, SpecInv, PTL

=============================================================================
