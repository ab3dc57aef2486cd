--------------------------- MODULE PipeFilesProofs ---------------------------
(***************************************************************************)
(* Proofs about PipeFiles, for every set of processes and pipes, every     *)
(* size of the tables and every capacity: pipes carry their bytes intact,  *)
(* end of file and broken pipe are told truthfully, poll() promises what   *)
(* the next call does, and no reference count falls below the references.  *)
(*                                                                         *)
(* Only calls that create descriptors could let an end appear in a table   *)
(* after it was dropped.  Each of them copies a file that a slot holds, so *)
(* the files held after a call were held before it, or belong to the pipe  *)
(* the call creates; that is what the lemmas about the table methods say.  *)
(***************************************************************************)
EXTENDS PipeFiles, FiniteSetTheorems, SequenceTheorems, WellFoundedInduction, TLAPS

Slot == Entry \cup {None}

-----------------------------------------------------------------------------
\* The methods of a table.

\* Storing x in a slot adds at most the file of x to the files held.
LEMMA PutHeld ==
  ASSUME NEW fs \in Seq(Slot), NEW i \in 1..Len(fs), NEW x \in Slot
  PROVE  /\ [fs EXCEPT ![i] = x] \in Seq(Slot)
         /\ x = None => Held([fs EXCEPT ![i] = x]) \subseteq Held(fs)
         /\ x # None => Held([fs EXCEPT ![i] = x]) \subseteq Held(fs) \cup {x.file}
<1> DEFINE gs == [fs EXCEPT ![i] = x]
<1>1. gs \in Seq(Slot) /\ Len(gs) = Len(fs)
  OBVIOUS
<1>2. \A j \in 1..Len(fs) : gs[j] = IF j = i THEN x ELSE fs[j]
  OBVIOUS
<1> HIDE DEF gs
<1>3. ASSUME NEW f \in Held(gs) PROVE f \in Held(fs) \/ (x # None /\ f = x.file)
  BY <1>1, <1>2, Zenon DEF Held
<1> QED BY <1>1, <1>3, ZenonT(30) DEF gs

\* Appending an entry adds its file to the files held.
LEMMA AppendHeld ==
  ASSUME NEW fs \in Seq(Slot), NEW x \in Entry
  PROVE  /\ Append(fs, x) \in Seq(Slot)
         /\ Held(Append(fs, x)) \subseteq Held(fs) \cup {x.file}
<1> DEFINE gs == Append(fs, x)
<1>1. gs \in Seq(Slot) /\ Len(gs) = Len(fs) + 1
  BY DEF Slot
<1>2. \A j \in 1..Len(fs) + 1 : gs[j] = IF j = Len(fs) + 1 THEN x ELSE fs[j]
  OBVIOUS
<1> HIDE DEF gs
<1>3. ASSUME NEW f \in Held(gs) PROVE f \in Held(fs) \/ f = x.file
  BY <1>1, <1>2 DEF Held
<1> QED BY <1>1, <1>3, Zenon DEF gs

\* Lengthening a table with empty slots keeps the files held.
LEMMA GrowHeld ==
  ASSUME NEW fs \in Seq(Slot), NEW n \in Nat
  PROVE  /\ Grow(fs, n) \in Seq(Slot)
         /\ n + 1 \in 1..Len(Grow(fs, n))
         /\ Held(Grow(fs, n)) \subseteq Held(fs)
<1> DEFINE m == IF Len(fs) > n THEN Len(fs) ELSE n + 1
           gs == Grow(fs, n)
<1>1. m \in Nat /\ m >= n + 1 /\ m >= Len(fs)
  OBVIOUS
<1> HIDE DEF m
<1>2. gs = [i \in 1..m |-> IF i <= Len(fs) THEN fs[i] ELSE None]
  BY Zenon DEF Grow, m
<1>3. \A i \in 1..m : gs[i] \in Slot /\ (i <= Len(fs) => gs[i] = fs[i]) /\ (~(i <= Len(fs)) => gs[i] = None)
  BY <1>1, <1>2 DEF Slot
<1>4. gs \in Seq(Slot) /\ Len(gs) = m
  BY <1>1, <1>2, <1>3
<1> HIDE DEF gs
<1>5. ASSUME NEW f \in Held(gs) PROVE f \in Held(fs)
  BY <1>1, <1>3, <1>4 DEF Held
<1> QED BY <1>1, <1>4, <1>5 DEF gs

\* The lowest empty slot is a slot.
LEMMA LowestEmpty ==
  ASSUME NEW fs \in Seq(Slot), NEW from \in Nat, EmptySlots(fs, from) # {}
  PROVE  Lowest(EmptySlots(fs, from)) \in 1..Len(fs)
<1> DEFINE S == EmptySlots(fs, from)
<1>1. S \in SUBSET Nat /\ S \subseteq 1..Len(fs)
  BY DEF EmptySlots
<1>2. PICK k \in S : TRUE
  OBVIOUS
<1> HIDE DEF S
<1>3. \E i \in S : \A j \in S : ~(<<j, i>> \in OpToRel(<, Nat))
  BY <1>1, <1>2, NatLessThanWellFounded, WFMin, Zenon
<1>5. \A i, j \in Nat : ~(<<j, i>> \in OpToRel(<, Nat)) => i <= j
  BY DEF OpToRel
<1>6. \E i \in S : \A j \in S : i <= j
  BY <1>1, <1>3, <1>5, ZenonT(30)
<1>4. Lowest(S) \in S
  BY <1>6, Zenon DEF Lowest
<1> QED BY <1>1, <1>4, Zenon DEF S

\* open_with_flags leaves a table that holds at most one file more.
LEMMA OpenHeld ==
  ASSUME NEW fs \in Seq(Slot), NEW nx \in Nat, NEW e \in Entry
  PROVE  LET a == open_with_flags([files |-> fs, next_fd |-> nx], e) IN
         /\ a.files \in Seq(Slot) /\ a.next_fd \in Nat /\ a.fd \in Nat
         /\ Held(a.files) \subseteq Held(fs) \cup {e.file}
<1> DEFINE t == [files |-> fs, next_fd |-> nx]
           a == open_with_flags(t, e)
           i == Lowest(EmptySlots(fs, 0))
<1>e. e \in Slot /\ e # None
  BY ConstantsAssumption, Zenon DEF Slot
<1>1. CASE EmptySlots(fs, 0) # {}
  <2>1. i \in 1..Len(fs)
    BY <1>1, LowestEmpty, Zenon
  <2>2. a = Answer(TRUE, [fs EXCEPT ![i] = e], nx, FdOf(i))
    BY <1>1, ZenonT(30) DEF open_with_flags
  <2> HIDE DEF a, i
  <2>3. a.files = [fs EXCEPT ![i] = e] /\ a.next_fd = nx /\ a.fd = i - 1
    BY <2>2, Zenon DEF Answer, FdOf
  <2>4. i - 1 \in Nat
    BY <2>1
  <2>5. a.files \in Seq(Slot) /\ Held(a.files) \subseteq Held(fs) \cup {e.file}
    BY <2>1, <2>3, <1>e, PutHeld
  <2> QED BY <2>3, <2>4, <2>5, Zenon DEF a
<1>2. CASE EmptySlots(fs, 0) = {} /\ nx >= MAX_OPEN
  <2>1. a = Answer(FALSE, fs, nx, 0)
    BY <1>2, ZenonT(30) DEF open_with_flags
  <2> HIDE DEF a
  <2> QED BY <2>1 DEF Answer, a
<1>3. CASE EmptySlots(fs, 0) = {} /\ ~(nx >= MAX_OPEN)
  <2>1. a = Answer(TRUE, Append(fs, e), nx + 1, nx)
    BY <1>3, ZenonT(30) DEF open_with_flags
  <2> HIDE DEF a
  <2>2. a.files = Append(fs, e) /\ a.next_fd = nx + 1 /\ a.fd = nx
    BY <2>1, Zenon DEF Answer
  <2>3. a.files \in Seq(Slot) /\ Held(a.files) \subseteq Held(fs) \cup {e.file}
    BY <2>2, AppendHeld, Zenon
  <2>4. nx + 1 \in Nat
    OBVIOUS
  <2> QED BY <2>2, <2>3, <2>4, Zenon DEF a
<1> QED BY <1>1, <1>2, <1>3, Zenon

\* So does dup_at_least, also where it overwrites a slot.
LEMMA DupAtLeastHeld ==
  ASSUME NEW fs \in Seq(Slot), NEW nx \in Nat, NEW e \in Entry, NEW m \in Nat
  PROVE  LET a == dup_at_least([files |-> fs, next_fd |-> nx], e, m) IN
         /\ a.files \in Seq(Slot) /\ a.next_fd \in Nat
         /\ Held(a.files) \subseteq Held(fs) \cup {e.file}
<1> DEFINE t == [files |-> fs, next_fd |-> nx]
           a == dup_at_least(t, e, m)
           gs == Grow(fs, m)
           nn == IF nx <= m THEN m ELSE nx
           i == Lowest(EmptySlots(gs, m))
<1>e. e \in Slot /\ e # None
  BY ConstantsAssumption, Zenon DEF Slot
<1>g. gs \in Seq(Slot) /\ Held(gs) \subseteq Held(fs)
  BY GrowHeld, Zenon
<1>n. nn \in Nat
  OBVIOUS
<1>1. CASE EmptySlots(gs, m) # {}
  <2>1. a = Answer(TRUE, [gs EXCEPT ![i] = e], nn, FdOf(i))
    BY <1>1, ZenonT(30) DEF dup_at_least
  <2> HIDE DEF a, gs, nn
  <2>2. i \in 1..Len(gs)
    BY <1>1, <1>g, LowestEmpty, Zenon
  <2> HIDE DEF i
  <2>3. a.files = [gs EXCEPT ![i] = e] /\ a.next_fd = nn
    BY <2>1, Zenon DEF Answer
  <2>4. a.files \in Seq(Slot) /\ Held(a.files) \subseteq Held(gs) \cup {e.file}
    BY <2>2, <2>3, <1>e, <1>g, PutHeld
  <2> QED BY <2>3, <2>4, <1>g, <1>n, Zenon DEF a
<1>2. CASE EmptySlots(gs, m) = {} /\ nn >= MAX_OPEN
  <2>1. a = Answer(FALSE, gs, nn, 0)
    BY <1>2, ZenonT(30) DEF dup_at_least
  <2> HIDE DEF a, gs, nn
  <2> QED BY <2>1, <1>g, <1>n DEF Answer, a
<1>3. CASE EmptySlots(gs, m) = {} /\ ~(nn >= MAX_OPEN)
  <2> DEFINE hs == Grow(gs, nn)
  <2>1. a = Answer(TRUE, [hs EXCEPT ![nn + 1] = e], nn + 1, nn)
    BY <1>3, ZenonT(30) DEF dup_at_least
  <2> HIDE DEF a, gs, nn
  <2>2. hs \in Seq(Slot) /\ Held(hs) \subseteq Held(gs) /\ nn + 1 \in 1..Len(hs)
    BY <1>g, <1>n, GrowHeld, Zenon
  <2> HIDE DEF hs
  <2>3. a.files = [hs EXCEPT ![nn + 1] = e] /\ a.next_fd = nn + 1
    BY <2>1, Zenon DEF Answer
  <2>4. a.files \in Seq(Slot) /\ Held(a.files) \subseteq Held(hs) \cup {e.file}
    BY <2>2, <2>3, <1>e, PutHeld
  <2>5. nn + 1 \in Nat
    BY <1>n
  <2> QED BY <2>2, <2>3, <2>4, <2>5, <1>g, Zenon DEF a
<1> QED BY <1>1, <1>2, <1>3, Zenon

\* So do dup2 and dup3.
LEMMA ReplaceHeld ==
  ASSUME NEW fs \in Seq(Slot), NEW e \in Entry, NEW n \in Nat
  PROVE  /\ Replace(fs, e, n) \in Seq(Slot)
         /\ Held(Replace(fs, e, n)) \subseteq Held(fs) \cup {e.file}
<1> DEFINE gs == Grow(fs, n)
<1>1. gs \in Seq(Slot) /\ Held(gs) \subseteq Held(fs) /\ n + 1 \in 1..Len(gs)
  BY GrowHeld, Zenon
<1>2. e \in Slot /\ e # None
  BY ConstantsAssumption, Zenon DEF Slot
<1>3. Replace(fs, e, n) = [gs EXCEPT ![n + 1] = e]
  BY Zenon DEF Replace
<1> HIDE DEF gs
<1>5. /\ [gs EXCEPT ![n + 1] = e] \in Seq(Slot)
      /\ Held([gs EXCEPT ![n + 1] = e]) \subseteq Held(gs) \cup {e.file}
  BY <1>1, <1>2, PutHeld, Zenon
<1>4. Replace(fs, e, n) \in Seq(Slot) /\ Held(Replace(fs, e, n)) \subseteq Held(gs) \cup {e.file}
  BY <1>3, <1>5, Zenon
<1> QED BY <1>1, <1>4, Zenon

\* Emptying some of the slots holds nothing new.
LEMMA FewerHeld ==
  ASSUME NEW fs \in Seq(Slot), NEW gs, Len(fs) \in Nat,
         gs = [i \in 1..Len(fs) |-> gs[i]],
         \A i \in 1..Len(fs) : gs[i] = None \/ gs[i] = fs[i]
  PROVE  gs \in Seq(Slot) /\ Held(gs) \subseteq Held(fs)
<1>1. \A i \in 1..Len(fs) : gs[i] \in Slot
  BY DEF Slot
<1>2. gs \in Seq(Slot) /\ Len(gs) = Len(fs)
  BY <1>1
<1>3. ASSUME NEW f \in Held(gs) PROVE f \in Held(fs)
  BY <1>2, Zenon DEF Held
<1> QED BY <1>2, <1>3, Zenon

\* close, close_on_exec and close_all hold nothing new.
LEMMA CloseHeld ==
  ASSUME NEW fs \in Seq(Slot), NEW n \in Nat
  PROVE  /\ CloseSlot(fs, n) \in Seq(Slot) /\ Held(CloseSlot(fs, n)) \subseteq Held(fs)
         /\ CloseMarked(fs) \in Seq(Slot) /\ Held(CloseMarked(fs)) \subseteq Held(fs)
         /\ CloseAll(fs) \in Seq(Slot) /\ Held(CloseAll(fs)) \subseteq Held(fs)
<1>1. CloseSlot(fs, n) \in Seq(Slot) /\ Held(CloseSlot(fs, n)) \subseteq Held(fs)
  <2>1. CASE IsOpen(fs, n)
    <3>1. n + 1 \in 1..Len(fs)
      BY <2>1, Zenon DEF IsOpen
    <3>2. CloseSlot(fs, n) = [fs EXCEPT ![n + 1] = None]
      BY <2>1, Zenon DEF CloseSlot
    <3>3. None \in Slot
      BY Zenon DEF Slot
    <3>4. /\ [fs EXCEPT ![n + 1] = None] \in Seq(Slot)
          /\ Held([fs EXCEPT ![n + 1] = None]) \subseteq Held(fs)
      BY <3>1, <3>3, PutHeld, Zenon
    <3> QED BY <3>2, <3>4, Zenon
  <2>2. CASE ~IsOpen(fs, n)
    BY <2>2, Zenon DEF CloseSlot
  <2> QED BY <2>1, <2>2, Zenon
<1>2. CloseMarked(fs) \in Seq(Slot) /\ Held(CloseMarked(fs)) \subseteq Held(fs)
  <2> DEFINE gs == CloseMarked(fs)
  <2>1. gs = [i \in 1..Len(fs) |-> gs[i]] /\ \A i \in 1..Len(fs) : gs[i] = None \/ gs[i] = fs[i]
    BY Zenon DEF CloseMarked
  <2> HIDE DEF gs
  <2> QED BY <2>1, FewerHeld DEF gs
<1>3. CloseAll(fs) \in Seq(Slot) /\ Held(CloseAll(fs)) \subseteq Held(fs)
  <2> DEFINE gs == CloseAll(fs)
  <2>1. gs = [i \in 1..Len(fs) |-> gs[i]] /\ \A i \in 1..Len(fs) : gs[i] = None \/ gs[i] = fs[i]
    BY Zenon DEF CloseAll
  <2> HIDE DEF gs
  <2> QED BY <2>1, FewerHeld DEF gs
<1> QED BY <1>1, <1>2, <1>3, Zenon

-----------------------------------------------------------------------------
\* The inductive invariant.

\* The types that matter for it.
PType ==
  /\ files \in [Procs -> Seq(Slot)]
  /\ next_fd \in [Procs -> Nat]
  /\ pipe \in [Pipes -> Inner]
  /\ made \subseteq Pipes
  /\ sent \in [Pipes -> Nat]
  /\ got \in [Pipes -> Seq(Nat)]
  /\ eof \subseteq Pipes

\* An end that is closed is in no slot, nor is an end of a pipe that is still
\* to be made; a pipe that said end of file is closed for writing and empty.
Ends ==
  \A q \in Pipes :
    /\ pipe[q].write_closed => <<q, "w">> \notin AllHeld(files)
    /\ pipe[q].read_closed => <<q, "r">> \notin AllHeld(files)
    /\ q \notin made => /\ ~pipe[q].write_closed /\ ~pipe[q].read_closed
                        /\ <<q, "w">> \notin AllHeld(files)
                        /\ <<q, "r">> \notin AllHeld(files)
    /\ q \in eof => pipe[q].write_closed /\ pipe[q].buffer = <<>>

IInv == PType /\ Ends /\ ByteStream

\* An open descriptor has an entry, whose file the tables hold.
LEMMA FdHeld ==
  ASSUME PType, NEW p \in Procs, NEW fd \in Nat, Has(p, fd)
  PROVE  /\ Fd(p, fd) \in Entry
         /\ Fd(p, fd).file \in File
         /\ Fd(p, fd).file \in AllHeld(files)
<1>1. files[p] \in Seq(Slot) /\ fd + 1 \in 1..Len(files[p]) /\ files[p][fd + 1] # None
  BY Zenon DEF PType, Has, IsOpen
<1>2. Fd(p, fd) \in Entry
  BY <1>1 DEF Fd, Slot
<1>3. Fd(p, fd).file \in Held(files[p])
  BY <1>1, Zenon DEF Held, Fd
<1>4. Fd(p, fd).file \in File
  BY <1>2, Zenon DEF Entry
<1> QED BY <1>2, <1>3, <1>4, Zenon DEF AllHeld

\* Replacing one table by one that holds files of X besides.
LEMMA OneTable ==
  ASSUME NEW tabs \in [Procs -> Seq(Slot)], NEW p \in Procs, NEW gs \in Seq(Slot),
         NEW X, Held(gs) \subseteq AllHeld(tabs) \cup X
  PROVE  /\ [tabs EXCEPT ![p] = gs] \in [Procs -> Seq(Slot)]
         /\ AllHeld([tabs EXCEPT ![p] = gs]) \subseteq AllHeld(tabs) \cup X
<1> DEFINE new == [tabs EXCEPT ![p] = gs]
<1>1. new \in [Procs -> Seq(Slot)] /\ \A r \in Procs : new[r] = IF r = p THEN gs ELSE tabs[r]
  OBVIOUS
<1> HIDE DEF new
<1>2. ASSUME NEW f \in AllHeld(new) PROVE f \in AllHeld(tabs) \cup X
  <2>1. PICK r \in Procs : f \in Held(new[r])
    BY Zenon DEF AllHeld
  <2>2. CASE r = p
    BY <2>1, <2>2, <1>1, Zenon
  <2>3. CASE r # p
    BY <2>1, <2>3, <1>1, Zenon DEF AllHeld
  <2> QED BY <2>2, <2>3, Zenon
<1> QED BY <1>1, <1>2, ZenonT(30) DEF new

\* What one table holds is held.
LEMMA OwnHeld ==
  ASSUME NEW tabs, NEW p \in Procs
  PROVE  Held(tabs[p]) \subseteq AllHeld(tabs)
BY Zenon DEF AllHeld

\* What the drop of files does to a pipe.
LEMMA DropFields ==
  ASSUME NEW pp \in [Pipes -> Inner], NEW had, NEW tabs
  PROVE  /\ Drop(pp, had, tabs) \in [Pipes -> Inner]
         /\ \A q \in Pipes :
              /\ Drop(pp, had, tabs)[q].buffer = pp[q].buffer
              /\ Drop(pp, had, tabs)[q].write_closed <=>
                   pp[q].write_closed \/ <<q, "w">> \in had \ AllHeld(tabs)
              /\ Drop(pp, had, tabs)[q].read_closed <=>
                   pp[q].read_closed \/ <<q, "r">> \in had \ AllHeld(tabs)
<1> DEFINE D == Drop(pp, had, tabs)
           gone == had \ AllHeld(tabs)
<1> SUFFICES ASSUME NEW q \in Pipes
             PROVE  /\ D[q] \in Inner /\ D[q].buffer = pp[q].buffer
                    /\ D[q].write_closed <=> pp[q].write_closed \/ <<q, "w">> \in gone
                    /\ D[q].read_closed <=> pp[q].read_closed \/ <<q, "r">> \in gone
  BY ZenonT(30) DEF Drop
<1> DEFINE wc == pp[q].write_closed \/ <<q, "w">> \in gone
           rc == pp[q].read_closed \/ <<q, "r">> \in gone
<1>1. D[q] = [pp[q] EXCEPT !.write_closed = wc, !.read_closed = rc]
  BY Zenon DEF Drop
<1>2. wc \in BOOLEAN /\ rc \in BOOLEAN
  BY Zenon
<1>3. pp[q] \in Inner
  OBVIOUS
<1> HIDE DEF wc, rc, D
<1>4. D[q] \in Inner /\ D[q].buffer = pp[q].buffer /\ D[q].write_closed = wc /\ D[q].read_closed = rc
  BY <1>1, <1>2, <1>3, ZenonT(30) DEF Inner
<1> QED BY <1>4, Zenon DEF wc, rc

-----------------------------------------------------------------------------
\* Steps that change the tables.

\* New tables that hold only files that were held, or the ends of the pipes S
\* that the step makes, with a drop of what is held no longer.
LEMMA TableStep ==
  ASSUME IInv, NEW S \in SUBSET Pipes, S \cap made = {},
         NEW had, had = AllHeld(files) \cup (S \X Sides),
         files' \in [Procs -> Seq(Slot)], next_fd' \in [Procs -> Nat],
         AllHeld(files') \subseteq had,
         pipe' = Drop(pipe, had, files'),
         made' = made \cup S, Quiet
  PROVE  IInv'
<1>1. pipe \in [Pipes -> Inner]
  BY Zenon DEF IInv, PType
<1>2. /\ pipe' \in [Pipes -> Inner]
      /\ \A q \in Pipes :
           /\ pipe'[q].buffer = pipe[q].buffer
           /\ pipe'[q].write_closed <=> pipe[q].write_closed \/ <<q, "w">> \in had \ AllHeld(files')
           /\ pipe'[q].read_closed <=> pipe[q].read_closed \/ <<q, "r">> \in had \ AllHeld(files')
  BY <1>1, DropFields
<1>3. PType'
  BY <1>2, ZenonT(30) DEF IInv, PType, Quiet
<1>4. ASSUME NEW q \in Pipes
      PROVE  /\ pipe'[q].write_closed => <<q, "w">> \notin AllHeld(files')
             /\ pipe'[q].read_closed => <<q, "r">> \notin AllHeld(files')
             /\ q \notin made' => /\ ~pipe'[q].write_closed /\ ~pipe'[q].read_closed
                                  /\ <<q, "w">> \notin AllHeld(files')
                                  /\ <<q, "r">> \notin AllHeld(files')
             /\ q \in eof' => pipe'[q].write_closed /\ pipe'[q].buffer = <<>>
  <2>1. /\ pipe[q].write_closed => <<q, "w">> \notin AllHeld(files)
        /\ pipe[q].read_closed => <<q, "r">> \notin AllHeld(files)
        /\ q \notin made => /\ ~pipe[q].write_closed /\ ~pipe[q].read_closed
                            /\ <<q, "w">> \notin AllHeld(files)
                            /\ <<q, "r">> \notin AllHeld(files)
        /\ q \in eof => pipe[q].write_closed /\ pipe[q].buffer = <<>>
    BY Zenon DEF IInv, Ends
  <2>2. <<q, "w">> \in S \X Sides <=> q \in S
    BY Zenon DEF Sides
  <2>3. <<q, "r">> \in S \X Sides <=> q \in S
    BY Zenon DEF Sides
  <2>4. q \in S => q \notin made
    OBVIOUS
  <2>5. pipe[q].write_closed => <<q, "w">> \notin had
    BY <2>1, <2>2, <2>4, Zenon
  <2>6. pipe[q].read_closed => <<q, "r">> \notin had
    BY <2>1, <2>3, <2>4, Zenon
  <2>7. q \notin made' => <<q, "w">> \notin had /\ <<q, "r">> \notin had
    BY <2>1, <2>2, <2>3, Zenon
  <2>8. q \notin made' => q \notin made
    OBVIOUS
  <2>9. eof' = eof
    BY Zenon DEF Quiet
  <2> QED BY <1>2, <2>1, <2>5, <2>6, <2>7, <2>8, <2>9, ZenonT(30)
<1>5. Ends'
  BY <1>4, ZenonT(30) DEF Ends
<1>6. ByteStream'
  BY <1>2, ZenonT(30) DEF IInv, ByteStream, Quiet
<1> QED BY <1>3, <1>5, <1>6, Zenon DEF IInv

\* Tables that hold nothing new, and nothing is dropped.
LEMMA KeepStep ==
  ASSUME IInv, files' \in [Procs -> Seq(Slot)], next_fd' \in [Procs -> Nat],
         AllHeld(files') \subseteq AllHeld(files), UNCHANGED <<pipe, made>>, Quiet
  PROVE  IInv'
<1>1. PType'
  BY Zenon DEF IInv, PType, Quiet
<1>2. Ends'
  BY ZenonT(30) DEF IInv, Ends, Quiet
<1>3. ByteStream'
  BY ZenonT(30) DEF IInv, ByteStream, Quiet
<1> QED BY <1>1, <1>2, <1>3, Zenon DEF IInv

\* One process gets a table that holds nothing new.
LEMMA InstallStep ==
  ASSUME IInv, NEW p \in Procs, NEW gs \in Seq(Slot), NEW nx \in Nat,
         Held(gs) \subseteq AllHeld(files),
         Install(p, gs, nx, AllHeld(files)), made' = made, Quiet
  PROVE  IInv'
<1>1. files \in [Procs -> Seq(Slot)] /\ next_fd \in [Procs -> Nat]
  BY Zenon DEF IInv, PType
<1>2. files' = [files EXCEPT ![p] = gs] /\ next_fd' = [next_fd EXCEPT ![p] = nx]
      /\ pipe' = Drop(pipe, AllHeld(files), files')
  BY Zenon DEF Install
<1>3. Held(gs) \subseteq AllHeld(files) \cup {}
  OBVIOUS
<1>4. /\ [files EXCEPT ![p] = gs] \in [Procs -> Seq(Slot)]
      /\ AllHeld([files EXCEPT ![p] = gs]) \subseteq AllHeld(files) \cup {}
  BY <1>1, <1>3, OneTable, Zenon
<1>5. files' \in [Procs -> Seq(Slot)] /\ AllHeld(files') \subseteq AllHeld(files)
  BY <1>2, <1>4, ZenonT(30)
<1>6. next_fd' \in [Procs -> Nat]
  BY <1>1, <1>2, Zenon
<1>7. AllHeld(files) = AllHeld(files) \cup ({} \X Sides) /\ made' = made \cup {}
      /\ {} \cap made = {} /\ {} \in SUBSET Pipes
  OBVIOUS
<1> QED BY <1>2, <1>5, <1>6, <1>7, TableStep, Zenon

\* sys_pipe2, whichever of the two opens fails.
LEMMA Pipe2Step ==
  ASSUME IInv, NEW p \in Procs, NEW q \in Pipes, NEW c \in BOOLEAN, Pipe2(p, q, c)
  PROVE  IInv'
<1> DEFINE rf == <<q, "r">>
           wf == <<q, "w">>
           re == [file |-> rf, cloexec |-> c]
           we == [file |-> wf, cloexec |-> c]
           had == AllHeld(files) \cup {rf, wf}
           r == open_with_flags(Table(p), re)
           w == open_with_flags([files |-> r.files, next_fd |-> r.next_fd], we)
<1>1. files \in [Procs -> Seq(Slot)] /\ next_fd \in [Procs -> Nat] /\ files[p] \in Seq(Slot)
      /\ next_fd[p] \in Nat
  BY Zenon DEF IInv, PType
<1>2. re \in Entry /\ we \in Entry /\ re.file = rf /\ we.file = wf
  BY Zenon DEF Entry, File, Sides
<1>3. /\ r.files \in Seq(Slot) /\ r.next_fd \in Nat /\ r.fd \in Nat
      /\ Held(r.files) \subseteq Held(files[p]) \cup {rf}
  <2> HIDE DEF re
  <2>1. /\ r.files \in Seq(Slot) /\ r.next_fd \in Nat /\ r.fd \in Nat
        /\ Held(r.files) \subseteq Held(files[p]) \cup {re.file}
    BY <1>1, <1>2, OpenHeld, ZenonT(30) DEF Table
  <2> QED BY <2>1, <1>2, Zenon
<1>a. Pipe2(p, q, c) =>
        /\ q \notin made /\ made' = made \cup {q} /\ Quiet
        /\ \/ ~r.ok /\ Install(p, r.files, r.next_fd, had)
           \/ r.ok /\ w.ok /\ Install(p, w.files, w.next_fd, had)
           \/ r.ok /\ ~w.ok /\ Install(p, CloseSlot(r.files, r.fd), w.next_fd, had)
  BY ZenonT(30) DEF Pipe2
<1> HIDE DEF r, re
<1>4. /\ w.files \in Seq(Slot) /\ w.next_fd \in Nat
      /\ Held(w.files) \subseteq Held(r.files) \cup {wf}
  <2> HIDE DEF we
  <2>1. /\ w.files \in Seq(Slot) /\ w.next_fd \in Nat
        /\ Held(w.files) \subseteq Held(r.files) \cup {we.file}
    BY <1>2, <1>3, OpenHeld, ZenonT(30)
  <2> QED BY <2>1, <1>2, ZenonT(30)
<1>5. CloseSlot(r.files, r.fd) \in Seq(Slot) /\ Held(CloseSlot(r.files, r.fd)) \subseteq Held(r.files)
  BY <1>3, CloseHeld, ZenonT(30)
<1> HIDE DEF w, we
<1>6. Held(files[p]) \subseteq AllHeld(files)
  BY OwnHeld, Zenon
<1>7. PICK gs \in Seq(Slot), nx \in Nat :
        /\ Install(p, gs, nx, had)
        /\ Held(gs) \subseteq AllHeld(files) \cup {rf, wf}
  <2>1. CASE ~r.ok /\ Install(p, r.files, r.next_fd, had)
    BY <2>1, <1>3, <1>6, Zenon
  <2>2. CASE r.ok /\ w.ok /\ Install(p, w.files, w.next_fd, had)
    BY <2>2, <1>3, <1>4, <1>6, Zenon
  <2>3. CASE r.ok /\ ~w.ok /\ Install(p, CloseSlot(r.files, r.fd), w.next_fd, had)
    BY <2>3, <1>3, <1>4, <1>5, <1>6, Zenon
  <2> QED BY <1>a, <2>1, <2>2, <2>3, ZenonT(30)
<1>8. files' = [files EXCEPT ![p] = gs] /\ next_fd' = [next_fd EXCEPT ![p] = nx]
      /\ pipe' = Drop(pipe, had, files')
  BY <1>7, Zenon DEF Install
<1>9. files' \in [Procs -> Seq(Slot)] /\ AllHeld(files') \subseteq had
  <2>1. /\ [files EXCEPT ![p] = gs] \in [Procs -> Seq(Slot)]
        /\ AllHeld([files EXCEPT ![p] = gs]) \subseteq AllHeld(files) \cup {rf, wf}
    BY <1>1, <1>7, OneTable, Zenon
  <2> QED BY <2>1, <1>8, ZenonT(30)
<1>10. next_fd' \in [Procs -> Nat]
  BY <1>1, <1>8, Zenon
<1>11. had = AllHeld(files) \cup ({q} \X Sides)
  BY DEF Sides
<1>12. made' = made \cup {q} /\ {q} \cap made = {} /\ {q} \in SUBSET Pipes /\ Quiet
  BY <1>a, Zenon
<1> HIDE DEF had
<1> QED BY <1>8, <1>9, <1>10, <1>11, <1>12, TableStep, Zenon

\* The other calls that change one table.
LEMMA OneTableCalls ==
  ASSUME IInv, NEW p \in Procs, NEW fd \in Nat, NEW m \in Nat, NEW c \in BOOLEAN,
         \/ Close(p, fd) \/ Dup(p, fd) \/ DupAtLeast(p, fd, m, c) \/ DupTo(p, fd, m, c)
         \/ Exec(p) \/ Exit(p)
  PROVE  IInv'
<1>1. PType /\ files[p] \in Seq(Slot) /\ next_fd[p] \in Nat
  BY Zenon DEF IInv, PType
<1>2. Held(files[p]) \subseteq AllHeld(files)
  BY OwnHeld, Zenon
<1>3. CASE Close(p, fd)
  <2>1. Install(p, CloseSlot(files[p], fd), next_fd[p], AllHeld(files)) /\ made' = made /\ Quiet
    BY <1>3, Zenon DEF Close
  <2>2. CloseSlot(files[p], fd) \in Seq(Slot) /\ Held(CloseSlot(files[p], fd)) \subseteq AllHeld(files)
    BY <1>1, <1>2, CloseHeld, ZenonT(30)
  <2> QED BY <1>1, <2>1, <2>2, InstallStep, Zenon
<1>4. CASE Dup(p, fd)
  <2> DEFINE e == [file |-> Fd(p, fd).file, cloexec |-> FALSE]
             a == open_with_flags(Table(p), e)
  <2>1. Install(p, a.files, a.next_fd, AllHeld(files)) /\ made' = made /\ Quiet /\ Has(p, fd)
    BY <1>4, Zenon DEF Dup
  <2>2. e \in Entry /\ e.file \in AllHeld(files)
    BY <1>1, <2>1, FdHeld, ZenonT(30) DEF Entry
  <2> HIDE DEF e
  <2>3. a.files \in Seq(Slot) /\ a.next_fd \in Nat /\ Held(a.files) \subseteq Held(files[p]) \cup {e.file}
    BY <1>1, <2>2, OpenHeld, Zenon DEF Table
  <2> HIDE DEF a
  <2>4. Held(a.files) \subseteq AllHeld(files)
    BY <1>2, <2>2, <2>3, Zenon
  <2> QED BY <2>1, <2>3, <2>4, InstallStep, Zenon
<1>5. CASE DupAtLeast(p, fd, m, c)
  <2> DEFINE e == [file |-> Fd(p, fd).file, cloexec |-> c]
             a == dup_at_least(Table(p), e, m)
  <2>1. Install(p, a.files, a.next_fd, AllHeld(files)) /\ made' = made /\ Quiet /\ Has(p, fd)
    BY <1>5, Zenon DEF DupAtLeast
  <2>2. e \in Entry /\ e.file \in AllHeld(files)
    BY <1>1, <2>1, FdHeld, ZenonT(30) DEF Entry
  <2> HIDE DEF e
  <2>3. a.files \in Seq(Slot) /\ a.next_fd \in Nat /\ Held(a.files) \subseteq Held(files[p]) \cup {e.file}
    BY <1>1, <2>2, DupAtLeastHeld, Zenon DEF Table
  <2> HIDE DEF a
  <2>4. Held(a.files) \subseteq AllHeld(files)
    BY <1>2, <2>2, <2>3, ZenonT(30)
  <2> QED BY <1>1, <2>1, <2>3, <2>4, InstallStep, Zenon
<1>6. CASE DupTo(p, fd, m, c)
  <2> DEFINE e == [file |-> Fd(p, fd).file, cloexec |-> c]
             gs == Replace(files[p], e, m)
  <2>1. Install(p, gs, next_fd[p], AllHeld(files)) /\ made' = made /\ Quiet /\ Has(p, fd)
    BY <1>6, Zenon DEF DupTo
  <2>2. e \in Entry /\ e.file \in AllHeld(files)
    BY <1>1, <2>1, FdHeld, ZenonT(30) DEF Entry
  <2> HIDE DEF e
  <2>3. gs \in Seq(Slot) /\ Held(gs) \subseteq Held(files[p]) \cup {e.file}
    BY <1>1, <2>2, ReplaceHeld, ZenonT(30)
  <2> HIDE DEF gs
  <2>4. Held(gs) \subseteq AllHeld(files)
    BY <1>2, <2>2, <2>3, Zenon
  <2> QED BY <1>1, <2>1, <2>3, <2>4, InstallStep, Zenon
<1>7. CASE Exec(p)
  <2>1. Install(p, CloseMarked(files[p]), next_fd[p], AllHeld(files)) /\ made' = made /\ Quiet
    BY <1>7, Zenon DEF Exec
  <2>2. CloseMarked(files[p]) \in Seq(Slot) /\ Held(CloseMarked(files[p])) \subseteq AllHeld(files)
    BY <1>1, <1>2, CloseHeld, Zenon
  <2> QED BY <1>1, <2>1, <2>2, InstallStep, Zenon
<1>8. CASE Exit(p)
  <2>1. Install(p, CloseAll(files[p]), next_fd[p], AllHeld(files)) /\ made' = made /\ Quiet
    BY <1>8, Zenon DEF Exit
  <2>2. CloseAll(files[p]) \in Seq(Slot) /\ Held(CloseAll(files[p])) \subseteq AllHeld(files)
    BY <1>1, <1>2, CloseHeld, Zenon
  <2> QED BY <1>1, <2>1, <2>2, InstallStep, Zenon
<1> QED BY <1>3, <1>4, <1>5, <1>6, <1>7, <1>8, Zenon

\* F_SETFD and fork, which drop nothing.
LEMMA CopyingCalls ==
  ASSUME IInv, NEW p \in Procs, NEW r \in Procs, NEW fd \in Nat, NEW c \in BOOLEAN,
         SetCloexec(p, fd, c) \/ Fork(p, r) \/ ForkFails(p)
  PROVE  IInv'
<1>1. PType /\ files \in [Procs -> Seq(Slot)] /\ files[p] \in Seq(Slot) /\ next_fd \in [Procs -> Nat]
  BY Zenon DEF IInv, PType
<1>2. Held(files[p]) \subseteq AllHeld(files)
  BY OwnHeld, Zenon
<1>3. CASE SetCloexec(p, fd, c)
  <2> DEFINE e == [file |-> Fd(p, fd).file, cloexec |-> c]
             gs == [files[p] EXCEPT ![fd + 1] = e]
  <2>1. /\ files' = [files EXCEPT ![p] = [files[p] EXCEPT ![fd + 1] = [Fd(p, fd) EXCEPT !.cloexec = c]]]
        /\ Has(p, fd) /\ UNCHANGED <<pipe, made, next_fd>> /\ Quiet
    BY <1>3, Zenon DEF SetCloexec, Fd
  <2>2. Fd(p, fd) \in Entry /\ Fd(p, fd).file \in AllHeld(files)
    BY <1>1, <2>1, FdHeld, Zenon
  <2>3. [Fd(p, fd) EXCEPT !.cloexec = c] = e /\ e \in Entry
    BY <2>2 DEF Entry
  <2>4. e \in Slot /\ e # None /\ fd + 1 \in 1..Len(files[p])
    BY <2>1, <2>3, ConstantsAssumption, Zenon DEF Slot, Has, IsOpen
  <2>5. e.file \in AllHeld(files)
    BY <2>2, Zenon
  <2> HIDE DEF e
  <2>6. gs \in Seq(Slot) /\ Held(gs) \subseteq Held(files[p]) \cup {e.file}
    BY <1>1, <2>4, PutHeld, Zenon
  <2>7. files' = [files EXCEPT ![p] = gs]
    BY <2>1, <2>3, ZenonT(30)
  <2> HIDE DEF gs
  <2>8. Held(gs) \subseteq AllHeld(files) \cup {}
    BY <1>2, <2>5, <2>6, Zenon
  <2>9. /\ [files EXCEPT ![p] = gs] \in [Procs -> Seq(Slot)]
        /\ AllHeld([files EXCEPT ![p] = gs]) \subseteq AllHeld(files) \cup {}
    BY <1>1, <2>6, <2>8, OneTable, Zenon
  <2>10. files' \in [Procs -> Seq(Slot)] /\ AllHeld(files') \subseteq AllHeld(files)
    BY <2>7, <2>9, ZenonT(30)
  <2> QED BY <1>1, <2>1, <2>10, KeepStep, ZenonT(30)
<1>4. CASE Fork(p, r)
  <2>1. files' = [files EXCEPT ![r] = files[p]] /\ next_fd' = [next_fd EXCEPT ![r] = next_fd[p]]
        /\ UNCHANGED <<pipe, made>> /\ Quiet
    BY <1>4, Zenon DEF Fork
  <2>2. Held(files[p]) \subseteq AllHeld(files) \cup {}
    BY <1>2, Zenon
  <2>3. /\ [files EXCEPT ![r] = files[p]] \in [Procs -> Seq(Slot)]
        /\ AllHeld([files EXCEPT ![r] = files[p]]) \subseteq AllHeld(files) \cup {}
    BY <1>1, <2>2, OneTable, Zenon
  <2>4. files' \in [Procs -> Seq(Slot)] /\ AllHeld(files') \subseteq AllHeld(files)
    BY <2>1, <2>3, ZenonT(30)
  <2>5. next_fd' \in [Procs -> Nat]
    BY <1>1, <2>1, Zenon
  <2> QED BY <2>1, <2>4, <2>5, KeepStep, ZenonT(30)
<1>5. CASE ForkFails(p)
  <2>1. files' = files /\ next_fd' = next_fd /\ UNCHANGED <<pipe, made>> /\ Quiet
    BY <1>5, Zenon DEF ForkFails
  <2> QED BY <1>1, <2>1, KeepStep, Zenon
<1> QED BY <1>3, <1>4, <1>5, Zenon

-----------------------------------------------------------------------------
\* Steps that move bytes.

\* Concatenation is associative.
LEMMA Regroup ==
  ASSUME NEW a \in Seq(Nat), NEW b \in Seq(Nat), NEW c \in Seq(Nat)
  PROVE  (a \o b) \o c = a \o (b \o c)
BY ConcatAssociative, SMTT(30)

\* The type and the length of a concatenation.
LEMMA Joined ==
  ASSUME NEW a \in Seq(Nat), NEW b \in Seq(Nat)
  PROVE  a \o b \in Seq(Nat) /\ Len(a \o b) = Len(a) + Len(b)
OBVIOUS

\* The numbers from n + 1 to n + k after the numbers from 1 to n.
LEMMA CountOn ==
  ASSUME NEW n \in Nat, NEW k \in Nat, NEW d \in Seq(Nat),
         Len(d) = k, \A i \in 1..k : d[i] = n + i
  PROVE  [i \in 1..n |-> i] \o d = [i \in 1..(n + k) |-> i]
<1> DEFINE s == [i \in 1..n |-> i]
           t == [i \in 1..(n + k) |-> i]
           u == s \o d
<1>s. s \in Seq(Nat) /\ Len(s) = n /\ \A i \in 1..n : s[i] = i
  OBVIOUS
<1> HIDE DEF s
<1>1. t \in Seq(Nat) /\ Len(t) = n + k /\ \A i \in 1..(n + k) : t[i] = i
  OBVIOUS
<1>2. u \in Seq(Nat) /\ Len(u) = Len(s) + Len(d)
  BY <1>s, Joined, ZenonT(30)
<1>3. ASSUME NEW i \in 1..(n + k) PROVE u[i] = i
  <2>1. CASE i <= n
    BY <2>1, <1>s
  <2>2. CASE ~(i <= n)
    <3>1. i - n \in 1..k
      BY <2>2
    <3>2. d[i - n] = n + (i - n)
      BY <3>1, Zenon
    <3> QED BY <2>2, <3>1, <3>2, <1>s
  <2> QED BY <2>1, <2>2, ZenonT(30)
<1> HIDE DEF u, t
<1>4. u = t
  BY <1>1, <1>2, <1>3, <1>s, SeqEqual, Zenon
<1> QED BY <1>4, Zenon DEF u, t, s

\* Taking the first k bytes off a buffer and handing them on.
LEMMA TakeBytes ==
  ASSUME NEW g \in Seq(Nat), NEW b \in Seq(Nat), NEW k \in 0..Len(b)
  PROVE  /\ SubSeq(b, 1, k) \in Seq(Nat) /\ SubSeq(b, k + 1, Len(b)) \in Seq(Nat)
         /\ Len(SubSeq(b, k + 1, Len(b))) = Len(b) - k
         /\ (g \o SubSeq(b, 1, k)) \o SubSeq(b, k + 1, Len(b)) = g \o b
<1> DEFINE x == SubSeq(b, 1, k)
           y == SubSeq(b, k + 1, Len(b))
<1>1. x \in Seq(Nat)
  OBVIOUS
<1>2. y \in Seq(Nat) /\ Len(y) = Len(b) - k
  OBVIOUS
<1>3. x \o y = b
  <2>1. 1 \in 1..Len(b) + 1 /\ k \in (1 - 1)..Len(b) /\ Len(b) \in k..Len(b)
    OBVIOUS
  <2>2. x \o y = SubSeq(b, 1, Len(b))
    BY <2>1, ConcatAdjacentSubSeq, Zenon
  <2> QED BY <2>2, SubSeqFull, ZenonT(30)
<1> HIDE DEF x, y
<1>4. (g \o x) \o y = g \o (x \o y)
  BY <1>1, <1>2, Regroup, ZenonT(30)
<1>5. (g \o x) \o y = g \o b
  BY <1>3, <1>4, Zenon
<1> QED BY <1>1, <1>2, <1>5, ZenonT(30) DEF x, y

\* A step that gives one pipe, still open or unchanged in its flags, another
\* buffer.
LEMMA BufferStep ==
  ASSUME IInv, NEW q \in Pipes, NEW b \in Seq(Nat), NEW g \in Seq(Nat), NEW n \in Nat,
         q \notin eof, Len(b) <= PIPE_CAPACITY, g \o b = [i \in 1..n |-> i],
         pipe' = [pipe EXCEPT ![q] = [pipe[q] EXCEPT !.buffer = b]],
         got' = [got EXCEPT ![q] = g], sent' = [sent EXCEPT ![q] = n],
         UNCHANGED <<files, next_fd, made, eof>>
  PROVE  IInv'
<1>1. /\ pipe \in [Pipes -> Inner] /\ got \in [Pipes -> Seq(Nat)] /\ sent \in [Pipes -> Nat]
      /\ pipe[q] \in Inner
  BY Zenon DEF IInv, PType
<1>2. /\ [pipe[q] EXCEPT !.buffer = b] \in Inner
      /\ [pipe[q] EXCEPT !.buffer = b].buffer = b
      /\ [pipe[q] EXCEPT !.buffer = b].write_closed = pipe[q].write_closed
      /\ [pipe[q] EXCEPT !.buffer = b].read_closed = pipe[q].read_closed
  BY <1>1, ZenonT(30) DEF Inner
<1> DEFINE x == [pipe[q] EXCEPT !.buffer = b]
<1> HIDE DEF x
<1>3. pipe' = [pipe EXCEPT ![q] = x] /\ x \in Inner /\ x.buffer = b
      /\ x.write_closed = pipe[q].write_closed /\ x.read_closed = pipe[q].read_closed
  BY <1>2, Zenon DEF x
<1>4. /\ pipe' \in [Pipes -> Inner] /\ got' \in [Pipes -> Seq(Nat)] /\ sent' \in [Pipes -> Nat]
      /\ pipe'[q] = x /\ got'[q] = g /\ sent'[q] = n
      /\ \A r \in Pipes \ {q} : pipe'[r] = pipe[r] /\ got'[r] = got[r] /\ sent'[r] = sent[r]
  BY <1>1, <1>3, ZenonT(30)
<1>5. PType'
  BY <1>4, Zenon DEF IInv, PType
<1>6. \A r \in Pipes : /\ pipe'[r].write_closed = pipe[r].write_closed
                       /\ pipe'[r].read_closed = pipe[r].read_closed
                       /\ r \in eof => pipe'[r].buffer = pipe[r].buffer
  BY <1>3, <1>4, Zenon
<1>7. Ends'
  BY <1>6, ZenonT(30) DEF IInv, Ends
<1>8. ASSUME NEW r \in Pipes
      PROVE  /\ got'[r] \o pipe'[r].buffer = [i \in 1..sent'[r] |-> i]
             /\ Len(pipe'[r].buffer) <= PIPE_CAPACITY
  <2>1. CASE r = q
    BY <2>1, <1>3, <1>4, ZenonT(30)
  <2>2. CASE r # q
    BY <2>2, <1>4, ZenonT(30) DEF IInv, ByteStream
  <2> QED BY <2>1, <2>2, ZenonT(30)
<1>9. ByteStream'
  BY <1>8, ZenonT(30) DEF ByteStream
<1> QED BY <1>5, <1>7, <1>9, Zenon DEF IInv

\* sys_read on a pipe keeps the invariant, at end of file and with bytes.
LEMMA ReadStep ==
  ASSUME IInv, NEW p \in Procs, NEW fd \in Nat, NEW q \in Pipes, NEW n \in Nat, Read(p, fd, q, n)
  PROVE  IInv'
<1> DEFINE b == pipe[q].buffer
           k == Least(n, Len(b))
           r == try_read(pipe[q], n)
<1>1. /\ pipe \in [Pipes -> Inner] /\ got \in [Pipes -> Seq(Nat)] /\ sent \in [Pipes -> Nat]
      /\ pipe[q] \in Inner /\ b \in Seq(Nat) /\ got[q] \in Seq(Nat) /\ sent[q] \in Nat
  BY Zenon DEF IInv, PType, Inner
<1>2. got[q] \o b = [i \in 1..sent[q] |-> i] /\ Len(b) <= PIPE_CAPACITY
  BY ZenonT(30) DEF IInv, ByteStream
<1>3. /\ pipe' = [pipe EXCEPT ![q] = r.inner]
      /\ got' = [got EXCEPT ![q] = got[q] \o r.bytes]
      /\ eof' = IF r.res = "eof" THEN eof \cup {q} ELSE eof
      /\ UNCHANGED <<files, next_fd, made, sent>>
  BY Zenon DEF Read
<1>4. CASE b = <<>>
  <2>1. r = [res |-> IF pipe[q].write_closed THEN "eof" ELSE "WouldBlock", bytes |-> <<>>, inner |-> pipe[q]]
    BY <1>4, Zenon DEF try_read
  <2>2. r.inner = pipe[q] /\ r.bytes = <<>> /\ (r.res = "eof" => pipe[q].write_closed)
    BY <2>1
  <2> HIDE DEF r
  <2>3. pipe' = pipe
    BY <1>1, <1>3, <2>2, Zenon
  <2>4. got[q] \o <<>> = got[q]
    BY <1>1, ConcatEmptySeq, Zenon
  <2>5. got' = got
    BY <1>1, <1>3, <2>2, <2>4, Zenon
  <2>6. \A x \in eof' : x \in eof \/ (x = q /\ pipe[q].write_closed)
    BY <1>3, <2>2, Zenon
  <2>7. PType'
    BY <1>3, <2>3, <2>5, <2>6, ZenonT(30) DEF IInv, PType
  <2>8. Ends'
    BY <1>3, <1>4, <2>3, <2>6, ZenonT(30) DEF IInv, Ends
  <2>9. ByteStream'
    BY <1>3, <2>3, <2>5, ZenonT(30) DEF IInv, ByteStream
  <2> QED BY <2>7, <2>8, <2>9, Zenon DEF IInv
<1>5. CASE b # <<>>
  <2> DEFINE y == SubSeq(b, k + 1, Len(b))
  <2>1. r = [res |-> "ok", bytes |-> SubSeq(b, 1, k), inner |-> [pipe[q] EXCEPT !.buffer = y]]
    BY <1>5, Zenon DEF try_read
  <2>2. k \in 0..Len(b)
    BY <1>1 DEF Least
  <2> DEFINE x == SubSeq(b, 1, k)
             nx == [pipe[q] EXCEPT !.buffer = y]
  <2> HIDE DEF r, k, b, x, nx
  <2>3. r.inner = nx /\ r.bytes = x /\ r.res = "ok"
    BY <2>1, ZenonT(30) DEF x, nx
  <2> USE DEF x, nx
  <2>4. /\ SubSeq(b, 1, k) \in Seq(Nat) /\ y \in Seq(Nat) /\ Len(y) = Len(b) - k
        /\ (got[q] \o SubSeq(b, 1, k)) \o y = got[q] \o b
    BY <1>1, <2>2, TakeBytes, ZenonT(30)
  <2> DEFINE g == got[q] \o SubSeq(b, 1, k)
  <2>5. g \in Seq(Nat)
    BY <1>1, <2>4, Joined, Zenon
  <2>6. g \o y = [i \in 1..sent[q] |-> i]
    BY <1>2, <2>4, ZenonT(30)
  <2> HIDE DEF y
  <2>7. Len(y) <= PIPE_CAPACITY
    BY <1>1, <1>2, <2>2, <2>4, ConstantsAssumption, SMTT(30)
  <2>8. q \notin eof
    BY <1>5, ZenonT(30) DEF IInv, Ends, b
  <2>9. sent' = [sent EXCEPT ![q] = sent[q]]
    BY <1>1, <1>3, Zenon
  <2>10. pipe' = [pipe EXCEPT ![q] = [pipe[q] EXCEPT !.buffer = y]] /\ got' = [got EXCEPT ![q] = g]
         /\ UNCHANGED <<files, next_fd, made, eof>>
    BY <1>3, <2>3, Zenon
  <2> HIDE DEF g
  <2> QED BY <1>1, <2>4, <2>5, <2>6, <2>7, <2>8, <2>9, <2>10, BufferStep, ZenonT(30)
<1> QED BY <1>4, <1>5, Zenon

\* sys_write on a pipe keeps the invariant, broken or not.
LEMMA WriteStep ==
  ASSUME IInv, NEW p \in Procs, NEW fd \in Nat, NEW q \in Pipes, NEW n \in Nat, Write(p, fd, q, n)
  PROVE  IInv'
<1> DEFINE b == pipe[q].buffer
           data == NextBytes(q, n)
           k == Least(Len(data), PIPE_CAPACITY - Len(b))
           w == pipe_write(pipe[q], data)
<1>1. /\ pipe \in [Pipes -> Inner] /\ got \in [Pipes -> Seq(Nat)] /\ sent \in [Pipes -> Nat]
      /\ pipe[q] \in Inner /\ b \in Seq(Nat) /\ got[q] \in Seq(Nat) /\ sent[q] \in Nat
  BY Zenon DEF IInv, PType, Inner
<1>2. got[q] \o b = [i \in 1..sent[q] |-> i] /\ Len(b) <= PIPE_CAPACITY
  BY ZenonT(30) DEF IInv, ByteStream
<1>3. /\ pipe' = [pipe EXCEPT ![q] = w.inner]
      /\ sent' = [sent EXCEPT ![q] = sent[q] + w.n]
      /\ UNCHANGED <<files, next_fd, made, got, eof>>
  BY Zenon DEF Write
<1>4. CASE pipe[q].read_closed \/ pipe[q].write_closed
  <2>1. w = [res |-> "BrokenPipe", n |-> 0, inner |-> pipe[q]]
    BY <1>4, Zenon DEF pipe_write
  <2>2. w.inner = pipe[q] /\ w.n = 0
    BY <2>1
  <2> HIDE DEF w
  <2>3. pipe' = pipe /\ sent' = sent
    BY <1>1, <1>3, <2>2
  <2>4. UNCHANGED <<files, next_fd, pipe, made, sent, got, eof>>
    BY <1>3, <2>3, Zenon
  <2> QED BY <2>4, ZenonT(30) DEF IInv, PType, Ends, ByteStream
<1>5. CASE ~(pipe[q].read_closed \/ pipe[q].write_closed)
  <2> DEFINE d == SubSeq(data, 1, k)
  <2>1. w = [res |-> "ok", n |-> k, inner |-> [pipe[q] EXCEPT !.buffer = b \o d]]
    BY <1>5, Zenon DEF pipe_write
  <2>2. w.n = k /\ w.inner = [pipe[q] EXCEPT !.buffer = b \o d]
    BY <2>1
  <2>3. data \in Seq(Nat) /\ Len(data) = n /\ \A i \in 1..n : data[i] = sent[q] + i
    BY <1>1 DEF NextBytes
  <2> HIDE DEF w, data
  <2> HIDE DEF b
  <2>c. PIPE_CAPACITY \in Nat /\ Len(b) \in Nat
    BY <1>1, ConstantsAssumption
  <2>4. k \in Nat /\ k <= n /\ k <= PIPE_CAPACITY - Len(b)
    BY <1>2, <2>c, <2>3 DEF Least
  <2> HIDE DEF k
  <2>5. d \in Seq(Nat) /\ Len(d) = k /\ \A i \in 1..k : d[i] = data[i]
    BY <2>3, <2>4
  <2> HIDE DEF d
  <2>6. \A i \in 1..k : d[i] = sent[q] + i
    BY <2>3, <2>4, <2>5
  <2>7. b \o d \in Seq(Nat) /\ Len(b \o d) = Len(b) + k
    BY <1>1, <2>5, Joined, ZenonT(30)
  <2>8. got[q] \o (b \o d) = [i \in 1..(sent[q] + k) |-> i]
    <3>1. got[q] \in Seq(Nat) /\ b \in Seq(Nat) /\ sent[q] \in Nat /\ k \in Nat /\ d \in Seq(Nat) /\ Len(d) = k
      BY <1>1, <2>4, <2>5, Zenon
    <3> DEFINE g == got[q]
               s == sent[q]
    <3>2. g \o b = [i \in 1..s |-> i] /\ \A i \in 1..k : d[i] = s + i
      BY <1>2, <2>6, Zenon
    <3>3. g \in Seq(Nat) /\ s \in Nat
      BY <3>1, Zenon
    <3> HIDE DEF g, s
    <3>4. [i \in 1..s |-> i] \o d = [i \in 1..(s + k) |-> i]
      BY <3>1, <3>2, <3>3, CountOn, ZenonT(30)
    <3>5. (g \o b) \o d = g \o (b \o d)
      BY <3>1, <3>3, Regroup, ZenonT(30)
    <3>6. g \o (b \o d) = [i \in 1..(s + k) |-> i]
      BY <3>2, <3>4, <3>5, ZenonT(30)
    <3> QED BY <3>6, Zenon DEF g, s
  <2> DEFINE bb == b \o d
             m == sent[q] + k
  <2>9. Len(bb) <= PIPE_CAPACITY /\ m \in Nat
    BY <1>1, <2>c, <2>4, <2>7
  <2>10. q \notin eof
    BY <1>5, ZenonT(30) DEF IInv, Ends
  <2>11. got' = [got EXCEPT ![q] = got[q]]
    BY <1>1, <1>3, Zenon
  <2>12. pipe' = [pipe EXCEPT ![q] = [pipe[q] EXCEPT !.buffer = bb]] /\ sent' = [sent EXCEPT ![q] = m]
         /\ UNCHANGED <<files, next_fd, made, eof>>
    BY <1>3, <2>2, Zenon
  <2>13. bb \in Seq(Nat) /\ got[q] \o bb = [i \in 1..m |-> i]
    BY <2>7, <2>8, Zenon
  <2> HIDE DEF bb, m
  <2> QED BY <1>1, <2>9, <2>10, <2>11, <2>12, <2>13, BufferStep, ZenonT(30)
<1> QED BY <1>4, <1>5, Zenon

-----------------------------------------------------------------------------
\* The invariant holds of the empty tables and the pipes not made yet.
LEMMA InitIInv == Init => IInv
<1> SUFFICES ASSUME Init PROVE IInv
  OBVIOUS
<1>1. \A p \in Procs : files[p] = NewTable.files
  BY Zenon DEF Init
<1>2. NewTable.files = [i \in 1..STD_SLOTS |-> None] /\ NewTable.next_fd = STD_SLOTS
  BY Zenon DEF NewTable
<1>3. STD_SLOTS \in Nat /\ PIPE_CAPACITY \in Nat
  BY ConstantsAssumption, Zenon
<1>4. NewTable.files \in Seq(Slot)
  BY <1>2, <1>3 DEF Slot
<1>5. Held(NewTable.files) = {}
  BY <1>2, <1>3 DEF Held
<1>6. AllHeld(files) = {}
  BY <1>1, <1>5, Zenon DEF AllHeld
<1>7. \A q \in Pipes : pipe[q] = NewInner /\ got[q] = <<>> /\ sent[q] = 0
  BY Zenon DEF Init
<1>8. NewInner \in Inner /\ NewInner.buffer = <<>> /\ NewInner.write_closed = FALSE /\ NewInner.read_closed = FALSE
  BY DEF NewInner, Inner
<1>9. PType
  BY <1>2, <1>3, <1>4, <1>8 DEF PType, Init
<1>10. Ends
  BY <1>6, <1>7, <1>8, Zenon DEF Ends, Init
<1>11. ByteStream
  <2>1. <<>> \o <<>> = [i \in 1..0 |-> i] /\ Len(<<>>) = 0
    OBVIOUS
  <2>2. \A q \in Pipes : got[q] = <<>> /\ pipe[q].buffer = <<>> /\ sent[q] = 0
    BY <1>7, <1>8, Zenon
  <2>3. Len(<<>>) <= PIPE_CAPACITY
    BY <1>3, SMTT(30)
  <2> QED BY <2>1, <2>2, <2>3, Zenon DEF ByteStream
<1> QED BY <1>9, <1>10, <1>11, Zenon DEF IInv

\* Every call keeps the invariant.
LEMMA NextIInv == IInv /\ [Next]_vars => IInv'
<1> SUFFICES ASSUME IInv, [Next]_vars PROVE IInv'
  OBVIOUS
<1> USE ConstantsAssumption
<1>f. FdArgs \subseteq Nat /\ NewFdArgs \subseteq Nat /\ 1..MaxCount \subseteq Nat /\ 0 \in Nat
      /\ TRUE \in BOOLEAN
  BY SMTT(30)
<1>1. ASSUME NEW p \in Procs, NEW q \in Pipes, NEW c \in BOOLEAN, Pipe2(p, q, c) PROVE IInv'
  BY <1>1, Pipe2Step, Zenon
<1>2. ASSUME NEW p \in Procs, NEW fd \in FdArgs, Close(p, fd) \/ Dup(p, fd) PROVE IInv'
  BY <1>2, <1>f, OneTableCalls, ZenonT(30)
<1>3. ASSUME NEW p \in Procs, NEW fd \in FdArgs, NEW m \in NewFdArgs, NEW c \in BOOLEAN,
             DupAtLeast(p, fd, m, c) \/ DupTo(p, fd, m, c)
      PROVE  IInv'
  BY <1>3, <1>f, OneTableCalls, Zenon
<1>4. ASSUME NEW p \in Procs, Exec(p) \/ Exit(p) PROVE IInv'
  BY <1>4, <1>f, OneTableCalls, ZenonT(30)
<1>5. ASSUME NEW p \in Procs, NEW fd \in FdArgs, NEW c \in BOOLEAN, SetCloexec(p, fd, c) PROVE IInv'
  BY <1>5, <1>f, CopyingCalls, Zenon
<1>6. ASSUME NEW p \in Procs, NEW c \in Procs, Fork(p, c) \/ ForkFails(p) PROVE IInv'
  BY <1>6, <1>f, CopyingCalls, ZenonT(30)
<1>7. ASSUME NEW q \in Pipes, ReadSome(q) PROVE IInv'
  BY <1>7, <1>f, ReadStep, Zenon DEF ReadSome
<1>8. ASSUME NEW p \in Procs, NEW fd \in FdArgs, NEW q \in Pipes, NEW n \in 1..MaxCount, Write(p, fd, q, n)
      PROVE  IInv'
  BY <1>8, <1>f, WriteStep, ZenonT(30)
<1>9. CASE UNCHANGED vars
  BY <1>9, ZenonT(30) DEF vars, IInv, PType, Ends, ByteStream
<1> QED BY <1>1, <1>2, <1>3, <1>4, <1>5, <1>6, <1>7, <1>8, <1>9, ZenonT(30) DEF Next

\* Pipes carry their bytes intact: for any processes, pipes, tables and
\* capacity, what try_read handed out followed by the buffer is exactly what
\* PipeWriter::write accepted.
THEOREM StreamKept == Spec => []ByteStream
<1>1. IInv => ByteStream
  BY Zenon DEF IInv
<1> QED BY <1>1, InitIInv, NextIInv, PTL DEF Spec

\* End of file and broken pipe are truthful and final, whatever fork, dup,
\* dup2, F_DUPFD, exec and exit do to the tables, and although refcount plays
\* no part in it.
THEOREM HangupIsTruthful == Spec => []HangupIsFinal
<1>1. ASSUME IInv PROVE HangupIsFinal
  <2>1. ASSUME NEW q \in eof
        PROVE  <<q, "w">> \notin AllHeld(files) /\ Len(got[q]) = sent[q]
    <3>1. q \in Pipes /\ got[q] \in Seq(Nat) /\ sent[q] \in Nat
      BY <1>1, Zenon DEF IInv, PType
    <3>2. pipe[q].write_closed /\ pipe[q].buffer = <<>> /\ <<q, "w">> \notin AllHeld(files)
      BY <1>1, <3>1, ZenonT(30) DEF IInv, Ends
    <3>3. got[q] \o <<>> = [i \in 1..sent[q] |-> i]
      BY <1>1, <3>1, <3>2, ZenonT(30) DEF IInv, ByteStream
    <3>4. got[q] = [i \in 1..sent[q] |-> i]
      BY <3>1, <3>3, ConcatEmptySeq, Zenon
    <3> QED BY <3>1, <3>2, <3>4
  <2> QED BY <1>1, <2>1, ZenonT(30) DEF HangupIsFinal, IInv, Ends
<1> QED BY <1>1, InitIInv, NextIInv, PTL DEF Spec

-----------------------------------------------------------------------------
\* poll.

\* poll tells the truth about the next read and the next write, for every
\* capacity: POLLIN, POLLOUT and POLLERR of poll_read and poll_write against
\* what try_read and PipeWriter::write answer.
THEOREM PollIsTruthful == Spec => []PollPromises
<1>1. ASSUME IInv PROVE PollPromises
  <2> SUFFICES ASSUME NEW q \in made
               PROVE  /\ ("POLLIN" \in poll_read(pipe[q])) <=> try_read(pipe[q], 1).res # "WouldBlock"
                      /\ <<q, "w">> \in AllHeld(files) =>
                           LET w == pipe_write(pipe[q], <<sent[q] + 1>>) IN
                           /\ ("POLLOUT" \in poll_write(pipe[q])) <=> w.n = 1
                           /\ ("POLLERR" \in poll_write(pipe[q])) <=> w.res = "BrokenPipe"
    BY Zenon DEF PollPromises
  <2> DEFINE in == pipe[q]
             d == <<sent[q] + 1>>
             w == pipe_write(in, d)
  <2>1. q \in Pipes /\ in \in Inner /\ sent[q] \in Nat /\ Len(in.buffer) \in Nat
        /\ Len(in.buffer) <= PIPE_CAPACITY /\ PIPE_CAPACITY \in Nat
    BY <1>1, ConstantsAssumption DEF IInv, PType, Inner, ByteStream
  <2>2. <<q, "w">> \in AllHeld(files) => ~in.write_closed
    BY <1>1, <2>1, Zenon DEF IInv, Ends
  <2>3. ("POLLIN" \in poll_read(in)) <=> (in.buffer # <<>> \/ in.write_closed)
    BY Zenon DEF poll_read
  <2>4. try_read(in, 1).res # "WouldBlock" <=> (in.buffer # <<>> \/ in.write_closed)
    BY Zenon DEF try_read
  <2>5. ASSUME <<q, "w">> \in AllHeld(files)
        PROVE  /\ ("POLLOUT" \in poll_write(in)) <=> w.n = 1
               /\ ("POLLERR" \in poll_write(in)) <=> w.res = "BrokenPipe"
    <3>1. CASE in.read_closed
      <4>1. w.res = "BrokenPipe" /\ w.n = 0
        BY <3>1, Zenon DEF pipe_write
      <4>2. poll_write(in) = {"POLLERR"}
        BY <3>1, Zenon DEF poll_write
      <4> QED BY <4>1, <4>2
    <3>2. CASE ~in.read_closed
      <4>1. Len(d) = 1
        OBVIOUS
      <4>2. w.res = "ok" /\ w.n = Least(1, PIPE_CAPACITY - Len(in.buffer))
        BY <2>2, <2>5, <3>2, <4>1, Zenon DEF pipe_write
      <4>3. w.n = 1 <=> Len(in.buffer) < PIPE_CAPACITY
        BY <2>1, <4>2 DEF Least
      <4>4. "POLLOUT" \in poll_write(in) <=> Len(in.buffer) < PIPE_CAPACITY
        BY <3>2, Zenon DEF poll_write
      <4>5. "POLLERR" \notin poll_write(in)
        BY <3>2, Zenon DEF poll_write
      <4> QED BY <4>2, <4>3, <4>4, <4>5, Zenon
    <3> QED BY <3>1, <3>2, Zenon
  <2> QED BY <2>3, <2>4, <2>5, Zenon
<1> QED BY <1>1, InitIInv, NextIInv, PTL DEF Spec
-----------------------------------------------------------------------------
\* The hand-kept count.

\* The slots of one table that refer to f, and whether the entry x does.
SlotSet(fs, f) == {i \in 1..Len(fs) : fs[i] # None /\ fs[i].file = f}
Bit(x, f) == IF x # None /\ x.file = f THEN 1 ELSE 0

\* No table is longer than this.
MaxSlots == IF STD_SLOTS > MaxLen THEN STD_SLOTS ELSE MaxLen

\* The descriptors that refer to f, in all the tables.
Refs(tabs, f) ==
  {x \in Procs \X (1..MaxSlots) :
     /\ x[2] <= Len(tabs[x[1]])
     /\ tabs[x[1]][x[2]] # None
     /\ tabs[x[1]][x[2]].file = f}

\* The number of slots is a number.
LEMMA SlotsType ==
  ASSUME NEW fs \in Seq(Slot), NEW f
  PROVE  /\ IsFiniteSet(SlotSet(fs, f)) /\ Slots(fs, f) = Cardinality(SlotSet(fs, f))
         /\ Slots(fs, f) \in Nat
<1>1. IsFiniteSet(1..Len(fs)) /\ SlotSet(fs, f) \subseteq 1..Len(fs)
  <2>1. Len(fs) \in Int
    OBVIOUS
  <2> QED BY <2>1, FS_Interval DEF SlotSet
<1>2. IsFiniteSet(SlotSet(fs, f))
  BY <1>1, FS_Subset, Zenon
<1> QED BY <1>2, FS_CardinalityType, Zenon DEF Slots, SlotSet

\* A set with or without one more element, counted.
LEMMA CountWithout ==
  ASSUME NEW S, IsFiniteSet(S), NEW i
  PROVE  /\ IsFiniteSet(S \ {i})
         /\ Cardinality(S) \in Nat /\ Cardinality(S \ {i}) \in Nat
         /\ i \in S => Cardinality(S) = Cardinality(S \ {i}) + 1
         /\ i \notin S => Cardinality(S) = Cardinality(S \ {i})
<1>1. IsFiniteSet(S \ {i})
  BY FS_Subset, Zenon
<1>2. Cardinality(S) \in Nat /\ Cardinality(S \ {i}) \in Nat
  BY <1>1, FS_CardinalityType, Zenon
<1>3. i \in S => Cardinality(S \ {i}) = Cardinality(S) - 1
  BY FS_RemoveElement, Zenon
<1>4. i \notin S => S \ {i} = S
  OBVIOUS
<1> QED BY <1>1, <1>2, <1>3, <1>4

\* Storing x in slot i.
LEMMA PutSlots ==
  ASSUME NEW fs \in Seq(Slot), NEW i \in 1..Len(fs), NEW x \in Slot, NEW f
  PROVE  Slots([fs EXCEPT ![i] = x], f) + Bit(fs[i], f) = Slots(fs, f) + Bit(x, f)
<1> DEFINE gs == [fs EXCEPT ![i] = x]
           A == SlotSet(fs, f)
           B == SlotSet(gs, f)
<1>1. gs \in Seq(Slot) /\ Len(gs) = Len(fs) /\ \A j \in 1..Len(fs) : gs[j] = IF j = i THEN x ELSE fs[j]
  OBVIOUS
<1> HIDE DEF gs
<1>2. A \ {i} = B \ {i}
  BY <1>1, Zenon DEF SlotSet
<1>3. (i \in A <=> fs[i] # None /\ fs[i].file = f) /\ (i \in B <=> x # None /\ x.file = f)
  BY <1>1, Zenon DEF SlotSet
<1>4. /\ IsFiniteSet(A) /\ Slots(fs, f) = Cardinality(A)
      /\ IsFiniteSet(B) /\ Slots(gs, f) = Cardinality(B)
  BY <1>1, SlotsType, Zenon
<1> HIDE DEF A, B
<1>5. /\ Cardinality(A) \in Nat /\ Cardinality(A \ {i}) \in Nat
      /\ i \in A => Cardinality(A) = Cardinality(A \ {i}) + 1
      /\ i \notin A => Cardinality(A) = Cardinality(A \ {i})
  BY <1>4, CountWithout, Zenon
<1>6. /\ Cardinality(B) \in Nat /\ Cardinality(B \ {i}) \in Nat
      /\ i \in B => Cardinality(B) = Cardinality(B \ {i}) + 1
      /\ i \notin B => Cardinality(B) = Cardinality(B \ {i})
  BY <1>4, CountWithout, Zenon
<1>b. Bit(fs[i], f) = (IF i \in A THEN 1 ELSE 0) /\ Bit(x, f) = (IF i \in B THEN 1 ELSE 0)
  BY <1>3, Zenon DEF Bit
<1>7. Slots(gs, f) + Bit(fs[i], f) = Slots(fs, f) + Bit(x, f)
  <2> DEFINE n == Cardinality(A \ {i})
  <2>1. n = Cardinality(B \ {i}) /\ n \in Nat
    BY <1>2, <1>5, Zenon
  <2>2. Slots(fs, f) = n + Bit(fs[i], f)
    <3> HIDE DEF n
    <3> QED BY <1>4, <1>5, <1>b, <2>1 DEF n
  <2>3. Slots(gs, f) = n + Bit(x, f)
    BY <1>4, <1>6, <1>b, <2>1
  <2>4. Bit(x, f) \in Nat /\ Bit(fs[i], f) \in Nat
    BY Zenon DEF Bit
  <2> HIDE DEF n
  <2> QED BY <2>1, <2>2, <2>3, <2>4
<1> QED BY <1>7, Zenon DEF gs

\* Appending x.
LEMMA AppendSlots ==
  ASSUME NEW fs \in Seq(Slot), NEW x \in Slot, NEW f
  PROVE  Slots(Append(fs, x), f) = Slots(fs, f) + Bit(x, f)
<1> DEFINE gs == Append(fs, x)
           n == Len(fs) + 1
           A == SlotSet(fs, f)
           B == SlotSet(gs, f)
<1>1. gs \in Seq(Slot) /\ Len(gs) = n /\ gs[n] = x /\ (\A j \in 1..Len(fs) : gs[j] = fs[j]) /\ Len(fs) \in Nat
  OBVIOUS
<1> HIDE DEF gs
<1>2. A = B \ {n}
  BY <1>1 DEF SlotSet
<1>3. n \in B <=> x # None /\ x.file = f
  BY <1>1 DEF SlotSet
<1>4. /\ IsFiniteSet(A) /\ Slots(fs, f) = Cardinality(A)
      /\ IsFiniteSet(B) /\ Slots(gs, f) = Cardinality(B)
  BY <1>1, SlotsType, Zenon
<1> HIDE DEF A, B
<1>5. /\ Cardinality(B) \in Nat /\ Cardinality(B \ {n}) \in Nat
      /\ n \in B => Cardinality(B) = Cardinality(B \ {n}) + 1
      /\ n \notin B => Cardinality(B) = Cardinality(B \ {n})
  BY <1>4, CountWithout, Zenon
<1>6. Slots(gs, f) = Slots(fs, f) + Bit(x, f)
  BY <1>2, <1>3, <1>4, <1>5 DEF Bit
<1> QED BY <1>6, Zenon DEF gs

\* Lengthening a table adds no reference.
LEMMA GrowSlots ==
  ASSUME NEW fs \in Seq(Slot), NEW n \in Nat, NEW f
  PROVE  /\ Slots(Grow(fs, n), f) = Slots(fs, f)
         /\ Grow(fs, n)[n + 1] = IF n + 1 \in 1..Len(fs) THEN fs[n + 1] ELSE None
<1> DEFINE m == IF Len(fs) > n THEN Len(fs) ELSE n + 1
           gs == Grow(fs, n)
<1>1. m \in Nat /\ m >= n + 1 /\ m >= Len(fs) /\ Len(fs) \in Nat
  OBVIOUS
<1> HIDE DEF m
<1>2. gs = [i \in 1..m |-> IF i <= Len(fs) THEN fs[i] ELSE None]
  BY Zenon DEF Grow, m
<1>3. \A i \in 1..m : (i <= Len(fs) => gs[i] = fs[i]) /\ (~(i <= Len(fs)) => gs[i] = None)
  BY <1>2, Zenon
<1>4. Len(gs) = m
  BY <1>1, <1>2
<1> HIDE DEF gs
<1>5. SlotSet(gs, f) = SlotSet(fs, f)
  BY <1>1, <1>3, <1>4 DEF SlotSet
<1>6. gs[n + 1] = IF n + 1 \in 1..Len(fs) THEN fs[n + 1] ELSE None
  BY <1>1, <1>3
<1> QED BY <1>5, <1>6, Zenon DEF gs, Slots, SlotSet
\* Storing an entry adds at most its own reference.
LEMMA PutAtMost ==
  ASSUME NEW fs \in Seq(Slot), NEW i \in 1..Len(fs), NEW x \in Slot, NEW f
  PROVE  Slots([fs EXCEPT ![i] = x], f) <= Slots(fs, f) + Bit(x, f)
<1>1. Slots([fs EXCEPT ![i] = x], f) + Bit(fs[i], f) = Slots(fs, f) + Bit(x, f)
  BY PutSlots, Zenon
<1>2. Bit(fs[i], f) \in Nat /\ Bit(x, f) \in Nat
  BY Zenon DEF Bit
<1>3. [fs EXCEPT ![i] = x] \in Seq(Slot)
  OBVIOUS
<1>4. Slots(fs, f) \in Nat /\ Slots([fs EXCEPT ![i] = x], f) \in Nat
  BY <1>3, SlotsType, Zenon
<1> QED BY <1>1, <1>2, <1>4

\* open_with_flags adds at most one reference to the file it is given.
LEMMA OpenSlots ==
  ASSUME NEW fs \in Seq(Slot), NEW nx \in Nat, NEW e \in Entry, NEW f
  PROVE  Slots(open_with_flags([files |-> fs, next_fd |-> nx], e).files, f) <= Slots(fs, f) + Bit(e, f)
<1> DEFINE t == [files |-> fs, next_fd |-> nx]
           a == open_with_flags(t, e)
           i == Lowest(EmptySlots(fs, 0))
<1>e. e \in Slot
  BY Zenon DEF Slot
<1>s. Slots(fs, f) \in Nat /\ Bit(e, f) \in Nat
  BY SlotsType, Zenon DEF Bit
<1>1. CASE EmptySlots(fs, 0) # {}
  <2>1. i \in 1..Len(fs)
    BY <1>1, LowestEmpty, Zenon
  <2>2. a = Answer(TRUE, [fs EXCEPT ![i] = e], nx, FdOf(i))
    BY <1>1, ZenonT(30) DEF open_with_flags
  <2> HIDE DEF a, i
  <2>3. a.files = [fs EXCEPT ![i] = e]
    BY <2>2, Zenon DEF Answer
  <2>4. Slots(a.files, f) <= Slots(fs, f) + Bit(e, f)
    BY <2>1, <2>3, <1>e, PutAtMost, Zenon
  <2> QED BY <2>4, Zenon DEF a
<1>2. CASE EmptySlots(fs, 0) = {} /\ nx >= MAX_OPEN
  <2>1. a = Answer(FALSE, fs, nx, 0)
    BY <1>2, ZenonT(30) DEF open_with_flags
  <2> HIDE DEF a
  <2>2. a.files = fs
    BY <2>1, Zenon DEF Answer
  <2>3. Slots(a.files, f) <= Slots(fs, f) + Bit(e, f)
    BY <2>2, <1>s
  <2> QED BY <2>3, Zenon DEF a
<1>3. CASE EmptySlots(fs, 0) = {} /\ ~(nx >= MAX_OPEN)
  <2>1. a = Answer(TRUE, Append(fs, e), nx + 1, nx)
    BY <1>3, ZenonT(30) DEF open_with_flags
  <2> HIDE DEF a
  <2>2. a.files = Append(fs, e)
    BY <2>1, Zenon DEF Answer
  <2>3. Slots(a.files, f) <= Slots(fs, f) + Bit(e, f)
    BY <2>2, <1>e, <1>s, AppendSlots
  <2> QED BY <2>3, Zenon DEF a
<1> QED BY <1>1, <1>2, <1>3, Zenon

\* So does dup_at_least.
LEMMA DupAtLeastSlots ==
  ASSUME NEW fs \in Seq(Slot), NEW nx \in Nat, NEW e \in Entry, NEW m \in Nat, NEW f
  PROVE  Slots(dup_at_least([files |-> fs, next_fd |-> nx], e, m).files, f) <= Slots(fs, f) + Bit(e, f)
<1> DEFINE t == [files |-> fs, next_fd |-> nx]
           a == dup_at_least(t, e, m)
           gs == Grow(fs, m)
           nn == IF nx <= m THEN m ELSE nx
           i == Lowest(EmptySlots(gs, m))
<1>e. e \in Slot
  BY Zenon DEF Slot
<1>s. Slots(fs, f) \in Nat /\ Bit(e, f) \in Nat
  BY SlotsType, Zenon DEF Bit
<1>g. gs \in Seq(Slot) /\ Slots(gs, f) = Slots(fs, f)
  BY GrowHeld, GrowSlots
<1>n. nn \in Nat
  OBVIOUS
<1>1. CASE EmptySlots(gs, m) # {}
  <2>1. a = Answer(TRUE, [gs EXCEPT ![i] = e], nn, FdOf(i))
    BY <1>1, ZenonT(30) DEF dup_at_least
  <2> HIDE DEF a, gs, nn
  <2>2. i \in 1..Len(gs)
    BY <1>1, <1>g, LowestEmpty, Zenon
  <2> HIDE DEF i
  <2>3. a.files = [gs EXCEPT ![i] = e]
    BY <2>1, Zenon DEF Answer
  <2>4. Slots(a.files, f) <= Slots(gs, f) + Bit(e, f)
    BY <2>2, <2>3, <1>e, <1>g, PutAtMost, Zenon
  <2> QED BY <2>4, <1>g, Zenon DEF a
<1>2. CASE EmptySlots(gs, m) = {} /\ nn >= MAX_OPEN
  <2>1. a = Answer(FALSE, gs, nn, 0)
    BY <1>2, ZenonT(30) DEF dup_at_least
  <2> HIDE DEF a, gs, nn
  <2>2. a.files = gs
    BY <2>1, Zenon DEF Answer
  <2>3. Slots(a.files, f) <= Slots(fs, f) + Bit(e, f)
    BY <2>2, <1>g, <1>s
  <2> QED BY <2>3, Zenon DEF a
<1>3. CASE EmptySlots(gs, m) = {} /\ ~(nn >= MAX_OPEN)
  <2> DEFINE hs == Grow(gs, nn)
  <2>1. a = Answer(TRUE, [hs EXCEPT ![nn + 1] = e], nn + 1, nn)
    BY <1>3, ZenonT(30) DEF dup_at_least
  <2> HIDE DEF a, gs, nn
  <2>2. hs \in Seq(Slot) /\ Slots(hs, f) = Slots(gs, f) /\ nn + 1 \in 1..Len(hs)
    <3>1. hs \in Seq(Slot) /\ nn + 1 \in 1..Len(hs)
      BY <1>g, <1>n, GrowHeld, Zenon
    <3>2. Slots(hs, f) = Slots(gs, f)
      BY <1>g, <1>n, GrowSlots, Zenon
    <3> QED BY <3>1, <3>2, Zenon
  <2> HIDE DEF hs
  <2>3. a.files = [hs EXCEPT ![nn + 1] = e]
    BY <2>1, Zenon DEF Answer
  <2>4. Slots(a.files, f) <= Slots(hs, f) + Bit(e, f)
    BY <2>2, <2>3, <1>e, PutAtMost, Zenon
  <2> QED BY <2>2, <2>4, <1>g, Zenon DEF a
<1> QED BY <1>1, <1>2, <1>3, Zenon

\* dup2 and dup3 close what the slot held and add one reference.
LEMMA ReplaceSlots ==
  ASSUME NEW fs \in Seq(Slot), NEW e \in Entry, NEW n \in Nat, NEW f
  PROVE  /\ Slots(Replace(fs, e, n), f) = Slots(CloseSlot(fs, n), f) + Bit(e, f)
         /\ Slots(CloseSlot(fs, n), f) <= Slots(fs, f)
<1> DEFINE gs == Grow(fs, n)
           old == IF n + 1 \in 1..Len(fs) THEN fs[n + 1] ELSE None
           cs == CloseSlot(fs, n)
           rs == Replace(fs, e, n)
<1>1. gs \in Seq(Slot) /\ n + 1 \in 1..Len(gs) /\ Slots(gs, f) = Slots(fs, f) /\ gs[n + 1] = old
  BY GrowHeld, GrowSlots, Zenon
<1>2. e \in Slot /\ None \in Slot
  BY Zenon DEF Slot
<1>3. rs = [gs EXCEPT ![n + 1] = e]
  BY Zenon DEF Replace
<1>t. /\ Slots(fs, f) \in Nat /\ Slots(rs, f) \in Nat /\ Slots(cs, f) \in Nat
      /\ Bit(e, f) \in Nat /\ Bit(old, f) \in Nat
  BY ReplaceHeld, CloseHeld, SlotsType, Zenon DEF Bit
<1>4. Slots(rs, f) + Bit(old, f) = Slots(fs, f) + Bit(e, f)
  <2> DEFINE i == n + 1
  <2> HIDE DEF gs, old
  <2>1. i \in 1..Len(gs) /\ gs[i] = old /\ rs = [gs EXCEPT ![i] = e]
    BY <1>1, <1>3, Zenon
  <2> HIDE DEF i, rs
  <2>2. Slots([gs EXCEPT ![i] = e], f) + Bit(gs[i], f) = Slots(gs, f) + Bit(e, f)
    BY <1>1, <1>2, <2>1, PutSlots, Zenon
  <2> QED BY <1>1, <2>1, <2>2, Zenon
<1>5. Slots(cs, f) + Bit(old, f) = Slots(fs, f)
  <2>1. CASE IsOpen(fs, n)
    <3>1. n + 1 \in 1..Len(fs) /\ old = fs[n + 1]
      BY <2>1, Zenon DEF IsOpen
    <3>2. cs = [fs EXCEPT ![n + 1] = None]
      BY <2>1, Zenon DEF CloseSlot
    <3>3. Slots([fs EXCEPT ![n + 1] = None], f) + Bit(fs[n + 1], f) = Slots(fs, f) + Bit(None, f)
      BY <3>1, <1>2, PutSlots, Zenon
    <3>4. Bit(None, f) = 0
      BY Zenon DEF Bit
    <3> HIDE DEF cs, old
    <3> QED BY <3>1, <3>2, <3>3, <3>4, <1>t
  <2>2. CASE ~IsOpen(fs, n)
    <3>1. old = None /\ cs = fs
      BY <2>2, Zenon DEF IsOpen, CloseSlot
    <3> HIDE DEF cs, old
    <3>2. Bit(old, f) = 0
      BY <3>1, Zenon DEF Bit
    <3> QED BY <3>1, <3>2, <1>t
  <2> QED BY <2>1, <2>2, Zenon
<1> HIDE DEF rs, cs, old
<1>6. Slots(rs, f) = Slots(cs, f) + Bit(e, f) /\ Slots(cs, f) <= Slots(fs, f)
  <2> DEFINE a == Slots(rs, f)
             b == Slots(cs, f)
             k == Slots(fs, f)
             x == Bit(e, f)
             y == Bit(old, f)
  <2>1. /\ a \in Nat /\ b \in Nat /\ k \in Nat /\ x \in Nat /\ y \in Nat
        /\ a + y = k + x /\ b + y = k
    BY <1>t, <1>4, <1>5, Zenon
  <2> HIDE DEF a, b, k, x, y
  <2>2. a = b + x /\ b <= k
    BY <2>1
  <2> QED BY <2>2, Zenon DEF a, b, k, x, y
<1> QED BY <1>6, Zenon DEF rs, cs

\* Emptying some of the slots leaves no more references.
LEMMA FewerSlots ==
  ASSUME NEW fs \in Seq(Slot), NEW f
  PROVE  /\ Slots(CloseMarked(fs), f) <= Slots(fs, f)
         /\ Slots(CloseAll(fs), f) <= Slots(fs, f)
<1>1. ASSUME NEW gs, gs = [i \in 1..Len(fs) |-> gs[i]],
             \A i \in 1..Len(fs) : gs[i] = None \/ gs[i] = fs[i]
      PROVE  Slots(gs, f) <= Slots(fs, f)
  <2>1. gs \in Seq(Slot)
    BY <1>1, FewerHeld
  <2>2. Len(fs) \in Nat /\ Len(gs) = Len(fs)
    BY <1>1
  <2>3. SlotSet(gs, f) \subseteq SlotSet(fs, f)
    BY <1>1, <2>2, Zenon DEF SlotSet
  <2>4. IsFiniteSet(SlotSet(fs, f)) /\ Slots(fs, f) = Cardinality(SlotSet(fs, f))
        /\ Slots(gs, f) = Cardinality(SlotSet(gs, f))
    BY <2>1, SlotsType, Zenon
  <2> QED BY <2>3, <2>4, FS_Subset, Zenon
<1>2. Slots(CloseMarked(fs), f) <= Slots(fs, f)
  <2> DEFINE gs == CloseMarked(fs)
  <2>1. gs = [i \in 1..Len(fs) |-> gs[i]] /\ \A i \in 1..Len(fs) : gs[i] = None \/ gs[i] = fs[i]
    BY Zenon DEF CloseMarked
  <2> HIDE DEF gs
  <2> QED BY <2>1, <1>1, Zenon DEF gs
<1>3. Slots(CloseAll(fs), f) <= Slots(fs, f)
  <2> DEFINE gs == CloseAll(fs)
  <2>1. gs = [i \in 1..Len(fs) |-> gs[i]] /\ \A i \in 1..Len(fs) : gs[i] = None \/ gs[i] = fs[i]
    BY Zenon DEF CloseAll
  <2> HIDE DEF gs
  <2> QED BY <2>1, <1>1, Zenon DEF gs
<1> QED BY <1>2, <1>3, Zenon
\* What the tables refer to, when one of them is replaced.
LEMMA RefsSwap ==
  ASSUME NEW tabs \in [Procs -> Seq(Slot)], \A r \in Procs : Len(tabs[r]) <= MaxSlots,
         NEW p \in Procs, NEW gs \in Seq(Slot), Len(gs) <= MaxSlots, NEW f
  PROVE  /\ IsFiniteSet(Refs(tabs, f)) /\ Cardinality(Refs(tabs, f)) \in Nat
         /\ Cardinality(Refs([tabs EXCEPT ![p] = gs], f)) \in Nat
         /\ Cardinality(Refs([tabs EXCEPT ![p] = gs], f)) + Slots(tabs[p], f)
              = Cardinality(Refs(tabs, f)) + Slots(gs, f)
<1> DEFINE Others == {x \in Refs(tabs, f) : x[1] # p}
           Mine(fs) == {p} \X SlotSet(fs, f)
           new == [tabs EXCEPT ![p] = gs]
<1>1. MaxSlots \in Nat
  BY ConstantsAssumption, Zenon DEF MaxSlots
<1>2. new \in [Procs -> Seq(Slot)] /\ new[p] = gs /\ \A r \in Procs \ {p} : new[r] = tabs[r]
  OBVIOUS
<1>3. \A r \in Procs : Len(new[r]) <= MaxSlots
  BY <1>2, Zenon
<1> HIDE DEF new
<1>4. IsFiniteSet(Procs \X (1..MaxSlots))
  <2>1. IsFiniteSet(1..MaxSlots)
    BY <1>1, FS_Interval
  <2> QED BY <2>1, ConstantsAssumption, FS_Product, Zenon
<1>5. ASSUME NEW ts \in [Procs -> Seq(Slot)], \A r \in Procs : Len(ts[r]) <= MaxSlots,
             \A r \in Procs \ {p} : ts[r] = tabs[r]
      PROVE  /\ IsFiniteSet(Refs(ts, f)) /\ Cardinality(Refs(ts, f)) \in Nat
             /\ Cardinality(Others) \in Nat
             /\ Cardinality(Refs(ts, f)) = Cardinality(Others) + Slots(ts[p], f)
  <2>1. IsFiniteSet(Refs(ts, f)) /\ Cardinality(Refs(ts, f)) \in Nat
    <3>1. Refs(ts, f) \subseteq Procs \X (1..MaxSlots)
      BY Zenon DEF Refs
    <3> QED BY <3>1, <1>4, FS_Subset, FS_CardinalityType, Zenon
  <2>2. ASSUME NEW x PROVE x \in Refs(ts, f) <=> x \in Others \cup Mine(ts[p])
    <3>1. CASE x \in Procs \X (1..MaxSlots)
      <4>1. PICK r \in Procs, i \in 1..MaxSlots : x = <<r, i>>
        BY <3>1
      <4>2. i \in Nat /\ i >= 1 /\ Len(ts[r]) \in Nat
        BY <1>1, <1>5
      <4>3. x \in Refs(ts, f) <=> i <= Len(ts[r]) /\ ts[r][i] # None /\ ts[r][i].file = f
        BY <4>1, Zenon DEF Refs
      <4>4. x \in Refs(tabs, f) <=> i <= Len(tabs[r]) /\ tabs[r][i] # None /\ tabs[r][i].file = f
        BY <4>1, Zenon DEF Refs
      <4>5. CASE r = p
        <5>1. x \notin Others
          BY <4>1, <4>5, Zenon
        <5>2. x \in Mine(ts[p]) <=> i \in SlotSet(ts[p], f)
          BY <4>1, <4>5, Zenon
        <5>3. i \in SlotSet(ts[p], f) <=> i <= Len(ts[p]) /\ ts[p][i] # None /\ ts[p][i].file = f
          BY <4>2, <4>5 DEF SlotSet
        <5> QED BY <4>3, <4>5, <5>1, <5>2, <5>3, Zenon
      <4>6. CASE r # p
        <5>1. x \notin Mine(ts[p])
          BY <4>1, <4>6, Zenon
        <5>2. x \in Others <=> x \in Refs(tabs, f)
          BY <4>1, <4>6, Zenon
        <5>3. ts[r] = tabs[r]
          BY <4>6, <1>5, Zenon
        <5> QED BY <4>3, <4>4, <5>1, <5>2, <5>3, Zenon
      <4> QED BY <4>5, <4>6, Zenon
    <3>2. CASE x \notin Procs \X (1..MaxSlots)
      <4>1. x \notin Refs(ts, f) /\ x \notin Others
        BY <3>2, Zenon DEF Refs
      <4>2. SlotSet(ts[p], f) \subseteq 1..MaxSlots
        <5>1. Len(ts[p]) \in Nat /\ Len(ts[p]) <= MaxSlots
          BY <1>5
        <5> QED BY <5>1, <1>1 DEF SlotSet
      <4>3. x \notin Mine(ts[p])
        BY <3>2, <4>2, Zenon
      <4> QED BY <4>1, <4>3, Zenon
    <3> QED BY <3>1, <3>2, Zenon
  <2>3. Refs(ts, f) = Others \cup Mine(ts[p])
    BY <2>2, Zenon
  <2>4. Others \cap Mine(ts[p]) = {}
    OBVIOUS
  <2>5. Others \subseteq Refs(ts, f) /\ Mine(ts[p]) \subseteq Refs(ts, f)
    BY <2>3, Zenon
  <2>6. IsFiniteSet(Others) /\ IsFiniteSet(Mine(ts[p]))
    BY <2>1, <2>5, FS_Subset, Zenon
  <2>7. IsFiniteSet(SlotSet(ts[p], f)) /\ Slots(ts[p], f) = Cardinality(SlotSet(ts[p], f))
        /\ Slots(ts[p], f) \in Nat
    BY <1>5, SlotsType, Zenon
  <2>8. Cardinality(Mine(ts[p])) = Slots(ts[p], f)
    <3>1. IsFiniteSet({p}) /\ Cardinality({p}) = 1
      BY FS_Singleton, Zenon
    <3>2. Cardinality(Mine(ts[p])) = Cardinality({p}) * Cardinality(SlotSet(ts[p], f))
      BY <3>1, <2>7, FS_Product, Zenon
    <3> QED BY <3>1, <3>2, <2>7
  <2>9. Cardinality(Others \cup Mine(ts[p])) =
          Cardinality(Others) + Cardinality(Mine(ts[p])) - Cardinality(Others \cap Mine(ts[p]))
    BY <2>6, FS_Union, Zenon
  <2>10. Cardinality({}) = 0 /\ Cardinality(Others) \in Nat
    BY <2>6, FS_EmptySet, FS_CardinalityType, Zenon
  <2>11. Cardinality(Refs(ts, f)) = Cardinality(Others) + Slots(ts[p], f) - 0
    BY <2>3, <2>4, <2>8, <2>9, <2>10, Zenon
  <2> HIDE DEF Others, Mine
  <2> QED BY <2>1, <2>7, <2>10, <2>11
<1>6. /\ IsFiniteSet(Refs(tabs, f)) /\ Cardinality(Refs(tabs, f)) \in Nat
      /\ Cardinality(Others) \in Nat
      /\ Cardinality(Refs(tabs, f)) = Cardinality(Others) + Slots(tabs[p], f)
  BY <1>5, Zenon
<1>7. /\ Cardinality(Refs(new, f)) \in Nat
      /\ Cardinality(Refs(new, f)) = Cardinality(Others) + Slots(gs, f)
  BY <1>2, <1>3, <1>5, Zenon
<1>8. tabs[p] \in Seq(Slot)
  OBVIOUS
<1>9. Slots(gs, f) \in Nat /\ Slots(tabs[p], f) \in Nat
  BY <1>8, SlotsType, Zenon
<1> HIDE DEF Others
<1>10. Cardinality(Refs(new, f)) + Slots(tabs[p], f) = Cardinality(Refs(tabs, f)) + Slots(gs, f)
  BY <1>6, <1>7, <1>9
<1> QED BY <1>6, <1>7, <1>10, Zenon DEF new

\* Counting down for the slots given up never goes below what is left.
LEMMA DecLower ==
  ASSUME NEW rc \in [File -> Nat], NEW before \in Seq(Slot), NEW after \in Seq(Slot),
         \A f \in File : Slots(after, f) <= Slots(before, f)
  PROVE  /\ dec_ref(rc, before, after) \in [File -> Nat]
         /\ \A f \in File : dec_ref(rc, before, after)[f] + Slots(before, f) >= rc[f] + Slots(after, f)
<1> SUFFICES ASSUME NEW f \in File
             PROVE  /\ DecBy(rc[f], Slots(before, f) - Slots(after, f)) \in Nat
                    /\ DecBy(rc[f], Slots(before, f) - Slots(after, f)) + Slots(before, f) >= rc[f] + Slots(after, f)
  BY Zenon DEF dec_ref
<1>1. Slots(before, f) \in Nat /\ Slots(after, f) \in Nat /\ rc[f] \in Nat
  BY SlotsType, Zenon
<1> QED BY <1>1 DEF DecBy

\* With it, every table is short enough and the count of every file is at
\* least the number of descriptors that refer to it.
RInv ==
  /\ IInv
  /\ state \in [Procs -> {"new", "live", "exited"}]
  /\ refcount \in [File -> Nat]
  /\ \A p \in Procs : Len(files[p]) <= MaxSlots
  /\ \A f \in File : refcount[f] >= Cardinality(Refs(files, f))

\* A file that no slot holds has no reference.
LEMMA UnheldRefs ==
  ASSUME files \in [Procs -> Seq(Slot)], NEW f, f \notin AllHeld(files), NEW p \in Procs
  PROVE  Cardinality(Refs(files, f)) = 0 /\ Slots(files[p], f) = 0
<1>1. \A r \in Procs : \A i \in 1..Len(files[r]) : ~(files[r][i] # None /\ files[r][i].file = f)
  BY DEF AllHeld, Held
<1>2. ASSUME NEW x \in Refs(files, f) PROVE FALSE
  <2>1. PICK r \in Procs, i \in 1..MaxSlots : x = <<r, i>>
    BY DEF Refs
  <2>2. i <= Len(files[r]) /\ files[r][i] # None /\ files[r][i].file = f
    BY <2>1, Zenon DEF Refs
  <2>3. i \in 1..Len(files[r])
    BY <2>2, ConstantsAssumption DEF MaxSlots
  <2> QED BY <1>1, <2>2, <2>3, Zenon
<1>3. Refs(files, f) = {}
  BY <1>2, Zenon
<1>4. SlotSet(files[p], f) = {}
  BY <1>1, Zenon DEF SlotSet
<1>5. Slots(files[p], f) = Cardinality(SlotSet(files[p], f))
  BY SlotsType, Zenon
<1> QED BY <1>3, <1>4, <1>5, FS_EmptySet, Zenon

\* One table is replaced, and the count covers the difference.
LEMMA CountStep ==
  ASSUME RInv, IInv', NEW p \in Procs, NEW gs \in Seq(Slot), Len(gs) <= MaxSlots,
         files' = [files EXCEPT ![p] = gs],
         state' \in [Procs -> {"new", "live", "exited"}], refcount' \in [File -> Nat],
         \A f \in File : refcount'[f] + Slots(files[p], f) >= Cardinality(Refs(files, f)) + Slots(gs, f)
  PROVE  RInv'
<1>1. files \in [Procs -> Seq(Slot)] /\ \A r \in Procs : Len(files[r]) <= MaxSlots
  BY Zenon DEF RInv, IInv, PType
<1>2. \A r \in Procs : Len(files'[r]) <= MaxSlots
  BY <1>1, Zenon
<1>3. ASSUME NEW f \in File PROVE refcount'[f] >= Cardinality(Refs(files', f))
  <2>1. /\ Cardinality(Refs(files, f)) \in Nat
        /\ Cardinality(Refs([files EXCEPT ![p] = gs], f)) \in Nat
        /\ Cardinality(Refs([files EXCEPT ![p] = gs], f)) + Slots(files[p], f)
             = Cardinality(Refs(files, f)) + Slots(gs, f)
    BY <1>1, RefsSwap, Zenon
  <2>2. Cardinality(Refs(files', f)) \in Nat
        /\ Cardinality(Refs(files', f)) + Slots(files[p], f) = Cardinality(Refs(files, f)) + Slots(gs, f)
    BY <2>1, Zenon
  <2>3. files[p] \in Seq(Slot)
    BY <1>1, Zenon
  <2>4. Slots(files[p], f) \in Nat /\ Slots(gs, f) \in Nat /\ refcount'[f] \in Nat
    BY <2>3, SlotsType, Zenon
  <2>5. refcount'[f] + Slots(files[p], f) >= Cardinality(Refs(files, f)) + Slots(gs, f)
    OBVIOUS
  <2> HIDE DEF Refs
  <2> QED BY <2>1, <2>2, <2>4, <2>5
<1>4. \A f \in File : refcount'[f] >= Cardinality(Refs(files, f))'
  BY <1>3, Zenon
<1> QED BY <1>2, <1>4, Zenon DEF RInv

\* The slots and the count of a file, as numbers.
LEMMA CountsType ==
  ASSUME RInv, NEW f \in File, NEW p \in Procs
  PROVE  /\ Slots(files[p], f) \in Nat /\ refcount[f] \in Nat
         /\ Cardinality(Refs(files, f)) \in Nat
         /\ refcount[f] >= Cardinality(Refs(files, f))
<1>1. files \in [Procs -> Seq(Slot)] /\ (\A r \in Procs : Len(files[r]) <= MaxSlots) /\ files[p] \in Seq(Slot)
  BY Zenon DEF RInv, IInv, PType
<1>2. Cardinality(Refs(files, f)) \in Nat
  BY <1>1, RefsSwap, Zenon
<1>3. Slots(files[p], f) \in Nat
  BY <1>1, SlotsType, Zenon
<1> QED BY <1>2, <1>3, Zenon DEF RInv

\* A table that Install puts in place is short enough.
LEMMA InstallShort ==
  ASSUME NEW p, NEW gs \in Seq(Slot), NEW nx, NEW had, Install(p, gs, nx, had)
  PROVE  Len(gs) <= MaxSlots /\ files' = [files EXCEPT ![p] = gs]
<1>1. Len(gs) <= MaxLen /\ Len(gs) \in Nat /\ files' = [files EXCEPT ![p] = gs]
  BY DEF Install
<1>2. MaxLen \in Nat /\ STD_SLOTS \in Nat
  BY ConstantsAssumption, Zenon
<1> QED BY <1>1, <1>2 DEF MaxSlots

\* A call that gives up slots and counts down for them.
LEMMA GiveUpStep ==
  ASSUME RInv, IInv', NEW p \in Procs, NEW gs \in Seq(Slot), NEW nx, NEW had,
         Install(p, gs, nx, had), \A f \in File : Slots(gs, f) <= Slots(files[p], f),
         state' \in [Procs -> {"new", "live", "exited"}],
         refcount' = dec_ref(refcount, files[p], gs)
  PROVE  RInv'
<1>1. files[p] \in Seq(Slot) /\ refcount \in [File -> Nat]
  BY Zenon DEF RInv, IInv, PType
<1>2. Len(gs) <= MaxSlots /\ files' = [files EXCEPT ![p] = gs]
  BY InstallShort, Zenon
<1>3. /\ refcount' \in [File -> Nat]
      /\ \A f \in File : refcount'[f] + Slots(files[p], f) >= refcount[f] + Slots(gs, f)
  BY <1>1, DecLower, Zenon
<1>4. ASSUME NEW f \in File
      PROVE  refcount'[f] + Slots(files[p], f) >= Cardinality(Refs(files, f)) + Slots(gs, f)
  <2>1. /\ Slots(files[p], f) \in Nat /\ refcount[f] \in Nat
        /\ Cardinality(Refs(files, f)) \in Nat /\ refcount[f] >= Cardinality(Refs(files, f))
    BY CountsType, Zenon
  <2>2. refcount'[f] + Slots(files[p], f) >= refcount[f] + Slots(gs, f) /\ refcount'[f] \in Nat
    BY <1>3, Zenon
  <2>3. Slots(gs, f) \in Nat
    BY SlotsType, Zenon
  <2> QED BY <2>1, <2>2, <2>3
<1> QED BY <1>2, <1>3, <1>4, CountStep, Zenon

\* A call that counts up for one entry that it adds.
LEMMA AddStep ==
  ASSUME RInv, IInv', NEW p \in Procs, NEW gs \in Seq(Slot), NEW nx, NEW had, NEW e \in Entry,
         Install(p, gs, nx, had),
         \A f \in File : Slots(gs, f) <= Slots(files[p], f) + Bit(e, f),
         state' = state, refcount' = inc_ref(refcount, e.file)
  PROVE  RInv'
<1>1. files[p] \in Seq(Slot) /\ refcount \in [File -> Nat] /\ e.file \in File
      /\ state' \in [Procs -> {"new", "live", "exited"}]
  BY Zenon DEF RInv, IInv, PType, Entry
<1>2. Len(gs) <= MaxSlots /\ files' = [files EXCEPT ![p] = gs]
  BY InstallShort, Zenon
<1>3. refcount' \in [File -> Nat] /\ \A f \in File : refcount'[f] = refcount[f] + Bit(e, f)
  <2> DEFINE g == e.file
  <2>1. g \in File /\ refcount' = [refcount EXCEPT ![g] = refcount[g] + 1]
    BY <1>1, Zenon DEF inc_ref
  <2>2. e # None
    BY ConstantsAssumption, Zenon
  <2>3. \A f \in File : Bit(e, f) = IF g = f THEN 1 ELSE 0
    BY <2>2, Zenon DEF Bit
  <2> HIDE DEF g
  <2> QED BY <1>1, <2>1, <2>3
<1>4. ASSUME NEW f \in File
      PROVE  refcount'[f] + Slots(files[p], f) >= Cardinality(Refs(files, f)) + Slots(gs, f)
  <2>1. /\ Slots(files[p], f) \in Nat /\ refcount[f] \in Nat
        /\ Cardinality(Refs(files, f)) \in Nat /\ refcount[f] >= Cardinality(Refs(files, f))
    BY CountsType, Zenon
  <2>2. refcount'[f] = refcount[f] + Bit(e, f) /\ Bit(e, f) \in Nat
    BY <1>3, Zenon DEF Bit
  <2>3. Slots(gs, f) \in Nat /\ Slots(gs, f) <= Slots(files[p], f) + Bit(e, f)
    BY SlotsType, Zenon
  <2> QED BY <2>1, <2>2, <2>3
<1> QED BY <1>1, <1>2, <1>3, <1>4, CountStep, Zenon

\* close, exec and exit.
LEMMA ClosingCounts ==
  ASSUME RInv, IInv', NEW p \in Procs, NEW fd \in Nat, Close(p, fd) \/ Exec(p) \/ Exit(p)
  PROVE  RInv'
<1>1. files[p] \in Seq(Slot) /\ state \in [Procs -> {"new", "live", "exited"}]
  BY Zenon DEF RInv, IInv, PType
<1>2. CASE Close(p, fd)
  <2> DEFINE gs == CloseSlot(files[p], fd)
  <2>1. Install(p, gs, next_fd[p], AllHeld(files)) /\ refcount' = dec_ref(refcount, files[p], gs)
        /\ state' = state /\ Has(p, fd)
    BY <1>2, Zenon DEF Close
  <2>2. gs \in Seq(Slot)
    BY <1>1, CloseHeld, Zenon
  <2>3. PICK e \in Entry : TRUE
    BY <1>1, <2>1 DEF Has, IsOpen, Slot
  <2>4. \A f \in File : Slots(gs, f) <= Slots(files[p], f)
    BY <1>1, <2>3, ReplaceSlots, Zenon
  <2> HIDE DEF gs
  <2> QED BY <1>1, <2>1, <2>2, <2>4, GiveUpStep, Zenon
<1>3. CASE Exec(p)
  <2> DEFINE gs == CloseMarked(files[p])
  <2>1. Install(p, gs, next_fd[p], AllHeld(files)) /\ refcount' = dec_ref(refcount, files[p], gs)
        /\ state' = state
    BY <1>3, Zenon DEF Exec
  <2>2. gs \in Seq(Slot) /\ \A f \in File : Slots(gs, f) <= Slots(files[p], f)
    BY <1>1, CloseHeld, FewerSlots, Zenon
  <2> HIDE DEF gs
  <2> QED BY <1>1, <2>1, <2>2, GiveUpStep, Zenon
<1>4. CASE Exit(p)
  <2> DEFINE gs == CloseAll(files[p])
  <2>1. Install(p, gs, next_fd[p], AllHeld(files)) /\ refcount' = dec_ref(refcount, files[p], gs)
        /\ state' = [state EXCEPT ![p] = "exited"]
    BY <1>4, Zenon DEF Exit
  <2>2. gs \in Seq(Slot) /\ \A f \in File : Slots(gs, f) <= Slots(files[p], f)
    BY <1>1, CloseHeld, FewerSlots, Zenon
  <2>3. state' \in [Procs -> {"new", "live", "exited"}]
    BY <1>1, <2>1, Zenon
  <2> HIDE DEF gs
  <2> QED BY <2>1, <2>2, <2>3, GiveUpStep, Zenon
<1> QED BY <1>2, <1>3, <1>4, Zenon

\* dup and F_DUPFD.
LEMMA AddingCounts ==
  ASSUME RInv, IInv', NEW p \in Procs, NEW fd \in Nat, NEW m \in Nat, NEW c \in BOOLEAN,
         Dup(p, fd) \/ DupAtLeast(p, fd, m, c)
  PROVE  RInv'
<1>1. PType /\ files[p] \in Seq(Slot) /\ next_fd[p] \in Nat
  BY Zenon DEF RInv, IInv, PType
<1>2. CASE Dup(p, fd)
  <2> DEFINE e == [file |-> Fd(p, fd).file, cloexec |-> FALSE]
             a == open_with_flags(Table(p), e)
  <2>1. /\ Install(p, a.files, a.next_fd, AllHeld(files)) /\ state' = state /\ Has(p, fd)
        /\ refcount' = inc_ref(refcount, Fd(p, fd).file)
    BY <1>2, Zenon DEF Dup
  <2>2. e \in Entry /\ e.file = Fd(p, fd).file
    BY <1>1, <2>1, FdHeld, ZenonT(30) DEF Entry
  <2> HIDE DEF e
  <2>3. a.files \in Seq(Slot)
    BY <1>1, <2>2, OpenHeld, Zenon DEF Table
  <2>4. \A f \in File : Slots(a.files, f) <= Slots(files[p], f) + Bit(e, f)
    BY <1>1, <2>2, OpenSlots, Zenon DEF Table
  <2> HIDE DEF a
  <2> QED BY <2>1, <2>2, <2>3, <2>4, AddStep, Zenon
<1>3. CASE DupAtLeast(p, fd, m, c)
  <2> DEFINE e == [file |-> Fd(p, fd).file, cloexec |-> c]
             a == dup_at_least(Table(p), e, m)
  <2>1. /\ Install(p, a.files, a.next_fd, AllHeld(files)) /\ state' = state /\ Has(p, fd)
        /\ refcount' = inc_ref(refcount, Fd(p, fd).file)
    BY <1>3, Zenon DEF DupAtLeast
  <2>2. e \in Entry /\ e.file = Fd(p, fd).file
    BY <1>1, <2>1, FdHeld, ZenonT(30) DEF Entry
  <2> HIDE DEF e
  <2>3. a.files \in Seq(Slot)
    BY <1>1, <2>2, DupAtLeastHeld, Zenon DEF Table
  <2>4. \A f \in File : Slots(a.files, f) <= Slots(files[p], f) + Bit(e, f)
    BY <1>1, <2>2, DupAtLeastSlots, Zenon DEF Table
  <2> HIDE DEF a
  <2> QED BY <2>1, <2>2, <2>3, <2>4, AddStep, Zenon
<1> QED BY <1>2, <1>3, Zenon

\* dup2 and dup3: up for the new reference, down for the one it replaces.
LEMMA ReplacingCounts ==
  ASSUME RInv, IInv', NEW p \in Procs, NEW fd \in Nat, NEW m \in Nat, NEW c \in BOOLEAN,
         DupTo(p, fd, m, c)
  PROVE  RInv'
<1> DEFINE e == [file |-> Fd(p, fd).file, cloexec |-> c]
           gs == Replace(files[p], e, m)
           cs == CloseSlot(files[p], m)
           rc == inc_ref(refcount, Fd(p, fd).file)
<1>1. PType /\ files[p] \in Seq(Slot) /\ refcount \in [File -> Nat]
      /\ state \in [Procs -> {"new", "live", "exited"}]
  BY Zenon DEF RInv, IInv, PType
<1>2. /\ Install(p, gs, next_fd[p], AllHeld(files)) /\ state' = state /\ Has(p, fd)
      /\ refcount' = dec_ref(rc, files[p], cs)
  BY Zenon DEF DupTo
<1>3. e \in Entry /\ e.file = Fd(p, fd).file /\ e.file \in File
  BY <1>1, <1>2, FdHeld, ZenonT(30) DEF Entry
<1> HIDE DEF e
<1>4. gs \in Seq(Slot) /\ cs \in Seq(Slot)
  BY <1>1, <1>3, ReplaceHeld, CloseHeld, Zenon
<1>5. \A f \in File : Slots(gs, f) = Slots(cs, f) + Bit(e, f) /\ Slots(cs, f) <= Slots(files[p], f)
  BY <1>1, <1>3, ReplaceSlots, Zenon
<1>6. Len(gs) <= MaxSlots /\ files' = [files EXCEPT ![p] = gs]
  BY <1>2, <1>4, InstallShort, Zenon
<1>7. rc \in [File -> Nat] /\ \A f \in File : rc[f] = refcount[f] + Bit(e, f)
  <2>1. rc = [refcount EXCEPT ![e.file] = @ + 1]
    BY <1>3, Zenon DEF inc_ref
  <2>2. e # None
    BY <1>3, ConstantsAssumption, Zenon
  <2>3. \A f \in File : Bit(e, f) = IF f = e.file THEN 1 ELSE 0
    BY <2>2, Zenon DEF Bit
  <2> HIDE DEF rc
  <2>4. rc \in [File -> Nat] /\ \A f \in File : rc[f] = IF f = e.file THEN refcount[f] + 1 ELSE refcount[f]
    BY <1>1, <1>3, <2>1
  <2> QED BY <1>1, <2>3, <2>4
<1> HIDE DEF gs, cs, rc
<1>8. /\ refcount' \in [File -> Nat]
      /\ \A f \in File : refcount'[f] + Slots(files[p], f) >= rc[f] + Slots(cs, f)
  BY <1>1, <1>2, <1>4, <1>5, <1>7, DecLower, Zenon
<1>9. ASSUME NEW f \in File
      PROVE  refcount'[f] + Slots(files[p], f) >= Cardinality(Refs(files, f)) + Slots(gs, f)
  <2>1. /\ Slots(files[p], f) \in Nat /\ refcount[f] \in Nat
        /\ Cardinality(Refs(files, f)) \in Nat /\ refcount[f] >= Cardinality(Refs(files, f))
    BY CountsType, Zenon
  <2>2. rc[f] = refcount[f] + Bit(e, f) /\ Bit(e, f) \in Nat
    BY <1>7, Zenon DEF Bit
  <2>3. Slots(cs, f) \in Nat /\ Slots(gs, f) = Slots(cs, f) + Bit(e, f)
    BY <1>4, <1>5, SlotsType, Zenon
  <2>4. refcount'[f] + Slots(files[p], f) >= rc[f] + Slots(cs, f) /\ refcount'[f] \in Nat
    BY <1>8, Zenon
  <2> QED BY <2>1, <2>2, <2>3, <2>4
<1>10. state' \in [Procs -> {"new", "live", "exited"}]
  BY <1>1, <1>2, Zenon
<1> QED BY <1>4, <1>6, <1>8, <1>9, <1>10, CountStep, Zenon

\* F_SETFD keeps the reference; fork counts the child's.
LEMMA CopyingCounts ==
  ASSUME RInv, IInv', NEW p \in Procs, NEW r \in Procs, NEW fd \in Nat, NEW c \in BOOLEAN,
         SetCloexec(p, fd, c) \/ Fork(p, r) \/ ForkFails(p)
  PROVE  RInv'
<1>1. PType /\ files \in [Procs -> Seq(Slot)] /\ files[p] \in Seq(Slot) /\ refcount \in [File -> Nat]
      /\ state \in [Procs -> {"new", "live", "exited"}] /\ \A x \in Procs : Len(files[x]) <= MaxSlots
  BY Zenon DEF RInv, IInv, PType
<1>t. ASSUME NEW f \in File
      PROVE  /\ \A x \in Procs : Slots(files[x], f) \in Nat
             /\ refcount[f] \in Nat /\ Cardinality(Refs(files, f)) \in Nat
             /\ refcount[f] >= Cardinality(Refs(files, f))
  BY CountsType, Zenon
<1>f. /\ ForkRefs(p) \in [File -> Nat]
      /\ \A f \in File : ForkRefs(p)[f] = refcount[f] + Slots(files[p], f)
  BY <1>1, <1>t DEF ForkRefs
<1>2. CASE SetCloexec(p, fd, c)
  <2> DEFINE e == [file |-> Fd(p, fd).file, cloexec |-> c]
             gs == [files[p] EXCEPT ![fd + 1] = e]
  <2>1. /\ files' = [files EXCEPT ![p] = [files[p] EXCEPT ![fd + 1] = [Fd(p, fd) EXCEPT !.cloexec = c]]]
        /\ Has(p, fd) /\ UNCHANGED <<state, refcount>>
    BY <1>2, Zenon DEF SetCloexec, Fd
  <2>2. Fd(p, fd) \in Entry /\ Fd(p, fd).file \in File
    BY <1>1, <2>1, FdHeld, Zenon
  <2>3. [Fd(p, fd) EXCEPT !.cloexec = c] = e /\ e \in Entry /\ e.file = Fd(p, fd).file
    BY <2>2 DEF Entry
  <2>4. e \in Slot /\ e # None /\ fd + 1 \in 1..Len(files[p]) /\ files[p][fd + 1] = Fd(p, fd)
        /\ Fd(p, fd) # None
    BY <2>1, <2>3, ConstantsAssumption, Zenon DEF Slot, Has, IsOpen, Fd
  <2> HIDE DEF e
  <2>5. gs \in Seq(Slot) /\ Len(gs) = Len(files[p])
    BY <1>1, <2>4
  <2>6. files' = [files EXCEPT ![p] = gs]
    BY <2>1, <2>3, ZenonT(30)
  <2>7. ASSUME NEW f \in File PROVE Slots(gs, f) = Slots(files[p], f)
    <3>1. Slots(gs, f) + Bit(files[p][fd + 1], f) = Slots(files[p], f) + Bit(e, f)
      BY <1>1, <2>4, PutSlots, Zenon
    <3>2. Bit(files[p][fd + 1], f) = Bit(e, f) /\ Bit(e, f) \in Nat
      BY <2>3, <2>4, Zenon DEF Bit
    <3>3. Slots(gs, f) \in Nat /\ Slots(files[p], f) \in Nat
      BY <1>1, <2>5, SlotsType, Zenon
    <3> HIDE DEF gs
    <3> QED BY <3>1, <3>2, <3>3
  <2> HIDE DEF gs
  <2>8. ASSUME NEW f \in File
        PROVE  refcount'[f] + Slots(files[p], f) >= Cardinality(Refs(files, f)) + Slots(gs, f)
    BY <2>1, <2>7, <1>t
  <2>9. Len(gs) <= MaxSlots
    BY <1>1, <2>5, Zenon
  <2> QED BY <1>1, <2>1, <2>5, <2>6, <2>8, <2>9, CountStep, Zenon
<1>3. CASE Fork(p, r)
  <2>1. files' = [files EXCEPT ![r] = files[p]] /\ refcount' = ForkRefs(p)
        /\ state' = [state EXCEPT ![r] = "live"]
    BY <1>3, Zenon DEF Fork
  <2>2. ASSUME NEW f \in File
        PROVE  refcount'[f] + Slots(files[r], f) >= Cardinality(Refs(files, f)) + Slots(files[p], f)
    BY <2>1, <1>t, <1>f
  <2>3. state' \in [Procs -> {"new", "live", "exited"}] /\ refcount' \in [File -> Nat]
    BY <1>1, <1>f, <2>1, Zenon
  <2> QED BY <1>1, <2>1, <2>2, <2>3, CountStep, Zenon
<1>4. CASE ForkFails(p)
  <2>1. UNCHANGED <<files, state>> /\ refcount' = ForkRefs(p)
    BY <1>4, Zenon DEF ForkFails
  <2>2. ASSUME NEW f \in File PROVE refcount'[f] >= Cardinality(Refs(files, f))'
    <3>1. refcount'[f] >= Cardinality(Refs(files, f))
      BY <2>1, <1>t, <1>f
    <3> QED BY <3>1, <2>1, Zenon DEF Refs
  <2> QED BY <1>1, <1>f, <2>1, <2>2, Zenon DEF RInv
<1> QED BY <1>2, <1>3, <1>4, Zenon

\* pipe2: the ends of a new pipe had no reference, and start with one each.
LEMMA Pipe2Counts ==
  ASSUME RInv, IInv', NEW p \in Procs, NEW q \in Pipes, NEW c \in BOOLEAN, Pipe2(p, q, c)
  PROVE  RInv'
<1> DEFINE rf == <<q, "r">>
           wf == <<q, "w">>
           re == [file |-> rf, cloexec |-> c]
           we == [file |-> wf, cloexec |-> c]
           had == AllHeld(files) \cup {rf, wf}
           r == open_with_flags(Table(p), re)
           w == open_with_flags([files |-> r.files, next_fd |-> r.next_fd], we)
           cs == CloseSlot(r.files, r.fd)
           rc == [refcount EXCEPT ![rf] = 1, ![wf] = 1]
<1>1. files \in [Procs -> Seq(Slot)] /\ files[p] \in Seq(Slot) /\ next_fd[p] \in Nat
      /\ refcount \in [File -> Nat] /\ state \in [Procs -> {"new", "live", "exited"}]
  BY Zenon DEF RInv, IInv, PType
<1>2. re \in Entry /\ we \in Entry /\ re.file = rf /\ we.file = wf
  BY Zenon DEF Entry, File, Sides
<1>3. /\ r.files \in Seq(Slot) /\ r.next_fd \in Nat /\ r.fd \in Nat
      /\ \A f \in File : Slots(r.files, f) <= Slots(files[p], f) + Bit(re, f)
  <2> HIDE DEF re
  <2>1. r.files \in Seq(Slot) /\ r.next_fd \in Nat /\ r.fd \in Nat
    BY <1>1, <1>2, OpenHeld, ZenonT(30) DEF Table
  <2>2. \A f \in File : Slots(r.files, f) <= Slots(files[p], f) + Bit(re, f)
    BY <1>1, <1>2, OpenSlots, ZenonT(30) DEF Table
  <2> QED BY <2>1, <2>2, Zenon
<1>a. /\ q \notin made /\ state' = state
      /\ \/ /\ Install(p, r.files, r.next_fd, had) /\ refcount' = rc
         \/ /\ Install(p, w.files, w.next_fd, had) /\ refcount' = rc
         \/ /\ Install(p, cs, w.next_fd, had) /\ refcount' = dec_ref(rc, r.files, cs)
  BY ZenonT(30) DEF Pipe2
<1> HIDE DEF r, re
<1>4. w.files \in Seq(Slot) /\ \A f \in File : Slots(w.files, f) <= Slots(r.files, f) + Bit(we, f)
  <2> HIDE DEF we
  <2>1. w.files \in Seq(Slot)
    BY <1>2, <1>3, OpenHeld, ZenonT(30)
  <2>2. \A f \in File : Slots(w.files, f) <= Slots(r.files, f) + Bit(we, f)
    BY <1>2, <1>3, OpenSlots, ZenonT(30)
  <2> QED BY <2>1, <2>2, Zenon
<1>5. cs \in Seq(Slot) /\ \A f \in File : Slots(cs, f) <= Slots(r.files, f)
  BY <1>2, <1>3, CloseHeld, ReplaceSlots, ZenonT(30)
<1> HIDE DEF w, we, cs
<1>6. rf \in File /\ wf \in File /\ rf # wf
  BY Zenon DEF File, Sides
<1>7. rf \notin AllHeld(files) /\ wf \notin AllHeld(files)
  BY <1>a, Zenon DEF RInv, IInv, Ends
<1> HIDE DEF rf, wf
<1>8. rc \in [File -> Nat]
      /\ \A f \in File : rc[f] = IF f = rf \/ f = wf THEN 1 ELSE refcount[f]
  BY <1>1, <1>6, Zenon
<1> HIDE DEF rc
<1>9. ASSUME NEW f \in File
      PROVE  /\ Slots(files[p], f) \in Nat /\ Cardinality(Refs(files, f)) \in Nat
             /\ rc[f] \in Nat /\ Slots(r.files, f) \in Nat /\ Slots(cs, f) \in Nat
             /\ Slots(w.files, f) \in Nat
             /\ rc[f] + Slots(files[p], f) >= Cardinality(Refs(files, f)) + Slots(r.files, f)
             /\ rc[f] + Slots(files[p], f) >= Cardinality(Refs(files, f)) + Slots(w.files, f)
  <2>1. /\ Slots(files[p], f) \in Nat /\ refcount[f] \in Nat
        /\ Cardinality(Refs(files, f)) \in Nat /\ refcount[f] >= Cardinality(Refs(files, f))
    BY CountsType, Zenon
  <2>2. /\ Slots(r.files, f) \in Nat /\ Slots(cs, f) \in Nat /\ Slots(w.files, f) \in Nat
        /\ Slots(r.files, f) <= Slots(files[p], f) + Bit(re, f)
        /\ Slots(w.files, f) <= Slots(r.files, f) + Bit(we, f)
    BY <1>3, <1>4, <1>5, SlotsType, Zenon
  <2>3. re # None /\ we # None
    BY <1>2, ConstantsAssumption, Zenon
  <2>4. Bit(re, f) = (IF f = rf THEN 1 ELSE 0) /\ Bit(we, f) = (IF f = wf THEN 1 ELSE 0)
    BY <1>2, <2>3, Zenon DEF Bit
  <2>5. f = rf \/ f = wf => Cardinality(Refs(files, f)) = 0 /\ Slots(files[p], f) = 0
    BY <1>1, <1>7, UnheldRefs, Zenon
  <2>6. rc[f] = IF f = rf \/ f = wf THEN 1 ELSE refcount[f]
    BY <1>8, Zenon
  <2> DEFINE sp == Slots(files[p], f)
             sr == Slots(r.files, f)
             sw == Slots(w.files, f)
             k == Cardinality(Refs(files, f))
             n == rc[f]
             m == refcount[f]
             x == Bit(re, f)
             y == Bit(we, f)
  <2>7. /\ sp \in Nat /\ m \in Nat /\ k \in Nat /\ m >= k /\ sr \in Nat /\ sw \in Nat
        /\ sr <= sp + x /\ sw <= sr + y
    BY <2>1, <2>2, Zenon
  <2>8. \/ f = rf /\ x = 1 /\ y = 0 /\ k = 0 /\ sp = 0 /\ n = 1
        \/ f = wf /\ x = 0 /\ y = 1 /\ k = 0 /\ sp = 0 /\ n = 1
        \/ x = 0 /\ y = 0 /\ n = m
    BY <1>6, <2>4, <2>5, <2>6, Zenon
  <2> HIDE DEF sp, sr, sw, k, n, m, x, y
  <2>9. n \in Nat /\ n + sp >= k + sr /\ n + sp >= k + sw
    BY <2>7, <2>8
  <2> QED BY <2>1, <2>2, <2>9, Zenon DEF sp, sr, sw, k, n
<1>10. state' \in [Procs -> {"new", "live", "exited"}]
  BY <1>1, <1>a, Zenon
<1>11. CASE Install(p, r.files, r.next_fd, had) /\ refcount' = rc
  <2>1. Len(r.files) <= MaxSlots /\ files' = [files EXCEPT ![p] = r.files]
    BY <1>3, <1>11, InstallShort, Zenon
  <2> QED BY <1>3, <1>8, <1>9, <1>10, <1>11, <2>1, CountStep, ZenonT(30)
<1>12. CASE Install(p, w.files, w.next_fd, had) /\ refcount' = rc
  <2>1. Len(w.files) <= MaxSlots /\ files' = [files EXCEPT ![p] = w.files]
    BY <1>4, <1>12, InstallShort, Zenon
  <2> QED BY <1>4, <1>8, <1>9, <1>10, <1>12, <2>1, CountStep, ZenonT(30)
<1>13. CASE Install(p, cs, w.next_fd, had) /\ refcount' = dec_ref(rc, r.files, cs)
  <2>1. Len(cs) <= MaxSlots /\ files' = [files EXCEPT ![p] = cs]
    BY <1>5, <1>13, InstallShort, Zenon
  <2>2. /\ refcount' \in [File -> Nat]
        /\ \A f \in File : refcount'[f] + Slots(r.files, f) >= rc[f] + Slots(cs, f)
    BY <1>3, <1>5, <1>8, <1>13, DecLower, Zenon
  <2>3. ASSUME NEW f \in File
        PROVE  refcount'[f] + Slots(files[p], f) >= Cardinality(Refs(files, f)) + Slots(cs, f)
    <3>1. refcount'[f] \in Nat /\ refcount'[f] + Slots(r.files, f) >= rc[f] + Slots(cs, f)
      BY <2>2, Zenon
    <3> DEFINE a == refcount'[f]
               sp == Slots(files[p], f)
               sr == Slots(r.files, f)
               sc == Slots(cs, f)
               k == Cardinality(Refs(files, f))
               n == rc[f]
    <3>2. /\ a \in Nat /\ sp \in Nat /\ sr \in Nat /\ sc \in Nat /\ k \in Nat /\ n \in Nat
          /\ a + sr >= n + sc /\ n + sp >= k + sr
      BY <3>1, <1>9, Zenon
    <3> HIDE DEF a, sp, sr, sc, k, n
    <3>3. a + sp >= k + sc
      BY <3>2
    <3> QED BY <3>3, Zenon DEF a, sp, sc, k
  <2> QED BY <1>5, <1>10, <2>1, <2>2, <2>3, CountStep, Zenon
<1> QED BY <1>a, <1>11, <1>12, <1>13, Zenon

\* The empty tables refer to nothing.
LEMMA InitRInv == Init => RInv
<1> SUFFICES ASSUME Init PROVE RInv
  OBVIOUS
<1>1. IInv
  BY InitIInv, Zenon
<1>2. NewTable.files = [i \in 1..STD_SLOTS |-> None] /\ STD_SLOTS \in Nat /\ MaxLen \in Nat
  BY ConstantsAssumption, Zenon DEF NewTable
<1>3. \A p \in Procs : files[p] = NewTable.files
  BY Zenon DEF Init
<1>4. Len(NewTable.files) <= MaxSlots
  BY <1>2 DEF MaxSlots
<1>5. \A p \in Procs : Len(files[p]) <= MaxSlots
  BY <1>3, <1>4, Zenon
<1>6. AllHeld(files) = {}
  <2>1. Held(NewTable.files) = {}
    BY <1>2 DEF Held
  <2> QED BY <1>3, <2>1, Zenon DEF AllHeld
<1>7. files \in [Procs -> Seq(Slot)] /\ InitProc \in Procs
  BY <1>1, ConstantsAssumption, Zenon DEF IInv, PType
<1>8. \A f \in File : Cardinality(Refs(files, f)) = 0
  BY <1>6, <1>7, UnheldRefs, Zenon
<1>9. refcount = [f \in File |-> 0] /\ state \in [Procs -> {"new", "live", "exited"}]
  BY Zenon DEF Init
<1> QED BY <1>1, <1>5, <1>8, <1>9 DEF RInv

\* Every call keeps the counts.
LEMMA NextRInv == RInv /\ [Next]_vars => RInv'
<1> SUFFICES ASSUME RInv, [Next]_vars PROVE RInv'
  OBVIOUS
<1>i. IInv'
  BY NextIInv, Zenon DEF RInv
<1>f. FdArgs \subseteq Nat /\ NewFdArgs \subseteq Nat /\ 0 \in Nat /\ TRUE \in BOOLEAN
  BY ConstantsAssumption, Zenon
<1>1. ASSUME NEW p \in Procs, NEW q \in Pipes, NEW c \in BOOLEAN, Pipe2(p, q, c) PROVE RInv'
  BY <1>1, <1>i, Pipe2Counts, Zenon
<1>2. ASSUME NEW p \in Procs, NEW fd \in FdArgs, Close(p, fd) PROVE RInv'
  BY <1>2, <1>f, <1>i, ClosingCounts, Zenon
<1>3. ASSUME NEW p \in Procs, NEW fd \in FdArgs, Dup(p, fd) PROVE RInv'
  BY <1>3, <1>f, <1>i, AddingCounts, Zenon
<1>4. ASSUME NEW p \in Procs, NEW fd \in FdArgs, NEW m \in NewFdArgs, NEW c \in BOOLEAN,
             DupAtLeast(p, fd, m, c)
      PROVE  RInv'
  BY <1>4, <1>f, <1>i, AddingCounts, Zenon
<1>5. ASSUME NEW p \in Procs, NEW fd \in FdArgs, NEW m \in NewFdArgs, NEW c \in BOOLEAN,
             DupTo(p, fd, m, c)
      PROVE  RInv'
  BY <1>5, <1>f, <1>i, ReplacingCounts, Zenon
<1>6. ASSUME NEW p \in Procs, Exec(p) \/ Exit(p) PROVE RInv'
  BY <1>6, <1>f, <1>i, ClosingCounts, Zenon
<1>7. ASSUME NEW p \in Procs, NEW fd \in FdArgs, NEW c \in BOOLEAN, SetCloexec(p, fd, c) PROVE RInv'
  BY <1>7, <1>f, <1>i, CopyingCounts, Zenon
<1>8. ASSUME NEW p \in Procs, NEW c \in Procs, Fork(p, c) \/ ForkFails(p) PROVE RInv'
  BY <1>8, <1>f, <1>i, CopyingCounts, Zenon
<1>9. ASSUME UNCHANGED <<state, files, refcount>> PROVE RInv'
  BY <1>9, <1>i, Zenon DEF RInv, Refs
<1>10. ASSUME NEW q \in Pipes, ReadSome(q) PROVE RInv'
  BY <1>9, <1>10, Zenon DEF ReadSome, Read
<1>11. ASSUME NEW p \in Procs, NEW fd \in FdArgs, NEW q \in Pipes, NEW n \in 1..MaxCount, Write(p, fd, q, n)
       PROVE  RInv'
  BY <1>9, <1>11, Zenon DEF Write
<1>12. CASE UNCHANGED vars
  BY <1>9, <1>12, Zenon DEF vars
<1> QED BY <1>1, <1>2, <1>3, <1>4, <1>5, <1>6, <1>7, <1>8, <1>10, <1>11, <1>12, ZenonT(30) DEF Next

\* The variables keep their types: in particular the count of dec_ref never
\* goes below zero, and try_read, write and the table methods leave
\* sequences of the right kind.
THEOREM PipeFilesTyped == Spec => []TypeOK
<1>1. RInv => TypeOK
  BY Zenon DEF RInv, IInv, PType, TypeOK, Slot
<1> QED BY <1>1, InitRInv, NextRInv, PTL DEF Spec

\* The hand-kept refcount is never below the number of descriptors, for any
\* processes, tables and limits and whatever sequence of pipe2, dup, dup2,
\* dup3, F_DUPFD, close, exec, fork and exit is made.
THEOREM RefcountNeverLow == Spec => []RefcountCovers
<1>1. ASSUME RInv PROVE RefcountCovers
  <2> SUFFICES ASSUME NEW f \in File
               PROVE  refcount[f] >= Cardinality({x \in Procs \X (1..MaxLen) :
                                        /\ x[2] <= Len(files[x[1]])
                                        /\ files[x[1]][x[2]] # None
                                        /\ files[x[1]][x[2]].file = f})
    BY Zenon DEF RefcountCovers
  <2> DEFINE T == {x \in Procs \X (1..MaxLen) : /\ x[2] <= Len(files[x[1]])
                                                /\ files[x[1]][x[2]] # None
                                                /\ files[x[1]][x[2]].file = f}
  <2>1. /\ refcount[f] \in Nat /\ Cardinality(Refs(files, f)) \in Nat
        /\ refcount[f] >= Cardinality(Refs(files, f))
    BY <1>1, ConstantsAssumption, CountsType, Zenon
  <2>2. MaxLen \in Nat /\ MaxSlots \in Nat /\ MaxLen <= MaxSlots
    BY ConstantsAssumption DEF MaxSlots
  <2>3. T \subseteq Refs(files, f)
    BY <2>2 DEF Refs
  <2>4. IsFiniteSet(Refs(files, f))
    <3>1. files \in [Procs -> Seq(Slot)] /\ (\A r \in Procs : Len(files[r]) <= MaxSlots)
          /\ InitProc \in Procs /\ files[InitProc] \in Seq(Slot)
      BY <1>1, ConstantsAssumption, Zenon DEF RInv, IInv, PType
    <3> QED BY <3>1, RefsSwap, Zenon
  <2> HIDE DEF T
  <2>5. Cardinality(T) \in Nat /\ Cardinality(T) <= Cardinality(Refs(files, f))
    BY <2>3, <2>4, FS_Subset, FS_CardinalityType, Zenon
  <2>6. refcount[f] >= Cardinality(T)
    BY <2>1, <2>5
  <2> QED BY <2>6, Zenon DEF T
<1> QED BY <1>1, InitRInv, NextRInv, PTL DEF Spec
=============================================================================
