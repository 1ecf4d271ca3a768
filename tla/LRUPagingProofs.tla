--------------------------- MODULE LRUPagingProofs ---------------------------
(***************************************************************************)
(* Proofs about LRUPaging: for every program, every pair of list sizes and *)
(* every size of the page file, the working set stays consistent and       *)
(* paging implements VirtualMemory.                                        *)
(*                                                                         *)
(* As in SchedulerProofs, the argument is split along the interface of the *)
(* code: Room is what page_fault_handler and Replace establish before they *)
(* call Placement, and one lemma says what Placement makes of it.          *)
(***************************************************************************)
EXTENDS LRUPaging, ListProofs

\* The pages of the segments, which env_create writes to the page file.
Image == ToSet(Code)

\* Page q, if it is evicted, is read back later; or it is the stack page that
\* the page file had no room for, which is MODIFIED since env_create cleared it.
Backed(q) == q \in pf \/ (q = StackTop /\ q \in modified)

\* Two well-formed lists of pages that share none.
ListPair(act, sec) ==
  /\ IsList(act, Pages) /\ IsList(sec, Pages)
  /\ ToSet(act) \cap ToSet(sec) = {}

\* The lists and ws available elements fit the working set.
Sized(act, sec, ws) ==
  /\ Len(act) <= ActiveListSize
  /\ Len(sec) <= SecondListSize
  /\ Len(act) + Len(sec) + ws <= page_WS_max_size

\* The lists, the page table and the page file of a running environment.
Resident ==
  /\ present = ToSet(ActiveList)
  /\ mapped = ToSet(ActiveList) \cup ToSet(SecondList)
  /\ SecondList # <<>> => Len(ActiveList) = ActiveListSize
  /\ \A p \in mapped : PDX(p) \in tables
  /\ \A p \in mapped : Backed(p)
  /\ Image \subseteq pf
  /\ \A p \in mapped \ modified : frame[p] = disk[p]

\* Where the environment is: a stopped one has neither an instruction nor a
\* kernel loop left, a freed one has no list either, and a loop stays within the
\* range it was called with.
Control ==
  /\ mode # "run" => insn = NONE /\ kcall = NONE
  /\ mode = "freed" => ActiveList = <<>> /\ SecondList = <<>>
  /\ kcall # NONE => /\ insn = NONE
                     /\ kcall.i <= kcall.n
                     /\ kcall.va .. (kcall.va + kcall.n - 1) \subseteq Heap

\* Pages with a frame that no list holds: the one that Placement mapped last.
Unplaced == mapped \ (ToSet(ActiveList) \cup ToSet(SecondList))

IInv ==
  /\ TypeOK
  /\ ListPair(ActiveList, SecondList)
  /\ Sized(ActiveList, SecondList, PageWorkingSetList)
  /\ mode = "run" => Resident
  /\ Control
  /\ \A x, y \in Unplaced : x = y
  /\ Unplaced \cap Image = {}

-----------------------------------------------------------------------------
(* Facts that the steps use *)

\* The list sizes that env_create was called with.
LEMMA SizeFacts ==
  ASSUME sizes \in ListSizes
  PROVE  ActiveListSize \in Nat \ {0} /\ SecondListSize \in Nat
BY SizesAssumption DEF sizes

\* The types of the constants.
LEMMA PageFacts ==
  /\ Pages \subseteq Nat /\ IsFiniteSet(Pages)
  /\ Heap \subseteq Pages /\ Stack \subseteq Pages
  /\ Image \subseteq Pages /\ Heap \cap Image = {} /\ StackTop \notin Heap
  /\ ToSet(Code) \subseteq Pages /\ StackTop \in Pages
<1>1. ToSet(Code) \subseteq Pages
  BY PagesAssumption DEF ToSet
<1> QED BY <1>1, PagesAssumption DEF Image

\* The lists as every step finds them.
LEMMA PairFacts ==
  ASSUME NEW act, NEW sec, ListPair(act, sec)
  PROVE  /\ IsList(act, Pages) /\ IsList(sec, Pages)
         /\ act \in Seq(Pages) /\ sec \in Seq(Pages)
         /\ Len(act) \in Nat /\ Len(sec) \in Nat
         /\ ToSet(act) \subseteq Pages /\ ToSet(sec) \subseteq Pages
         /\ ToSet(act) \cap ToSet(sec) = {}
<1>1. IsList(act, Pages) /\ IsList(sec, Pages) /\ ToSet(act) \cap ToSet(sec) = {}
  BY DEF ListPair
<1>2. ToSet(act) \subseteq Pages /\ ToSet(sec) \subseteq Pages
  BY <1>1, ListMembers
<1>3. act \in Seq(Pages) /\ sec \in Seq(Pages)
  BY <1>1 DEF IsList
<1> QED BY <1>1, <1>2, <1>3

\* unmap_frame and the page file leave the other contents alone.
LEMMA KeepFacts ==
  ASSUME NEW c \in [Pages -> Contents], NEW S
  PROVE  /\ Keep(c, S) \in [Pages -> Contents]
         /\ \A p \in Pages : Keep(c, S)[p] = IF p \in S THEN c[p] ELSE GARBAGE
BY DEF Keep, Contents

-----------------------------------------------------------------------------
(* Placement *)

\* A page enters the active list: the lists hold it and all they held before,
\* within their sizes, and PERM_PRESENT is set for the active pages only.
LEMMA InsertStep ==
  ASSUME sizes \in ListSizes,
         NEW p \in Pages, NEW act, NEW sec, NEW ws \in Nat, ws > 0,
         ListPair(act, sec), Sized(act, sec, ws),
         p \notin ToSet(act) \cup ToSet(sec),
         sec # <<>> => Len(act) = ActiveListSize,
         InsertActive(p, act, sec, ToSet(act))
  PROVE  /\ ListPair(ActiveList', SecondList')
         /\ present' = ToSet(ActiveList')
         /\ ToSet(ActiveList') \cup ToSet(SecondList') = ToSet(act) \cup ToSet(sec) \cup {p}
         /\ Len(ActiveList') <= ActiveListSize
         /\ Len(SecondList') <= SecondListSize
         /\ Len(ActiveList') + Len(SecondList') = Len(act) + Len(sec) + 1
         /\ SecondList' # <<>> => Len(ActiveList') = ActiveListSize
<1>1. ActiveListSize \in Nat \ {0} /\ SecondListSize \in Nat
  BY SizeFacts
<1>2. /\ IsList(act, Pages) /\ IsList(sec, Pages) /\ Len(act) \in Nat /\ Len(sec) \in Nat
      /\ ToSet(act) \cap ToSet(sec) = {} /\ ToSet(act) \subseteq Pages
  BY PairFacts
<1>3. /\ Len(act) <= ActiveListSize /\ Len(sec) <= SecondListSize
      /\ Len(act) + Len(sec) + ws <= ActiveListSize + SecondListSize
  BY DEF Sized, page_WS_max_size
<1>4. CASE Len(act) < ActiveListSize
  <2>1. ActiveList' = <<p>> \o act /\ SecondList' = sec /\ present' = ToSet(act) \cup {p}
    BY <1>4 DEF InsertActive
  <2>2. /\ IsList(ActiveList', Pages) /\ ToSet(ActiveList') = ToSet(act) \cup {p}
        /\ Len(ActiveList') = Len(act) + 1
    BY <2>1, <1>2, ListInsertHead
  <2>3. sec = <<>>
    BY <1>1, <1>2, <1>4
  <2>4. ListPair(ActiveList', SecondList')
    BY <1>2, <2>1, <2>2 DEF ListPair
  <2> QED BY <1>1, <1>2, <1>3, <1>4, <2>1, <2>2, <2>3, <2>4
<1>5. CASE ~(Len(act) < ActiveListSize)
  <2> DEFINE f == Front(act)
             l == Last(act)
  <2>0. Len(act) = ActiveListSize /\ Len(act) > 0
    BY <1>1, <1>2, <1>3, <1>5
  <2>1. act # <<>>
    BY <2>0, ListEmpty
  <2>2. /\ ActiveList' = <<p>> \o f /\ SecondList' = <<l>> \o sec
        /\ present' = (ToSet(act) \ {l}) \cup {p}
    BY <1>5 DEF InsertActive
  <2>3. /\ IsList(f, Pages) /\ l \in ToSet(act) /\ ToSet(f) = ToSet(act) \ {l}
        /\ Len(f) = Len(act) - 1
    BY <1>2, <2>1, ListFront
  <2> HIDE DEF f, l
  <2>4. l \in Pages /\ l \notin ToSet(sec) /\ l # p /\ p \notin ToSet(f)
    BY <1>2, <2>3
  <2>5. /\ IsList(ActiveList', Pages) /\ ToSet(ActiveList') = ToSet(f) \cup {p}
        /\ Len(ActiveList') = Len(f) + 1
    BY <2>2, <2>3, <2>4, ListInsertHead
  <2>6. /\ IsList(SecondList', Pages) /\ ToSet(SecondList') = ToSet(sec) \cup {l}
        /\ Len(SecondList') = Len(sec) + 1
    BY <1>2, <2>2, <2>4, ListInsertHead
  <2>7. ListPair(ActiveList', SecondList')
    BY <1>2, <2>3, <2>4, <2>5, <2>6 DEF ListPair
  <2>8. /\ present' = ToSet(ActiveList')
        /\ ToSet(ActiveList') \cup ToSet(SecondList') = ToSet(act) \cup ToSet(sec) \cup {p}
    BY <2>2, <2>3, <2>5, <2>6
  <2>9. /\ Len(ActiveList') = ActiveListSize
        /\ Len(SecondList') <= SecondListSize
        /\ Len(ActiveList') + Len(SecondList') = Len(act) + Len(sec) + 1
    BY <1>1, <1>2, <1>3, <2>0, <2>3, <2>5, <2>6
  <2> QED BY <1>1, <2>7, <2>8, <2>9
<1> QED BY <1>4, <1>5

\* What the callers of Placement have made of the lists, the page table and the
\* page file: p is not resident, one of ws elements is available for it, and
\* what is resident is consistent and can be read back.
Room(p, act, sec, ws, map, pres, dsk) ==
  /\ p \in Pages /\ p \notin map
  /\ ListPair(act, sec)
  /\ ws \in Nat /\ ws > 0 /\ Sized(act, sec, ws)
  /\ sec # <<>> => Len(act) = ActiveListSize
  /\ pres = ToSet(act)
  /\ map = ToSet(act) \cup ToSet(sec)
  /\ PDX(p) \in tables /\ \A q \in map : PDX(q) \in tables
  /\ \A q \in map : Backed(q)
  /\ dsk \in [Pages -> Contents]
  /\ \A q \in map \ modified : frame[q] = dsk[q]

\* Placement restores the invariant and neither makes nor loses an element.
LEMMA PlacementStep ==
  ASSUME IInv, mode = "run", kcall = NONE,
         NEW p, NEW act, NEW sec, NEW ws, NEW map, NEW pres, NEW dsk,
         Room(p, act, sec, ws, map, pres, dsk),
         Placement(p, act, sec, ws, map, pres, dsk),
         UNCHANGED <<sizes, tables>>
  PROVE  /\ IInv'
         /\ mode' = "run" => Elements' = ws + Len(act) + Len(sec)
<1> DEFINE keep == Keep(frame, map)
<1>1. TypeOK /\ Resident /\ sizes \in ListSizes
  BY DEF IInv, TypeOK
<1>2. ActiveListSize \in Nat \ {0} /\ SecondListSize \in Nat
  BY <1>1, SizeFacts
<1>3. ActiveListSize' = ActiveListSize /\ SecondListSize' = SecondListSize /\ tables' = tables
  BY DEF sizes
<1>4. /\ act \in Seq(Pages) /\ sec \in Seq(Pages) /\ Len(act) \in Nat /\ Len(sec) \in Nat
      /\ map \subseteq Pages
  BY PairFacts DEF Room
<1>5. keep \in [Pages -> Contents] /\ \A q \in Pages : keep[q] = IF q \in map THEN frame[q] ELSE GARBAGE
  BY <1>1, KeepFacts DEF TypeOK
<1>6. PageWorkingSetList' = ws - 1 /\ ws \in Nat /\ ws > 0
  BY DEF Placement, Room
<1> HIDE DEF keep
<1>7. ASSUME /\ ActiveList' = act /\ SecondList' = sec
             /\ mapped' = map \/ (mapped' = map \cup {p} /\ p \notin pf)
             /\ present' \subseteq Pages
             /\ modified' = modified \cap map /\ disk' = dsk /\ frame' = keep
             /\ UNCHANGED pf /\ Stop("exited")
      PROVE  IInv' /\ mode' # "run"
  <2>1. mode' = "exited" /\ insn' = NONE /\ kcall' = NONE /\ reg' = reg
    BY <1>7 DEF Stop
  <2>2. TypeOK'
    BY <1>1, <1>3, <1>4, <1>5, <1>6, <1>7, <2>1 DEF TypeOK, Room, sizes, Contents
  <2>3. ListPair(ActiveList', SecondList')
    BY <1>7 DEF Room
  <2>4. Sized(ActiveList, SecondList, PageWorkingSetList)'
    BY <1>2, <1>3, <1>4, <1>6, <1>7 DEF Sized, Room, page_WS_max_size
  <2>5. Unplaced' \subseteq {p} /\ (Unplaced' # {} => p \notin pf)
    BY <1>7 DEF Unplaced, Room
  <2>6. Control'
    BY <2>1 DEF Control
  <2>7. Unplaced' \cap Image = {}
    BY <2>5, <1>1 DEF Resident
  <2> QED BY <2>1, <2>2, <2>3, <2>4, <2>5, <2>6, <2>7 DEF IInv, Sized, page_WS_max_size
<1>8. ASSUME /\ InsertActive(p, act, sec, pres)
             /\ mapped' = map \cup {p} /\ modified' = modified \cap map
             /\ frame' \in [Pages -> Contents] /\ disk' \in [Pages -> Contents]
             /\ \A q \in map : frame'[q] = frame[q] /\ disk'[q] = dsk[q]
             /\ frame'[p] = disk'[p]
             /\ pf' = pf \cup {p}
             /\ Resume
      PROVE  IInv' /\ Elements' = ws + Len(act) + Len(sec)
  <2>1. insn' = insn /\ kcall' = kcall /\ reg' = reg /\ mode' = mode
    BY <1>8 DEF Resume
  <2>2. /\ ListPair(ActiveList', SecondList')
        /\ present' = ToSet(ActiveList')
        /\ ToSet(ActiveList') \cup ToSet(SecondList') = ToSet(act) \cup ToSet(sec) \cup {p}
        /\ Len(ActiveList') <= ActiveListSize
        /\ Len(SecondList') <= SecondListSize
        /\ Len(ActiveList') + Len(SecondList') = Len(act) + Len(sec) + 1
        /\ SecondList' # <<>> => Len(ActiveList') = ActiveListSize
    BY <1>1, <1>8, InsertStep DEF Room
  <2>3. /\ ActiveList' \in Seq(Pages) /\ SecondList' \in Seq(Pages)
        /\ Len(ActiveList') \in Nat /\ Len(SecondList') \in Nat
        /\ ToSet(ActiveList') \subseteq Pages
    BY <2>2, PairFacts
  <2>4. p \in Pages /\ p \notin map /\ map = ToSet(act) \cup ToSet(sec)
    BY DEF Room
  <2>5. TypeOK'
    BY <1>1, <1>3, <1>4, <1>6, <1>8, <2>1, <2>2, <2>3, <2>4 DEF TypeOK, sizes
  <2>6. Sized(ActiveList, SecondList, PageWorkingSetList)'
    BY <1>2, <1>3, <1>4, <1>6, <2>2, <2>3 DEF Sized, Room, page_WS_max_size
  <2>7. \A q \in mapped' \ modified' : frame'[q] = disk'[q]
    BY <1>8, <2>4 DEF Room
  <2>8. \A q \in mapped' : PDX(q) \in tables'
    BY <1>3, <1>8 DEF Room
  <2>9. (\A q \in mapped' : Backed(q)') /\ Image \subseteq pf'
    BY <1>1, <1>8 DEF Room, Resident, Backed
  <2>10. mapped' = ToSet(ActiveList') \cup ToSet(SecondList')
    BY <1>8, <2>2, <2>4
  <2>11. Resident'
    BY <1>3, <2>2, <2>7, <2>8, <2>9, <2>10 DEF Resident, Backed, Image, PDX
  <2>12. Control' /\ Unplaced' = {}
    BY <2>1, <2>10 DEF IInv, Control, Unplaced
  <2>13. Elements' = ws + Len(act) + Len(sec)
    BY <1>4, <1>6, <2>2, <2>3 DEF Elements
  <2> QED BY <2>2, <2>5, <2>6, <2>11, <2>12, <2>13 DEF IInv, Sized, page_WS_max_size
<1>9. CASE /\ ActiveList' = act /\ SecondList' = sec
           /\ mapped' = map /\ present' = pres
           /\ modified' = modified \cap map /\ disk' = dsk
           /\ frame' = keep /\ UNCHANGED pf /\ Stop("exited")
  <2>1. present' \subseteq Pages
    BY <1>9, PairFacts DEF Room
  <2> QED BY <1>7, <1>9, <2>1
<1>10. CASE /\ p \in pf /\ InsertActive(p, act, sec, pres)
            /\ mapped' = map \cup {p} /\ modified' = modified \cap map
            /\ frame' = [keep EXCEPT ![p] = dsk[p]] /\ disk' = dsk
            /\ UNCHANGED pf /\ Resume
  <2>1. p \in Pages /\ p \notin map /\ dsk \in [Pages -> Contents]
    BY DEF Room
  <2>2. /\ frame' \in [Pages -> Contents] /\ frame'[p] = disk'[p]
        /\ \A q \in map : frame'[q] = frame[q]
    BY <1>4, <1>5, <1>10, <2>1
  <2>3. pf' = pf \cup {p}
    BY <1>10
  <2> QED BY <1>8, <1>10, <2>1, <2>2, <2>3
<1>11. CASE /\ InsertActive(p, act, sec, pres)
            /\ mapped' = map \cup {p} /\ modified' = modified \cap map
            /\ frame' = keep /\ pf' = pf \cup {p}
            /\ disk' = [dsk EXCEPT ![p] = GARBAGE] /\ Resume
  <2>1. p \in Pages /\ p \notin map /\ dsk \in [Pages -> Contents]
    BY DEF Room
  <2>2. /\ frame' \in [Pages -> Contents] /\ disk' \in [Pages -> Contents]
        /\ \A q \in map : frame'[q] = frame[q] /\ disk'[q] = dsk[q]
        /\ frame'[p] = disk'[p]
    BY <1>4, <1>5, <1>11, <2>1 DEF Contents
  <2> QED BY <1>8, <1>11, <2>2
<1>12. CASE /\ p \notin pf
            /\ ActiveList' = act /\ SecondList' = sec
            /\ mapped' = map \cup {p} /\ present' = pres \cup {p}
            /\ modified' = modified \cap map /\ frame' = keep /\ disk' = dsk
            /\ UNCHANGED pf /\ Stop("exited")
  <2>1. present' \subseteq Pages
    BY <1>12, PairFacts DEF Room
  <2> QED BY <1>7, <1>12, <2>1
<1> QED BY <1>9, <1>10, <1>11, <1>12 DEF Placement, keep

-----------------------------------------------------------------------------
(* The invariant, step by step *)

\* Facts about a state of IInv that every step uses.
LEMMA IInvFacts ==
  ASSUME IInv
  PROVE  /\ TypeOK /\ sizes \in ListSizes
         /\ ActiveListSize \in Nat \ {0} /\ SecondListSize \in Nat
         /\ IsList(ActiveList, Pages) /\ IsList(SecondList, Pages)
         /\ Len(ActiveList) \in Nat /\ Len(SecondList) \in Nat
         /\ PageWorkingSetList \in Nat
         /\ ToSet(ActiveList) \subseteq Pages /\ ToSet(SecondList) \subseteq Pages
         /\ ToSet(ActiveList) \cap ToSet(SecondList) = {}
         /\ Len(ActiveList) <= ActiveListSize /\ Len(SecondList) <= SecondListSize
         /\ Len(ActiveList) + Len(SecondList) + PageWorkingSetList
              <= ActiveListSize + SecondListSize
         /\ mode = "run" => Resident
         /\ Elements \in Nat
         /\ kcall = NONE => ~FreesActive
<1>1. TypeOK /\ sizes \in ListSizes /\ PageWorkingSetList \in Nat
  BY DEF IInv, TypeOK
<1>2. ActiveListSize \in Nat \ {0} /\ SecondListSize \in Nat
  BY <1>1, SizeFacts
<1>3. ListPair(ActiveList, SecondList)
  BY DEF IInv
<1>4. /\ IsList(ActiveList, Pages) /\ IsList(SecondList, Pages)
      /\ Len(ActiveList) \in Nat /\ Len(SecondList) \in Nat
      /\ ToSet(ActiveList) \subseteq Pages /\ ToSet(SecondList) \subseteq Pages
      /\ ToSet(ActiveList) \cap ToSet(SecondList) = {}
  BY <1>3, PairFacts
<1>5. /\ Len(ActiveList) <= ActiveListSize /\ Len(SecondList) <= SecondListSize
      /\ Len(ActiveList) + Len(SecondList) + PageWorkingSetList
              <= ActiveListSize + SecondListSize
  BY DEF IInv, Sized, page_WS_max_size
<1>6. Elements \in Nat
  BY <1>1, <1>4 DEF Elements
<1> QED BY <1>1, <1>2, <1>4, <1>5, <1>6 DEF IInv, FreesActive

\* A step that leaves the working set, the page table and the page file alone.
LEMMA ControlStep ==
  ASSUME IInv, TypeOK', UNCHANGED <<sizes, wsvars, ptvars, pfvars>>,
         mode = "run", mode' # "run" \/ \A p \in mapped : PDX(p) \in tables',
         Control', kcall = NONE \/ kcall.op # "freeMem" \/ kcall.i = kcall.n
  PROVE  IInv' /\ ElementsLostByFree
<1>1. Resident
  BY IInvFacts
<1>2. /\ ActiveListSize' = ActiveListSize /\ SecondListSize' = SecondListSize
      /\ ActiveList' = ActiveList /\ SecondList' = SecondList
      /\ PageWorkingSetList' = PageWorkingSetList /\ mapped' = mapped
      /\ present' = present /\ modified' = modified /\ frame' = frame
      /\ pf' = pf /\ disk' = disk
  BY DEF sizes, wsvars, ptvars, pfvars
<1>3. mode' = "run" => Resident'
  BY <1>1, <1>2 DEF Resident, Backed, Image, PDX
<1>4. Unplaced' = Unplaced
  BY <1>2 DEF Unplaced
<1>5. ~FreesActive
  <2>1. kcall # NONE => kcall.i \in Nat /\ kcall.n \in Nat
    BY IInvFacts DEF TypeOK
  <2> QED BY <2>1 DEF FreesActive
<1>6. ElementsLostByFree
  BY <1>2, <1>5 DEF ElementsLostByFree, Elements
<1>7. ListPair(ActiveList, SecondList)' /\ Sized(ActiveList, SecondList, PageWorkingSetList)'
  BY <1>2 DEF IInv, Sized, ListPair, page_WS_max_size
<1> QED BY <1>3, <1>4, <1>6, <1>7 DEF IInv, Image

\* The program issues an instruction.
LEMMA IssueStep ==
  ASSUME IInv, NEW c \in ToSet(Code), NEW p \in Pages, NEW op \in Values \cup {"load"},
         Issue(c, p, op)
  PROVE  IInv' /\ ElementsLostByFree
<1>1. /\ mode = "run" /\ kcall = NONE /\ insn' = [fetch |-> c, data |-> p, op |-> op]
      /\ UNCHANGED <<sizes, wsvars, ptvars, pfvars>>
      /\ tables' = tables /\ kcall' = kcall /\ reg' = reg /\ mode' = mode
  BY DEF Issue, Running
<1>2. TypeOK'
  BY <1>1, IInvFacts DEF TypeOK, sizes, wsvars, ptvars, pfvars
<1>3. Control'
  BY <1>1 DEF Control
<1>4. \A q \in mapped : PDX(q) \in tables'
  BY <1>1, IInvFacts DEF Resident
<1> QED BY <1>1, <1>2, <1>3, <1>4, ControlStep

\* The MMU performs an instruction on a page in the active list.
LEMMA ExecuteStep ==
  ASSUME IInv, Execute
  PROVE  IInv' /\ ElementsLostByFree
<1>1. /\ mode = "run" /\ kcall = NONE /\ insn # NONE /\ insn' = NONE
      /\ {insn.fetch, insn.data} \subseteq present
      /\ UNCHANGED <<sizes, wsvars, pfvars>>
      /\ mapped' = mapped /\ present' = present
      /\ tables' = tables /\ kcall' = kcall /\ mode' = mode
  BY DEF Execute, Running
<1>2. /\ ActiveListSize' = ActiveListSize /\ SecondListSize' = SecondListSize
      /\ ActiveList' = ActiveList /\ SecondList' = SecondList
      /\ PageWorkingSetList' = PageWorkingSetList
      /\ pf' = pf /\ disk' = disk
  BY <1>1 DEF sizes, wsvars, pfvars
<1>3. /\ insn.data \in Pages /\ insn.data \in mapped /\ insn.op \in Values \cup {"load"}
      /\ frame \in [Pages -> Contents] /\ modified \subseteq Pages /\ reg \in Contents
  BY <1>1, IInvFacts DEF TypeOK, Resident
<1>4. /\ frame' \in [Pages -> Contents] /\ modified' \subseteq Pages /\ reg' \in Contents
      /\ modified \subseteq modified'
      /\ \A q \in Pages \ modified' : frame'[q] = frame[q]
  <2>1. CASE insn.op = "load"
    BY <1>3, <2>1 DEF Execute
  <2>2. CASE insn.op # "load"
    <3>1. /\ frame' = [frame EXCEPT ![insn.data] = insn.op]
          /\ modified' = modified \cup {insn.data} /\ reg' = reg
      BY <2>2 DEF Execute
    <3>2. insn.op \in Contents
      BY <1>3, <2>2 DEF Contents
    <3> QED BY <1>3, <3>1, <3>2
  <2> QED BY <2>1, <2>2
<1>5. TypeOK'
  BY <1>1, <1>2, <1>4, IInvFacts DEF TypeOK, sizes
<1>6. mapped \subseteq Pages
  BY IInvFacts DEF TypeOK
<1>7. \A q \in mapped \ modified' : frame'[q] = disk[q]
  BY <1>1, <1>4, <1>6, IInvFacts DEF Resident
<1>8. Resident'
  BY <1>1, <1>2, <1>4, <1>7, IInvFacts DEF Resident, Backed, Image, PDX
<1>9. Unplaced' = Unplaced /\ Control'
  BY <1>1, <1>2 DEF Unplaced, Control
<1>10. ElementsLostByFree
  BY <1>1, <1>2, IInvFacts DEF ElementsLostByFree, Elements
<1>11. ListPair(ActiveList, SecondList)' /\ Sized(ActiveList, SecondList, PageWorkingSetList)'
  BY <1>2 DEF IInv, Sized, ListPair, page_WS_max_size
<1> QED BY <1>5, <1>8, <1>9, <1>10, <1>11 DEF IInv, Image

\* The page on which an instruction faults has no PERM_PRESENT.
LEMMA FaultFacts ==
  ASSUME IInv, NEW p \in Pages, FaultsOn(p)
  PROVE  /\ mode = "run" /\ kcall = NONE /\ Resident
         /\ p \notin ToSet(ActiveList)
BY IInvFacts DEF FaultsOn, Running, Resident

\* A page table is created, or its allocation panics.
LEMMA TableFaultStep ==
  ASSUME IInv, NEW p \in Pages, table_fault_handler(p)
  PROVE  IInv' /\ ElementsLostByFree
<1>1. mode = "run" /\ kcall = NONE /\ Resident
  BY FaultFacts DEF table_fault_handler
<1>2. UNCHANGED <<sizes, wsvars, ptvars, pfvars>>
  BY DEF table_fault_handler
<1>3. CASE tables' = tables \cup {PDX(p)} /\ Resume
  <2>1. insn' = insn /\ kcall' = kcall /\ reg' = reg /\ mode' = mode
    BY <1>3 DEF Resume
  <2>2. TypeOK' /\ Control'
    BY <1>2, <2>1, IInvFacts DEF IInv, Control, TypeOK, sizes, wsvars, ptvars, pfvars
  <2>3. \A q \in mapped : PDX(q) \in tables'
    BY <1>1, <1>3 DEF Resident
  <2> QED BY <1>1, <1>2, <2>2, <2>3, ControlStep
<1>4. CASE UNCHANGED tables /\ Stop("exited")
  <2>1. insn' = NONE /\ kcall' = NONE /\ reg' = reg /\ mode' = "exited"
    BY <1>4 DEF Stop
  <2>2. TypeOK' /\ Control'
    BY <1>2, <2>1, IInvFacts DEF Control, TypeOK, sizes, wsvars, ptvars, pfvars
  <2> QED BY <1>1, <1>2, <2>1, <2>2, ControlStep
<1> QED BY <1>3, <1>4 DEF table_fault_handler

\* A page of the second list changes places with the last active page.
LEMMA SecondListHitStep ==
  ASSUME IInv, NEW p \in Pages, FaultsOn(p), p \in ToSet(SecondList), SecondListHit(p),
         UNCHANGED <<sizes, tables>>
  PROVE  IInv' /\ ElementsLostByFree
<1> DEFINE f == Front(ActiveList)
           l == Last(ActiveList)
           r == LIST_REMOVE(SecondList, p)
<1>1. mode = "run" /\ kcall = NONE /\ Resident /\ p \notin ToSet(ActiveList)
  BY FaultFacts
<1>2. SecondList # <<>>
  BY ListEmpty
<1>3. Len(ActiveList) = ActiveListSize /\ ActiveList # <<>>
  BY <1>1, <1>2, IInvFacts, ListEmpty DEF Resident
<1>4. /\ IsList(f, Pages) /\ l \in ToSet(ActiveList) /\ ToSet(f) = ToSet(ActiveList) \ {l}
      /\ Len(f) = Len(ActiveList) - 1
  BY <1>3, IInvFacts, ListFront
<1>5. /\ IsList(r, Pages) /\ ToSet(r) = ToSet(SecondList) \ {p}
      /\ Len(r) = Len(SecondList) - 1
  BY IInvFacts, ListRemove
<1>6. /\ ActiveList' = <<p>> \o f /\ SecondList' = <<l>> \o r
      /\ present' = (present \cup {p}) \ {l}
      /\ PageWorkingSetList' = PageWorkingSetList /\ mapped' = mapped
      /\ modified' = modified /\ frame' = frame /\ pf' = pf /\ disk' = disk
      /\ insn' = insn /\ kcall' = kcall /\ reg' = reg /\ mode' = mode
      /\ ActiveListSize' = ActiveListSize /\ SecondListSize' = SecondListSize
      /\ tables' = tables
  BY DEF SecondListHit, Resume, pfvars, sizes
<1> HIDE DEF f, l, r
<1>7. l \in Pages /\ l \notin ToSet(SecondList) /\ l # p /\ p \notin ToSet(f)
  BY <1>1, <1>4, IInvFacts
<1>8. /\ IsList(ActiveList', Pages) /\ ToSet(ActiveList') = ToSet(f) \cup {p}
      /\ Len(ActiveList') = Len(f) + 1
  BY <1>4, <1>6, <1>7, ListInsertHead
<1>9. /\ IsList(SecondList', Pages) /\ ToSet(SecondList') = ToSet(r) \cup {l}
      /\ Len(SecondList') = Len(r) + 1
  BY <1>5, <1>6, <1>7, ListInsertHead
<1>10. Len(ActiveList') = Len(ActiveList) /\ Len(SecondList') = Len(SecondList)
  BY <1>4, <1>5, <1>8, <1>9, IInvFacts
<1>11. ListPair(ActiveList, SecondList)'
  BY <1>4, <1>5, <1>7, <1>8, <1>9, IInvFacts DEF ListPair
<1>12. Sized(ActiveList, SecondList, PageWorkingSetList)'
  BY <1>6, <1>10, IInvFacts DEF Sized, page_WS_max_size
<1>13. /\ ToSet(ActiveList') \cup ToSet(SecondList') = mapped
       /\ present' = ToSet(ActiveList')
  BY <1>1, <1>4, <1>5, <1>6, <1>7, <1>8, <1>9 DEF Resident
<1>14. Resident'
  BY <1>1, <1>3, <1>6, <1>10, <1>13 DEF Resident, Backed, Image, PDX
<1>15. TypeOK'
  BY <1>6, <1>8, <1>9, <1>13, IInvFacts DEF TypeOK, sizes, IsList
<1>16. Control' /\ Unplaced' = {}
  BY <1>1, <1>6, <1>13 DEF IInv, Control, Unplaced
<1>17. ElementsLostByFree
  BY <1>1, <1>6, <1>10, IInvFacts DEF ElementsLostByFree, Elements
<1> QED BY <1>11, <1>12, <1>14, <1>15, <1>16, <1>17 DEF IInv

\* The arguments with which Replace calls Placement.
VictimList == IF SecondListSize > 0 THEN SecondList ELSE ActiveList
Victim     == Last(VictimList)
ActiveLeft == IF SecondListSize > 0 THEN ActiveList ELSE Front(ActiveList)
SecondLeft == IF SecondListSize > 0 THEN Front(SecondList) ELSE SecondList

\* The victim is resident, and leaves its list.
LEMMA VictimFacts ==
  ASSUME IInv, mode = "run", VictimList # <<>>
  PROVE  /\ Victim \in mapped /\ Victim \in Pages
         /\ ListPair(ActiveLeft, SecondLeft)
         /\ ToSet(ActiveLeft) = ToSet(ActiveList) \ {Victim}
         /\ ToSet(SecondLeft) = ToSet(SecondList) \ {Victim}
         /\ Len(ActiveLeft) + Len(SecondLeft) + 1 = Len(ActiveList) + Len(SecondList)
         /\ Len(ActiveLeft) <= ActiveListSize /\ Len(SecondLeft) <= SecondListSize
         /\ SecondLeft # <<>> => Len(ActiveLeft) = ActiveListSize
<1>1. Resident
  BY IInvFacts
<1>2. CASE SecondListSize > 0
  <2>1. /\ VictimList = SecondList /\ ActiveLeft = ActiveList /\ SecondLeft = Front(SecondList)
        /\ Victim = Last(SecondList)
    BY <1>2 DEF VictimList, Victim, ActiveLeft, SecondLeft
  <2>2. /\ IsList(SecondLeft, Pages) /\ Victim \in ToSet(SecondList)
        /\ ToSet(SecondLeft) = ToSet(SecondList) \ {Victim}
        /\ Len(SecondLeft) = Len(SecondList) - 1
    BY <2>1, IInvFacts, ListFront
  <2>3. Victim \notin ToSet(ActiveList)
    BY <2>2, IInvFacts
  <2>4. ListPair(ActiveLeft, SecondLeft)
    BY <2>1, <2>2, IInvFacts DEF ListPair
  <2>5. Victim \in mapped /\ Victim \in Pages
    BY <1>1, <2>2, IInvFacts DEF Resident
  <2>6. Len(ActiveList) = ActiveListSize
    BY <1>1, <2>1 DEF Resident
  <2>7. /\ Len(ActiveLeft) + Len(SecondLeft) + 1 = Len(ActiveList) + Len(SecondList)
        /\ Len(ActiveLeft) <= ActiveListSize /\ Len(SecondLeft) <= SecondListSize
    BY <2>1, <2>2, IInvFacts
  <2> QED BY <2>1, <2>2, <2>3, <2>4, <2>5, <2>6, <2>7
<1>3. CASE ~(SecondListSize > 0)
  <2>1. /\ VictimList = ActiveList /\ ActiveLeft = Front(ActiveList) /\ SecondLeft = SecondList
        /\ Victim = Last(ActiveList)
    BY <1>3 DEF VictimList, Victim, ActiveLeft, SecondLeft
  <2>2. /\ IsList(ActiveLeft, Pages) /\ Victim \in ToSet(ActiveList)
        /\ ToSet(ActiveLeft) = ToSet(ActiveList) \ {Victim}
        /\ Len(ActiveLeft) = Len(ActiveList) - 1
    BY <2>1, IInvFacts, ListFront
  <2>3. Victim \notin ToSet(SecondList)
    BY <2>2, IInvFacts
  <2>4. ListPair(ActiveLeft, SecondLeft)
    BY <2>1, <2>2, IInvFacts DEF ListPair
  <2>5. Victim \in mapped /\ Victim \in Pages
    BY <1>1, <2>2, IInvFacts DEF Resident
  <2>6. Len(SecondList) = 0
    BY <1>3, IInvFacts
  <2>7. SecondList = <<>>
    BY <2>6, IInvFacts DEF IsList
  <2>8. /\ Len(ActiveLeft) + Len(SecondLeft) + 1 = Len(ActiveList) + Len(SecondList)
        /\ Len(ActiveLeft) <= ActiveListSize /\ Len(SecondLeft) <= SecondListSize
    BY <2>1, <2>2, <2>6, IInvFacts
  <2> QED BY <2>1, <2>2, <2>3, <2>4, <2>5, <2>7, <2>8
<1> QED BY <1>2, <1>3

\* A modified victim is written back, and no other disk frame changes.
LEMMA WriteBackFacts ==
  ASSUME IInv, mode = "run", NEW v \in mapped, v \in Pages
  PROVE  /\ WriteBack(v) \in [Pages -> Contents]
         /\ v \in pf => WriteBack(v)[v] = frame[v]
         /\ \A q \in Pages \ {v} : WriteBack(v)[q] = disk[q]
<1>1. /\ frame \in [Pages -> Contents] /\ disk \in [Pages -> Contents]
      /\ (v \notin modified => frame[v] = disk[v])
  BY IInvFacts DEF TypeOK, Resident
<1>2. CASE v \in modified
  BY <1>1, <1>2 DEF WriteBack
<1>3. CASE v \notin modified
  BY <1>1, <1>3 DEF WriteBack
<1> QED BY <1>2, <1>3

\* With an available element there is room as it is.
LEMMA FreeRoom ==
  ASSUME IInv, NEW p \in Pages, FaultsOn(p), PDX(p) \in tables,
         p \notin ToSet(SecondList), PageWorkingSetList > 0
  PROVE  Room(p, ActiveList, SecondList, PageWorkingSetList, mapped, present, disk)
<1>1. Resident /\ p \notin ToSet(ActiveList)
  BY FaultFacts
<1>2. disk \in [Pages -> Contents] /\ PageWorkingSetList \in Nat
  BY IInvFacts DEF TypeOK
<1>3. /\ ListPair(ActiveList, SecondList)
      /\ Sized(ActiveList, SecondList, PageWorkingSetList)
  BY DEF IInv
<1> QED BY <1>1, <1>2, <1>3 DEF Room, Resident

\* Without one, room is made by evicting the victim.
LEMMA EvictRoom ==
  ASSUME IInv, NEW p \in Pages, FaultsOn(p), PDX(p) \in tables,
         p \notin ToSet(SecondList), PageWorkingSetList = 0, VictimList # <<>>
  PROVE  Room(p, ActiveLeft, SecondLeft, 1, mapped \ {Victim}, present \ {Victim},
              WriteBack(Victim))
<1>1. Resident /\ p \notin ToSet(ActiveList) /\ mode = "run"
  BY FaultFacts
<1>2. /\ WriteBack(Victim) \in [Pages -> Contents]
      /\ \A q \in Pages \ {Victim} : WriteBack(Victim)[q] = disk[q]
  BY <1>1, VictimFacts, WriteBackFacts
<1>3. Sized(ActiveLeft, SecondLeft, 1)
  BY <1>1, VictimFacts, IInvFacts DEF Sized, page_WS_max_size
<1>4. /\ present \ {Victim} = ToSet(ActiveLeft)
      /\ mapped \ {Victim} = ToSet(ActiveLeft) \cup ToSet(SecondLeft)
  BY <1>1, VictimFacts DEF Resident
<1>5. \A q \in (mapped \ {Victim}) \ modified : frame[q] = WriteBack(Victim)[q]
  BY <1>1, <1>2, IInvFacts DEF Resident, TypeOK
<1>6. p \notin mapped
  BY <1>1 DEF Resident
<1>7. ListPair(ActiveLeft, SecondLeft) /\ (SecondLeft # <<>> => Len(ActiveLeft) = ActiveListSize)
  BY <1>1, VictimFacts
<1>8. /\ \A q \in mapped \ {Victim} : PDX(q) \in tables
      /\ \A q \in mapped \ {Victim} : Backed(q)
  BY <1>1 DEF Resident
<1> QED BY <1>2, <1>3, <1>4, <1>5, <1>6, <1>7, <1>8 DEF Room

\* A page fault, whichever way it goes.
LEMMA PageFaultStep ==
  ASSUME IInv, NEW p \in Pages, page_fault_handler(p)
  PROVE  IInv' /\ ElementsLostByFree
<1>1. /\ FaultsOn(p) /\ PDX(p) \in tables /\ UNCHANGED <<sizes, tables>>
  BY DEF page_fault_handler
<1>2. mode = "run" /\ kcall = NONE /\ Resident /\ ~FreesActive /\ PageWorkingSetList \in Nat
  BY <1>1, FaultFacts, IInvFacts
<1>3. CASE p \in ToSet(SecondList) /\ SecondListHit(p)
  BY <1>1, <1>3, SecondListHitStep
<1>4. CASE /\ p \notin ToSet(SecondList) /\ PageWorkingSetList > 0
           /\ Placement(p, ActiveList, SecondList, PageWorkingSetList, mapped, present, disk)
  <2>1. Room(p, ActiveList, SecondList, PageWorkingSetList, mapped, present, disk)
    BY <1>1, <1>4, FreeRoom
  <2>2. /\ IInv'
        /\ mode' = "run" =>
             Elements' = PageWorkingSetList + Len(ActiveList) + Len(SecondList)
    BY <1>1, <1>2, <1>4, <2>1, PlacementStep
  <2> QED BY <1>2, <2>2 DEF ElementsLostByFree, Elements
<1>5. CASE p \notin ToSet(SecondList) /\ PageWorkingSetList = 0 /\ Replace(p)
  <2>1. CASE VictimList = <<>>
    <3>1. UNCHANGED <<wsvars, ptvars, pfvars>> /\ Stop("crashed")
      BY <1>5, <2>1 DEF Replace, VictimList
    <3>2. insn' = NONE /\ kcall' = NONE /\ reg' = reg /\ mode' = "crashed"
      BY <3>1 DEF Stop
    <3>3. TypeOK' /\ Control'
      BY <1>1, <3>1, <3>2, IInvFacts DEF Control, TypeOK, sizes, wsvars, ptvars, pfvars
    <3> QED BY <1>1, <1>2, <3>1, <3>2, <3>3, ControlStep
  <2>2. CASE VictimList # <<>>
    <3>1. Placement(p, ActiveLeft, SecondLeft, 1, mapped \ {Victim}, present \ {Victim},
                    WriteBack(Victim))
      BY <1>5, <2>2 DEF Replace, VictimList, Victim, ActiveLeft, SecondLeft
    <3>2. Room(p, ActiveLeft, SecondLeft, 1, mapped \ {Victim}, present \ {Victim},
               WriteBack(Victim))
      BY <1>1, <1>5, <2>2, EvictRoom
    <3>3. /\ IInv'
          /\ mode' = "run" => Elements' = 1 + Len(ActiveLeft) + Len(SecondLeft)
      BY <1>1, <1>2, <3>1, <3>2, PlacementStep
    <3>4. ListPair(ActiveLeft, SecondLeft)
      BY <1>2, <2>2, VictimFacts
    <3>5. Len(ActiveLeft) \in Nat /\ Len(SecondLeft) \in Nat
      BY <3>4, PairFacts
    <3>6. 1 + Len(ActiveLeft) + Len(SecondLeft) = Elements
      BY <1>2, <1>5, <2>2, <3>5, VictimFacts, IInvFacts DEF Elements
    <3> QED BY <1>2, <3>3, <3>6 DEF ElementsLostByFree
  <2> QED BY <2>1, <2>2
<1> QED BY <1>3, <1>4, <1>5 DEF page_fault_handler

\* A loop of allocateMem or freeMem begins.
LEMMA SysCallStep ==
  ASSUME IInv, NEW op \in {"allocateMem", "freeMem"}, NEW va \in Heap,
         NEW n \in 1..Cardinality(Heap), NEW room \in 0..n, SysCall(op, va, n, room)
  PROVE  IInv' /\ ElementsLostByFree
<1>1. /\ mode = "run" /\ kcall = NONE /\ insn = NONE /\ va..(va + n - 1) \subseteq Heap
      /\ kcall' = [op |-> op, va |-> va, n |-> n, i |-> 0, room |-> room]
      /\ UNCHANGED <<sizes, wsvars, ptvars, pfvars>>
      /\ tables' = tables /\ insn' = insn /\ reg' = reg /\ mode' = mode
  BY DEF SysCall, Running
<1>2. IsFiniteSet(Heap)
  BY PageFacts, FS_Subset
<1>3. n \in Nat /\ room \in Nat
  BY <1>2, FS_CardinalityType
<1>4. TypeOK'
  BY <1>1, <1>3, IInvFacts DEF TypeOK, sizes, wsvars, ptvars, pfvars
<1>5. Control'
  BY <1>1, <1>3 DEF Control
<1>6. \A q \in mapped : PDX(q) \in tables'
  BY <1>1, IInvFacts DEF Resident
<1> QED BY <1>1, <1>4, <1>5, <1>6, ControlStep

\* The page that the loop in progress is about to handle is one of the heap.
LEMMA LoopFacts ==
  ASSUME IInv, kcall # NONE
  PROVE  /\ mode = "run" /\ insn = NONE /\ Resident
         /\ kcall \in [op : {"allocateMem", "freeMem"}, va : Heap, n : Nat, i : Nat, room : Nat]
         /\ kcall.i \in Nat /\ kcall.n \in Nat /\ kcall.i <= kcall.n /\ kcall.room \in Nat
         /\ kcall.i < kcall.n => /\ kcall.va + kcall.i \in Heap
                                /\ kcall.va + kcall.i \in Pages
<1>1. mode = "run" /\ insn = NONE /\ kcall.i <= kcall.n
      /\ kcall.va .. (kcall.va + kcall.n - 1) \subseteq Heap
  BY DEF IInv, Control
<1>2. kcall \in [op : {"allocateMem", "freeMem"}, va : Heap, n : Nat, i : Nat, room : Nat]
  BY IInvFacts DEF TypeOK
<1>3. kcall.va \in Nat /\ kcall.n \in Nat /\ kcall.i \in Nat
  BY <1>2, PageFacts
<1>4. kcall.i < kcall.n => kcall.va + kcall.i \in kcall.va .. (kcall.va + kcall.n - 1)
  BY <1>3
<1> QED BY <1>1, <1>2, <1>3, <1>4, IInvFacts, PageFacts

\* The loop goes on to its next page.
LEMMA NextPageStep ==
  ASSUME NEW room \in Nat, NextPage(room),
         kcall \in [op : {"allocateMem", "freeMem"}, va : Heap, n : Nat, i : Nat, room : Nat]
  PROVE  /\ kcall' \in [op : {"allocateMem", "freeMem"}, va : Heap, n : Nat, i : Nat,
                        room : Nat]
         /\ kcall'.i = kcall.i + 1 /\ kcall'.n = kcall.n /\ kcall'.va = kcall.va
<1> DEFINE k == [kcall EXCEPT !.i = @ + 1]
<1>1. kcall' = [k EXCEPT !.room = room]
  BY DEF NextPage
<1>2. /\ k \in [op : {"allocateMem", "freeMem"}, va : Heap, n : Nat, i : Nat, room : Nat]
      /\ k.i = kcall.i + 1 /\ k.n = kcall.n /\ k.va = kcall.va
  OBVIOUS
<1> HIDE DEF k
<1> QED BY <1>1, <1>2

\* One round of allocateMem, its end, or a panic in it.
LEMMA AllocateStep ==
  ASSUME IInv, allocateMem
  PROVE  IInv' /\ ElementsLostByFree
<1> DEFINE p == kcall.va + kcall.i
<1>0. kcall # NONE /\ kcall.op = "allocateMem"
  BY DEF allocateMem
<1>1. /\ ActiveListSize' = ActiveListSize /\ SecondListSize' = SecondListSize
      /\ ActiveList' = ActiveList /\ SecondList' = SecondList
      /\ PageWorkingSetList' = PageWorkingSetList /\ mapped' = mapped
      /\ present' = present /\ modified' = modified /\ frame' = frame /\ tables' = tables
  BY DEF allocateMem, sizes, wsvars, ptvars
<1>2. /\ mode = "run" /\ insn = NONE /\ Resident /\ kcall.i \in Nat /\ kcall.n \in Nat
      /\ kcall \in [op : {"allocateMem", "freeMem"}, va : Heap, n : Nat, i : Nat, room : Nat]
      /\ kcall.i < kcall.n => p \in Pages
  BY <1>0, LoopFacts
<1>3. CASE \/ kcall.i = kcall.n /\ kcall' = NONE /\ UNCHANGED <<pfvars, insn, reg, mode>>
           \/ Stop("exited") /\ UNCHANGED pfvars
  <2>1. UNCHANGED <<sizes, wsvars, ptvars, pfvars>>
    BY <1>1, <1>3 DEF sizes, wsvars, ptvars
  <2>2. kcall' = NONE /\ reg' = reg /\ (mode' = mode \/ mode' = "exited") /\ insn' = NONE
    BY <1>2, <1>3 DEF Stop
  <2>3. TypeOK' /\ Control'
    BY <2>1, <2>2, IInvFacts, <1>2 DEF Control, TypeOK, sizes, wsvars, ptvars, pfvars
  <2>4. \A q \in mapped : PDX(q) \in tables'
    BY <1>1, <1>2 DEF Resident
  <2> QED BY <1>0, <1>2, <2>1, <2>3, <2>4, ControlStep
<1>4. CASE /\ kcall.i < kcall.n
           /\ IF p \in pf \/ kcall.room = 0
              THEN UNCHANGED pfvars /\ NextPage(kcall.room)
              ELSE /\ pf' = pf \cup {p} /\ disk' = [disk EXCEPT ![p] = GARBAGE]
                   /\ NextPage(kcall.room - 1)
           /\ UNCHANGED <<insn, reg, mode>>
  <2>1. /\ pf \subseteq Pages /\ disk \in [Pages -> Contents]
        /\ \A q \in mapped \ modified : q \in pf
    BY <1>2, IInvFacts DEF TypeOK, Resident, Backed
  <2>2. /\ pf \subseteq pf' /\ pf' \subseteq Pages /\ disk' \in [Pages -> Contents]
        /\ \A q \in pf : disk'[q] = disk[q]
    <3>1. CASE p \in pf \/ kcall.room = 0
      BY <1>4, <2>1, <3>1 DEF pfvars
    <3>2. CASE ~(p \in pf \/ kcall.room = 0)
      <4>1. p \notin pf /\ p \in Pages /\ pf' = pf \cup {p}
            /\ disk' = [disk EXCEPT ![p] = GARBAGE]
        BY <1>2, <1>4, <3>2
      <4> HIDE DEF p
      <4> QED BY <2>1, <4>1 DEF Contents
    <3> QED BY <3>1, <3>2
  <2>3. /\ insn' = insn /\ reg' = reg /\ mode' = mode
        /\ \E room \in Nat : NextPage(room)
    <3>1. kcall.room \in Nat /\ (kcall.room # 0 => kcall.room - 1 \in Nat)
      BY <1>0, LoopFacts
    <3> QED BY <1>4, <3>1
  <2>4. /\ kcall' \in [op : {"allocateMem", "freeMem"}, va : Heap, n : Nat, i : Nat, room : Nat]
        /\ kcall'.i = kcall.i + 1 /\ kcall'.n = kcall.n /\ kcall'.va = kcall.va
    BY <1>2, <2>3, NextPageStep
  <2>5. TypeOK'
    BY <1>1, <2>2, <2>3, <2>4, IInvFacts DEF TypeOK, sizes
  <2>6. Resident'
    BY <1>1, <1>2, <2>1, <2>2 DEF Resident, Backed, Image, PDX
  <2>7. Control'
    BY <1>0, <1>2, <1>4, <2>3, <2>4 DEF IInv, Control
  <2>8. Unplaced' = Unplaced
    BY <1>1 DEF Unplaced
  <2>9. ListPair(ActiveList, SecondList)' /\ Sized(ActiveList, SecondList, PageWorkingSetList)'
    BY <1>1 DEF IInv, Sized, ListPair, page_WS_max_size
  <2>10. ElementsLostByFree
    BY <1>0, <1>1 DEF ElementsLostByFree, Elements, FreesActive
  <2> QED BY <2>5, <2>6, <2>7, <2>8, <2>9, <2>10 DEF IInv, Image
<1> QED BY <1>3, <1>4 DEF allocateMem

\* A page leaves the working set, wherever it was.
LEMMA FreeResidentStep ==
  ASSUME IInv, mode = "run", NEW p \in Pages, FreeResident(p)
  PROVE  /\ ListPair(ActiveList', SecondList')
         /\ ToSet(ActiveList') \cup ToSet(SecondList') = mapped \ {p}
         /\ mapped' = mapped \ {p}
         /\ modified \ {p} \subseteq modified' /\ modified' \subseteq modified
         /\ present' = ToSet(ActiveList')
         /\ Len(ActiveList') <= ActiveListSize /\ Len(SecondList') <= SecondListSize
         /\ SecondList' # <<>> => Len(ActiveList') = ActiveListSize
         /\ PageWorkingSetList' \in Nat
         /\ PageWorkingSetList' + Len(ActiveList') + Len(SecondList')
              = IF p \in ToSet(ActiveList) THEN Elements - 1 ELSE Elements
<1>1. Resident
  BY IInvFacts
<1> DEFINE A == ActiveList
           S == SecondList
<1>2. CASE FreeActive(p) /\ S = <<>>
  <2>1. /\ p \in ToSet(A) /\ ActiveList' = LIST_REMOVE(A, p) /\ SecondList' = S
        /\ present' = present \ {p} /\ mapped' = mapped \ {p} /\ modified' = modified \ {p}
        /\ PageWorkingSetList' = PageWorkingSetList
    BY <1>2 DEF FreeActive
  <2>2. /\ IsList(ActiveList', Pages) /\ ToSet(ActiveList') = ToSet(A) \ {p}
        /\ Len(ActiveList') = Len(A) - 1
    BY <2>1, IInvFacts, ListRemove
  <2>3. ToSet(S) = {} /\ Len(S) = 0 /\ IsList(S, Pages)
    BY <1>2, ListEmpty
  <2>4. ListPair(ActiveList', SecondList')
    BY <2>1, <2>2, <2>3 DEF ListPair
  <2>5. /\ ToSet(ActiveList') \cup ToSet(SecondList') = mapped \ {p}
        /\ present' = ToSet(ActiveList')
    BY <1>1, <2>1, <2>2, <2>3 DEF Resident
  <2> QED BY <1>2, <2>1, <2>2, <2>3, <2>4, <2>5, IInvFacts DEF Elements
<1>3. CASE FreeActive(p) /\ S # <<>>
  <2> DEFINE r == LIST_REMOVE(A, p)
             h == Head(S)
  <2>1. /\ p \in ToSet(A) /\ ActiveList' = Append(r, h) /\ SecondList' = Tail(S)
        /\ present' = (present \ {p}) \cup {h} /\ mapped' = mapped \ {p}
        /\ modified' = modified \ {p}
        /\ PageWorkingSetList' = PageWorkingSetList
    BY <1>3 DEF FreeActive
  <2>2. IsList(r, Pages) /\ ToSet(r) = ToSet(A) \ {p} /\ Len(r) = Len(A) - 1
    BY <2>1, IInvFacts, ListRemove
  <2>3. /\ IsList(SecondList', Pages) /\ h \in ToSet(S) /\ ToSet(SecondList') = ToSet(S) \ {h}
        /\ Len(SecondList') = Len(S) - 1
    BY <1>3, <2>1, IInvFacts, ListTail
  <2> HIDE DEF r, h
  <2>4. h \in Pages /\ h \notin ToSet(A) /\ h # p /\ h \notin ToSet(r)
    BY <2>1, <2>2, <2>3, IInvFacts
  <2>5. /\ IsList(ActiveList', Pages) /\ ToSet(ActiveList') = ToSet(r) \cup {h}
        /\ Len(ActiveList') = Len(r) + 1
    BY <2>1, <2>2, <2>4, ListAppend
  <2>6. ListPair(ActiveList', SecondList')
    BY <2>2, <2>3, <2>4, <2>5, IInvFacts DEF ListPair
  <2>7. /\ ToSet(ActiveList') \cup ToSet(SecondList') = mapped \ {p}
        /\ present' = ToSet(ActiveList')
    <3>1. p \notin ToSet(S)
      BY <2>1, IInvFacts
    <3> QED BY <1>1, <2>1, <2>2, <2>3, <2>5, <3>1 DEF Resident
  <2>8. Len(A) = ActiveListSize
    BY <1>1, <1>3 DEF Resident
  <2>9. Len(ActiveList') = Len(A) /\ Len(SecondList') = Len(S) - 1
    BY <2>2, <2>3, <2>5, IInvFacts
  <2>a. /\ PageWorkingSetList' = PageWorkingSetList /\ PageWorkingSetList \in Nat
        /\ Len(A) \in Nat /\ Len(S) \in Nat /\ SecondListSize \in Nat
        /\ Len(S) <= SecondListSize /\ Elements = PageWorkingSetList + Len(A) + Len(S)
    BY <2>1, IInvFacts DEF Elements
  <2>10. /\ Len(ActiveList') = ActiveListSize /\ Len(SecondList') <= SecondListSize
         /\ PageWorkingSetList' \in Nat
         /\ PageWorkingSetList' + Len(ActiveList') + Len(SecondList') = Elements - 1
    BY <2>8, <2>9, <2>a
  <2>11. Len(ActiveList') <= ActiveListSize
    BY <2>10, IInvFacts
  <2> QED BY <2>1, <2>6, <2>7, <2>10, <2>11
<1>4. CASE FreeSecond(p)
  <2>1. /\ p \notin ToSet(A) /\ p \in ToSet(S) /\ ActiveList' = A
        /\ SecondList' = LIST_REMOVE(S, p) /\ present' = present
        /\ PageWorkingSetList' = PageWorkingSetList + 1
        /\ mapped' = mapped \ {p} /\ modified' = modified \ {p}
    BY <1>4 DEF FreeSecond
  <2>2. /\ IsList(SecondList', Pages) /\ ToSet(SecondList') = ToSet(S) \ {p}
        /\ Len(SecondList') = Len(S) - 1
    BY <2>1, IInvFacts, ListRemove
  <2>3. ListPair(ActiveList', SecondList')
    BY <2>1, <2>2, IInvFacts DEF ListPair
  <2>4. /\ ToSet(ActiveList') \cup ToSet(SecondList') = mapped \ {p}
        /\ present' = ToSet(ActiveList')
    BY <1>1, <2>1, <2>2 DEF Resident
  <2>5. S # <<>>
    BY <2>1, ListEmpty
  <2>6. Len(A) = ActiveListSize
    BY <1>1, <2>5 DEF Resident
  <2> QED BY <2>1, <2>2, <2>3, <2>4, <2>6, IInvFacts, SMTT(30) DEF Elements
<1>5. CASE /\ p \notin ToSet(A) /\ (A = <<>> \/ p \notin ToSet(S))
           /\ UNCHANGED <<wsvars, mapped, present, modified>>
  <2>1. /\ ActiveList' = A /\ SecondList' = S /\ PageWorkingSetList' = PageWorkingSetList
        /\ mapped' = mapped /\ present' = present /\ modified' = modified
    BY <1>5 DEF wsvars
  <2>2. p \notin ToSet(S)
    <3> SUFFICES ASSUME p \in ToSet(S) PROVE FALSE
      OBVIOUS
    <3>1. A = <<>> /\ S # <<>>
      BY <1>5, ListEmpty
    <3>2. Len(A) = ActiveListSize /\ Len(A) = 0
      BY <1>1, <3>1, ListEmpty DEF Resident
    <3> QED BY <3>2, IInvFacts
  <2>3. p \notin mapped
    BY <1>1, <1>5, <2>2 DEF Resident
  <2>4. mapped' = mapped \ {p} /\ ToSet(A) \cup ToSet(S) = mapped \ {p}
    BY <1>1, <2>1, <2>3 DEF Resident
  <2>5. /\ present = ToSet(A) /\ ListPair(A, S)
        /\ (S # <<>> => Len(A) = ActiveListSize)
    BY <1>1 DEF Resident, IInv
  <2>6. /\ Len(A) <= ActiveListSize /\ Len(S) <= SecondListSize
        /\ PageWorkingSetList \in Nat
        /\ PageWorkingSetList + Len(A) + Len(S) = Elements
    BY IInvFacts DEF Elements
  <2> QED BY <1>5, <2>1, <2>4, <2>5, <2>6
<1> QED BY <1>2, <1>3, <1>4, <1>5 DEF FreeResident

\* One round of freeMem, or its end: the tables that are removed hold no page.
LEMMA FreeMemStep ==
  ASSUME IInv, freeMem
  PROVE  IInv' /\ ElementsLostByFree
<1> DEFINE p == kcall.va + kcall.i
<1>0. kcall # NONE /\ kcall.op = "freeMem"
  BY DEF freeMem
<1>1. /\ ActiveListSize' = ActiveListSize /\ SecondListSize' = SecondListSize
      /\ insn' = insn /\ reg' = reg /\ mode' = mode
  BY DEF freeMem, sizes
<1>2. /\ mode = "run" /\ insn = NONE /\ Resident /\ kcall.i \in Nat /\ kcall.n \in Nat
      /\ kcall \in [op : {"allocateMem", "freeMem"}, va : Heap, n : Nat, i : Nat, room : Nat]
      /\ kcall.i < kcall.n => p \in Heap /\ p \in Pages
  BY <1>0, LoopFacts
<1>3. CASE /\ kcall.i < kcall.n
           /\ FreeResident(p) /\ pf' = pf \ {p} /\ disk' = Keep(disk, pf \ {p})
           /\ frame' = Keep(frame, mapped') /\ NextPage(0) /\ UNCHANGED tables
  <2>0. p \in Heap /\ p \in Pages /\ p \notin Image /\ p # StackTop
    BY <1>2, <1>3, PageFacts
  <2>a. FreesActive <=> p \in ToSet(ActiveList)
    BY <1>0, <1>3 DEF FreesActive
  <2>b. NextPage(0)
    BY <1>3
  <2>c. /\ kcall' \in [op : {"allocateMem", "freeMem"}, va : Heap, n : Nat, i : Nat, room : Nat]
        /\ kcall'.i = kcall.i + 1 /\ kcall'.n = kcall.n /\ kcall'.va = kcall.va
    BY <1>2, <2>b, NextPageStep
  <2> HIDE DEF p
  <2>1. /\ ListPair(ActiveList', SecondList')
        /\ ToSet(ActiveList') \cup ToSet(SecondList') = mapped \ {p}
        /\ mapped' = mapped \ {p}
        /\ modified \ {p} \subseteq modified' /\ modified' \subseteq modified
        /\ present' = ToSet(ActiveList')
        /\ Len(ActiveList') <= ActiveListSize /\ Len(SecondList') <= SecondListSize
        /\ SecondList' # <<>> => Len(ActiveList') = ActiveListSize
        /\ PageWorkingSetList' \in Nat
        /\ PageWorkingSetList' + Len(ActiveList') + Len(SecondList')
             = IF p \in ToSet(ActiveList) THEN Elements - 1 ELSE Elements
    BY <1>2, <1>3, <2>0, FreeResidentStep
  <2>2. /\ ActiveList' \in Seq(Pages) /\ SecondList' \in Seq(Pages)
        /\ Len(ActiveList') \in Nat /\ Len(SecondList') \in Nat
        /\ ToSet(ActiveList') \subseteq Pages
    BY <2>1, PairFacts
  <2>3. /\ frame \in [Pages -> Contents] /\ disk \in [Pages -> Contents]
        /\ pf \subseteq Pages /\ modified \subseteq Pages /\ mapped \subseteq Pages
    BY IInvFacts DEF TypeOK
  <2>4. /\ frame' \in [Pages -> Contents] /\ disk' \in [Pages -> Contents]
        /\ \A q \in mapped' : frame'[q] = frame[q]
        /\ \A q \in pf' : disk'[q] = disk[q]
    BY <1>3, <2>1, <2>3, KeepFacts
  <2>5. TypeOK'
    BY <1>1, <1>3, <2>1, <2>2, <2>3, <2>4, <2>c, IInvFacts DEF TypeOK, sizes
  <2>6. /\ \A q \in mapped' : Backed(q)'
        /\ Image \subseteq pf'
        /\ \A q \in mapped' \ modified' : frame'[q] = disk'[q]
    BY <1>2, <1>3, <2>0, <2>1, <2>4 DEF Resident, Backed
  <2>7. \A q \in mapped' : PDX(q) \in tables'
    BY <1>2, <1>3, <2>1 DEF Resident
  <2>8. Resident'
    BY <1>1, <2>1, <2>6, <2>7 DEF Resident, Backed, Image, PDX
  <2>9. Unplaced' = {}
    BY <2>1 DEF Unplaced
  <2>10. Control'
    BY <1>0, <1>1, <1>2, <1>3, <2>c DEF IInv, Control
  <2>11. ListPair(ActiveList, SecondList)'
    BY <2>1 DEF ListPair
  <2>12. PageWorkingSetList' + Len(ActiveList') + Len(SecondList') <= Elements
    BY <2>1, IInvFacts
  <2>13. Sized(ActiveList, SecondList, PageWorkingSetList)'
    BY <1>1, <2>1, <2>2, <2>12, IInvFacts, SMTT(30) DEF Sized, page_WS_max_size, Elements
  <2>14. ElementsLostByFree
    BY <2>1, <2>2, <2>a DEF ElementsLostByFree, Elements
  <2> QED BY <2>5, <2>8, <2>9, <2>10, <2>11, <2>13, <2>14 DEF IInv
<1>4. CASE /\ kcall.i = kcall.n
           /\ tables' = tables \ FreedTables(kcall.va, kcall.n)
           /\ kcall' = NONE
           /\ UNCHANGED <<wsvars, ptvars, pfvars>>
  <2>1. UNCHANGED <<sizes, wsvars, ptvars, pfvars>>
    BY <1>1, <1>4 DEF sizes
  <2>2. TypeOK' /\ Control'
    BY <1>1, <1>2, <1>4, <2>1, IInvFacts DEF Control, TypeOK, sizes, wsvars, ptvars, pfvars
  <2>3. \A q \in mapped : PDX(q) \in tables'
    BY <1>2, <1>4 DEF Resident, FreedTables
  <2> QED BY <1>2, <1>4, <2>1, <2>2, <2>3, ControlStep
<1> QED BY <1>3, <1>4 DEF freeMem

\* The environment is freed: what is left is what no list held.
LEMMA EnvFreeStep ==
  ASSUME IInv, env_free
  PROVE  IInv' /\ ElementsLostByFree
<1> DEFINE listed == ToSet(ActiveList) \cup ToSet(SecondList)
<1>1. /\ kcall = NONE /\ ActiveList' = <<>> /\ SecondList' = <<>>
      /\ PageWorkingSetList' = PageWorkingSetList + Len(ActiveList) + Len(SecondList)
      /\ mapped' = mapped \ listed /\ present' = present \ listed
      /\ modified' = modified \ listed /\ frame' = Keep(frame, mapped \ listed)
      /\ tables' = {} /\ pf' = {} /\ disk' = Keep(disk, {})
      /\ mode' = "freed" /\ insn' = NONE /\ kcall' = kcall /\ reg' = reg
      /\ ActiveListSize' = ActiveListSize /\ SecondListSize' = SecondListSize
  BY DEF env_free, sizes
<1>2. /\ IsList(ActiveList', Pages) /\ IsList(SecondList', Pages)
      /\ ToSet(ActiveList') = {} /\ ToSet(SecondList') = {}
      /\ Len(ActiveList') = 0 /\ Len(SecondList') = 0
  BY <1>1, ListEmpty
<1>3. frame \in [Pages -> Contents] /\ disk \in [Pages -> Contents]
  BY IInvFacts DEF TypeOK
<1>4. frame' \in [Pages -> Contents] /\ disk' \in [Pages -> Contents]
  BY <1>1, <1>3, KeepFacts
<1>5. PageWorkingSetList' \in Nat
  BY <1>1, IInvFacts
<1>6. TypeOK'
  BY <1>1, <1>2, <1>4, <1>5, IInvFacts DEF TypeOK, sizes, IsList
<1>7. Control'
  BY <1>1 DEF Control
<1>8. ListPair(ActiveList, SecondList)'
  BY <1>2 DEF ListPair
<1>9. Sized(ActiveList, SecondList, PageWorkingSetList)'
  BY <1>1, <1>2, IInvFacts DEF Sized, page_WS_max_size
<1>10. Unplaced' = Unplaced
  BY <1>1, <1>2 DEF Unplaced
<1>11. ElementsLostByFree
  BY <1>1 DEF ElementsLostByFree
<1> QED BY <1>1, <1>6, <1>7, <1>8, <1>9, <1>10, <1>11 DEF IInv, Image

\* env_create establishes the invariant, whatever the sizes of the lists.
LEMMA InitIInv ==
  ASSUME Init
  PROVE  IInv
<1>1. /\ sizes \in ListSizes
      /\ insn = NONE /\ kcall = NONE /\ reg = LOADED /\ mode = "run"
  <2>1. PICK sz \in ListSizes : ActiveListSize = sz[1] /\ SecondListSize = sz[2]
    BY DEF Init
  <2>2. sz = <<sz[1], sz[2]>>
    BY SizesAssumption
  <2> QED BY <2>1, <2>2 DEF Init, sizes
<1>2. ActiveListSize \in Nat \ {0} /\ SecondListSize \in Nat
  BY <1>1, SizeFacts
<1>3. PICK n \in 0..Len(Code) : env_create(n)
  BY DEF Init
<1> DEFINE k == IF n < ActiveListSize - 1 THEN n ELSE ActiveListSize - 1
           act == SubSeq(Code, 1, k)
           sec == SubSeq(Code, k + 1, n)
<1>4. IsList(Code, Pages) /\ Len(Code) \in Nat /\ StackTop \notin ToSet(Code)
  BY PagesAssumption DEF IsList, NoDup
<1>5. n \in Nat /\ k \in Nat /\ k <= n /\ k + 1 \in Nat /\ n <= Len(Code) /\ k <= Len(Code)
  BY <1>2, <1>3, <1>4
<1>6. /\ IsList(act, Pages) /\ Len(act) = k /\ ToSet(act) = {Code[i] : i \in 1..k}
  BY <1>4, <1>5, ListPart
<1>7. /\ IsList(sec, Pages) /\ Len(sec) = n - k /\ ToSet(sec) = {Code[i] : i \in (k+1)..n}
  <2>1. /\ IsList(sec, Pages) /\ ToSet(sec) = {Code[i] : i \in (k+1)..n}
        /\ Len(sec) = IF k + 1 <= n THEN (n - (k + 1)) + 1 ELSE 0
    BY <1>4, <1>5, ListPart
  <2> HIDE DEF k, sec
  <2> QED BY <1>5, <2>1
<1>8. /\ ActiveList = <<StackTop>> \o Reverse(act) /\ SecondList = Reverse(sec)
      /\ n <= page_WS_max_size - 1
      /\ PageWorkingSetList = page_WS_max_size - (n + 1)
      /\ mapped = ToSet(ActiveList) \cup ToSet(SecondList)
      /\ present = ToSet(ActiveList) /\ modified = {StackTop}
      /\ frame = [p \in Pages |-> IF p \in mapped THEN LOADED ELSE GARBAGE]
      /\ Image \subseteq pf /\ pf \subseteq Image \cup {StackTop}
      /\ disk = [p \in Pages |-> IF p \in pf THEN LOADED ELSE GARBAGE]
      /\ tables = {PDX(p) : p \in mapped}
  BY <1>3, <1>6 DEF env_create, Image
<1>9. n < ActiveListSize - 1 \/ k = ActiveListSize - 1
  OBVIOUS
<1>10. k <= ActiveListSize - 1 /\ n - k <= SecondListSize /\ (n - k > 0 => k + 1 = ActiveListSize)
  BY <1>2, <1>5, <1>8 DEF page_WS_max_size
<1>11. ToSet(act) \subseteq ToSet(Code) /\ ToSet(sec) \subseteq ToSet(Code)
       /\ ToSet(act) \cap ToSet(sec) = {}
  <2>1. \A i \in 1..k : i \in 1..Len(Code)
    BY <1>4, <1>5
  <2>2. \A i \in (k+1)..n : i \in 1..Len(Code)
    BY <1>4, <1>5
  <2>3. \A i \in 1..k, j \in (k+1)..n : i # j
    BY <1>5
  <2>4. DOMAIN Code = 1..Len(Code) /\ \A i, j \in 1..Len(Code) : Code[i] = Code[j] => i = j
    BY PagesAssumption
  <2>5. \A i \in 1..Len(Code) : Code[i] \in ToSet(Code)
    BY <2>4 DEF ToSet
  <2> HIDE DEF k, act, sec
  <2>6. ToSet(act) \subseteq ToSet(Code) /\ ToSet(sec) \subseteq ToSet(Code)
    BY <1>6, <1>7, <2>1, <2>2, <2>5
  <2>7. \A i \in 1..k, j \in (k+1)..n : Code[i] # Code[j]
    BY <2>1, <2>2, <2>3, <2>4
  <2> QED BY <1>6, <1>7, <2>6, <2>7
<1> HIDE DEF k, act, sec
<1>12. /\ IsList(Reverse(act), Pages) /\ ToSet(Reverse(act)) = ToSet(act) /\ Len(Reverse(act)) = k
  BY <1>6, ListReverse
<1>13. /\ IsList(SecondList, Pages) /\ ToSet(SecondList) = ToSet(sec) /\ Len(SecondList) = n - k
  BY <1>7, <1>8, ListReverse
<1>14. StackTop \in Pages /\ StackTop \notin ToSet(act) /\ StackTop \notin ToSet(sec)
  BY <1>4, <1>11, PageFacts
<1>15. /\ IsList(ActiveList, Pages) /\ ToSet(ActiveList) = ToSet(act) \cup {StackTop}
       /\ Len(ActiveList) = k + 1
  BY <1>8, <1>12, <1>14, ListInsertHead
<1>16. ListPair(ActiveList, SecondList)
  BY <1>11, <1>13, <1>14, <1>15 DEF ListPair
<1>17. Sized(ActiveList, SecondList, PageWorkingSetList) /\ PageWorkingSetList \in Nat
  BY <1>2, <1>5, <1>8, <1>10, <1>13, <1>15 DEF Sized, page_WS_max_size
<1>18. mapped \subseteq Image \cup {StackTop} /\ mapped \subseteq Pages /\ present \subseteq Pages
  BY <1>8, <1>11, <1>13, <1>15, PageFacts DEF Image
<1>19. /\ frame \in [Pages -> Contents] /\ disk \in [Pages -> Contents]
       /\ \A p \in mapped \ modified : frame[p] = disk[p]
       /\ \A p \in mapped : Backed(p)
  BY <1>8, <1>18 DEF Contents, Backed
<1>20. SecondList # <<>> => Len(ActiveList) = ActiveListSize
  <2>1. SecondList # <<>> => Len(SecondList) > 0
    BY <1>13 DEF IsList
  <2> QED BY <2>1, <1>10, <1>13, <1>15
<1>21. Resident
  BY <1>8, <1>18, <1>19, <1>20 DEF Resident
<1>22. TypeOK
  BY <1>1, <1>8, <1>13, <1>14, <1>15, <1>17, <1>18, <1>19, PageFacts DEF TypeOK, IsList, Contents
<1>23. Control
  BY <1>1 DEF Control
<1>24. Unplaced = {}
  BY <1>8 DEF Unplaced
<1> QED BY <1>16, <1>17, <1>21, <1>22, <1>23, <1>24 DEF IInv

\* No step of the program or of the kernel leaves the invariant.
LEMMA NextIInv ==
  ASSUME IInv, [Next]_vars
  PROVE  IInv' /\ (vars' # vars => ElementsLostByFree)
<1>1. CASE UNCHANGED vars
  <2>1. /\ ActiveListSize' = ActiveListSize /\ SecondListSize' = SecondListSize
        /\ ActiveList' = ActiveList /\ SecondList' = SecondList
        /\ PageWorkingSetList' = PageWorkingSetList /\ mapped' = mapped
        /\ present' = present /\ modified' = modified /\ frame' = frame
        /\ pf' = pf /\ disk' = disk /\ tables' = tables /\ insn' = insn
        /\ kcall' = kcall /\ reg' = reg /\ mode' = mode
    BY <1>1 DEF vars
  <2>2. TypeOK' /\ Control'
    BY <2>1 DEF IInv, TypeOK, Control, sizes
  <2>3. ListPair(ActiveList, SecondList)' /\ Sized(ActiveList, SecondList, PageWorkingSetList)'
    BY <2>1 DEF IInv, Sized, ListPair, page_WS_max_size
  <2>4. mode' = "run" => Resident'
    BY <2>1 DEF IInv, Resident, Backed, Image, PDX
  <2>5. Unplaced' = Unplaced
    BY <2>1 DEF Unplaced
  <2> QED BY <1>1, <2>2, <2>3, <2>4, <2>5 DEF IInv, Image
<1>2. CASE \E c \in ToSet(Code), p \in Pages, op \in Values \cup {"load"} : Issue(c, p, op)
  BY <1>2, IssueStep
<1>3. CASE Execute
  BY <1>3, ExecuteStep
<1>4. CASE \E p \in Pages : table_fault_handler(p) \/ page_fault_handler(p)
  BY <1>4, TableFaultStep, PageFaultStep
<1>5. CASE \E op \in {"allocateMem", "freeMem"}, va \in Heap, n \in 1..Cardinality(Heap) :
             \E room \in 0..n : SysCall(op, va, n, room)
  BY <1>5, SysCallStep
<1>6. CASE allocateMem
  BY <1>6, AllocateStep
<1>7. CASE freeMem
  BY <1>7, FreeMemStep
<1>8. CASE env_free
  BY <1>8, EnvFreeStep
<1>9. CASE Ended
  BY <1>1, <1>9 DEF Ended
<1> QED BY <1>1, <1>2, <1>3, <1>4, <1>5, <1>6, <1>7, <1>8, <1>9 DEF Next

-----------------------------------------------------------------------------
(* The theorems *)

\* The inductive invariant holds in every state.
THEOREM Invariance == Spec => []IInv
<1>1. IInv /\ [Next]_vars => IInv'
  BY NextIInv
<1> QED BY InitIInv, <1>1, PTL DEF Spec

\* Every variable keeps its type: contents stay contents, the lists lists of
\* pages, and a loop of allocateMem or freeMem a loop over pages of the heap.
THEOREM TypeCorrect == Spec => []TypeOK
<1>1. IInv => TypeOK
  BY DEF IInv
<1> QED BY <1>1, Invariance, PTL

\* Faults, swaps, evictions, frees and panics keep the two lists, the page
\* table and the page tables that exist in step, within the sizes of the lists.
THEOREM WorkingSetKept == Spec => []WorkingSetConsistent
<1>1. ASSUME IInv PROVE WorkingSetConsistent
  <2>1. ListsMatchPageTable
    <3> SUFFICES ASSUME mode = "run" PROVE ListsMatchPageTable
      BY DEF ListsMatchPageTable
    <3>1. Resident /\ IsList(ActiveList, Pages) /\ IsList(SecondList, Pages)
          /\ ToSet(ActiveList) \cap ToSet(SecondList) = {}
      BY <1>1, IInvFacts
    <3>2. /\ IsFiniteSet(ToSet(ActiveList)) /\ Cardinality(ToSet(ActiveList)) = Len(ActiveList)
          /\ IsFiniteSet(ToSet(SecondList)) /\ Cardinality(ToSet(SecondList)) = Len(SecondList)
      BY <3>1, ListCardinality
    <3>3. Cardinality(ToSet(ActiveList) \cup ToSet(SecondList))
            = Cardinality(ToSet(ActiveList)) + Cardinality(ToSet(SecondList))
      <4> DEFINE A == ToSet(ActiveList)
                 S == ToSet(SecondList)
      <4>1. IsFiniteSet(A) /\ IsFiniteSet(S) /\ A \cap S = {}
        BY <3>1, <3>2
      <4> HIDE DEF A, S
      <4>2. Cardinality(A \cup S) = Cardinality(A) + Cardinality(S) - Cardinality({})
        BY <4>1, FS_Union
      <4>3. Cardinality({}) = 0 /\ Cardinality(A) \in Nat /\ Cardinality(S) \in Nat
        BY <4>1, FS_EmptySet, FS_CardinalityType
      <4>4. Cardinality(A \cup S) = Cardinality(A) + Cardinality(S)
        BY <4>2, <4>3
      <4> QED BY <4>4 DEF A, S
    <3> QED BY <3>1, <3>2, <3>3 DEF ListsMatchPageTable, Resident
  <2>2. SizesKept
    BY <1>1, IInvFacts DEF SizesKept, Resident, page_WS_max_size
  <2>3. ResidentHasTable
    BY <1>1, IInvFacts DEF ResidentHasTable, Resident
  <2> QED BY <2>1, <2>2, <2>3 DEF WorkingSetConsistent
<1> QED BY <1>1, Invariance, PTL

\* Replace may drop a page that is not modified: the page file has its content,
\* even when it had no room for the stack page of env_create.
THEOREM CleanOnDisk == Spec => []CleanPagesAreOnDisk
<1>1. IInv => CleanPagesAreOnDisk
  BY DEF IInv, CleanPagesAreOnDisk, Resident, Backed
<1> QED BY <1>1, Invariance, PTL

\* No step loses an element of the working set but a round of freeMem on an
\* active page, and env_free leaves at most the frame of one page that
\* Placement never placed.
THEOREM LossesKnown == Spec => LossesAreKnown
<1>1. ASSUME IInv PROVE FreeKeepsOnlyUnplaced
  <2> SUFFICES ASSUME mode = "freed" PROVE FreeKeepsOnlyUnplaced
    BY DEF FreeKeepsOnlyUnplaced
  <2>1. ActiveList = <<>> /\ SecondList = <<>>
    BY <1>1 DEF IInv, Control
  <2>2. Unplaced = mapped
    BY <2>1, ListEmpty DEF Unplaced
  <2>3. (\A x, y \in mapped : x = y) /\ mapped \cap Image = {}
    BY <1>1, <2>2 DEF IInv
  <2>4. Cardinality(mapped) <= 1
    <3>1. CASE mapped = {}
      BY <3>1, FS_EmptySet
    <3>2. CASE mapped # {}
      <4>1. PICK x : mapped = {x}
        BY <2>3, <3>2
      <4> QED BY <4>1, FS_Singleton
    <3> QED BY <3>1, <3>2
  <2> QED BY <2>3, <2>4 DEF FreeKeepsOnlyUnplaced, Image
<1>2. ASSUME IInv, [Next]_vars
      PROVE  [ElementsLostByFree /\ FreeKeepsOnlyUnplaced']_vars
  <2>1. IInv' => FreeKeepsOnlyUnplaced'
    BY <1>1, PTL
  <2> QED BY <1>2, <2>1, NextIInv
<1>3. IInv /\ [Next]_vars => [ElementsLostByFree /\ FreeKeepsOnlyUnplaced']_vars
  BY <1>2
<1> QED BY <1>3, Invariance, PTL DEF Spec, LossesAreKnown

-----------------------------------------------------------------------------
(* LRUPaging implements VirtualMemory: whatever the fault handler moves    *)
(* between frames and the page file, the program finds in a page what it   *)
(* stored there last.  The memory that the program sees is a function of   *)
(* the page table, the frames and the page file (the refinement mapping VM *)
(* of LRUPaging).  Every action is shown to change it as one action of     *)
(* VirtualMemory does, or not at all; the invariant says that a page that  *)
(* is not modified can be read back from the page file.                    *)

\* The refinement mapping: what the program finds in each page, and the pages
\* that have no disk frame.
Mem == [p \in Pages |-> IF p \in Listed THEN frame[p]
                        ELSE IF p \in pf THEN disk[p] ELSE NOPAGE]

Unsaved == Listed \ pf

\* A step as VirtualMemory allows it.
Simulated == [VM!Next]_(VM!vars)

-----------------------------------------------------------------------------
(* The steps of VirtualMemory, in terms of the mapping *)

\* Memory is equal when every page is.
LEMMA MemEqual ==
  ASSUME \A q \in Pages : Mem'[q] = Mem[q]
  PROVE  Mem' = Mem
BY DEF Mem

\* The content of a page before and after a step.
LEMMA MemFacts ==
  \A q \in Pages :
    /\ Mem[q] = IF q \in Listed THEN frame[q] ELSE IF q \in pf THEN disk[q] ELSE NOPAGE
    /\ Mem'[q] = IF q \in Listed' THEN frame'[q]
                 ELSE IF q \in pf' THEN disk'[q] ELSE NOPAGE
BY DEF Mem

\* The program notices nothing.
LEMMA StutterSimulated ==
  ASSUME Mem' = Mem, Unsaved' = Unsaved, reg' = reg, mode' = mode
  PROVE  Simulated
BY DEF Simulated, VM!vars, Mem, Unsaved

\* Memory without the pages of lost.
Without(lost) == [q \in Pages |-> IF q \in lost THEN NOPAGE ELSE Mem[q]]

\* Pages without a disk frame are lost, or none is.
LEMMA LoseSimulated ==
  ASSUME NEW lost \in SUBSET Unsaved, Mem' = Without(lost), Unsaved' = Unsaved \ lost,
         reg' = reg, mode = "run", mode' = mode
  PROVE  Simulated
<1>1. VM!Lose(lost)
  BY DEF VM!Lose, VM!Lost, Without, Mem, Unsaved
<1> QED BY <1>1 DEF Simulated, VM!Next, Unsaved

\* The environment is stopped, with its memory as it is but for those pages.
LEMMA StopSimulated ==
  ASSUME NEW lost \in SUBSET Unsaved, Mem' = Without(lost), Unsaved' = Unsaved \ lost,
         reg' = reg, mode = "run", mode' # "run"
  PROVE  Simulated
<1>1. VM!Stop(lost)
  BY DEF VM!Stop, VM!Lost, Without, Mem, Unsaved
<1> QED BY <1>1 DEF Simulated, VM!Next, Unsaved

\* The environment is stopped and nothing is lost.
LEMMA PlainStopSimulated ==
  ASSUME Mem' = Mem, Unsaved' = Unsaved, reg' = reg, mode = "run", mode' # "run"
  PROVE  Simulated
<1>1. Mem' = Without({})
  BY DEF Without, Mem
<1> QED BY <1>1, StopSimulated

\* A page that did not exist appears, its content unspecified.
LEMMA AppearSimulated ==
  ASSUME NEW p \in Stack \cup Heap, NEW lost \in SUBSET Unsaved, Mem[p] = NOPAGE,
         mode = "run", mode' = "run", reg' = reg,
         Mem' = [Without(lost) EXCEPT ![p] = GARBAGE], Unsaved' = Unsaved \ lost
  PROVE  Simulated
<1>1. VM!Appear(p, lost)
  BY DEF VM!Appear, VM!Exists, VM!Lost, Without, Mem, Unsaved
<1> QED BY <1>1, PageFacts DEF Simulated, VM!Next, Unsaved

\* A page is given up.
LEMMA ReleaseSimulated ==
  ASSUME NEW p \in Heap, mode = "run", mode' = "run", reg' = reg, Unsaved' = Unsaved,
         Mem' = [Mem EXCEPT ![p] = NOPAGE]
  PROVE  Simulated
<1>1. VM!Release(p)
  BY DEF VM!Release, Mem, Unsaved
<1> QED BY <1>1, PageFacts DEF Simulated, VM!Next

\* A page that is resident can be loaded from.
LEMMA LoadSimulated ==
  ASSUME NEW p \in Pages, Mem[p] # NOPAGE, mode = "run", mode' = "run",
         reg' = Mem[p], Mem' = Mem, Unsaved' = Unsaved
  PROVE  Simulated
<1>1. VM!Load(p)
  BY DEF VM!Load, VM!Exists, Mem, Unsaved
<1> QED BY <1>1 DEF Simulated, VM!Next

\* And stored to.
LEMMA StoreSimulated ==
  ASSUME NEW p \in Pages, NEW v \in Values, Mem[p] # NOPAGE, mode = "run", mode' = "run",
         reg' = reg, Mem' = [Mem EXCEPT ![p] = v], Unsaved' = Unsaved
  PROVE  Simulated
<1>1. VM!Store(p, v)
  BY DEF VM!Store, VM!Exists, Mem, Unsaved
<1> QED BY <1>1 DEF Simulated, VM!Next

\* The environment is freed with all its pages.
LEMMA ReclaimSimulated ==
  ASSUME Mem' = [p \in Pages |-> NOPAGE], Unsaved' = {}, mode' = "freed", reg' = reg
  PROVE  Simulated
<1>1. VM!Reclaim
  BY DEF VM!Reclaim, Mem, Unsaved
<1> QED BY <1>1 DEF Simulated, VM!Next

-----------------------------------------------------------------------------
(* The actions *)

\* While the environment runs, the pages in the lists are those with a frame.
LEMMA ListedMapped ==
  ASSUME IInv, mode = "run"
  PROVE  Listed = mapped
BY IInvFacts DEF Listed, Resident

\* A step that leaves the lists and contents alone.
LEMMA SameMemory ==
  ASSUME ActiveList' = ActiveList, SecondList' = SecondList, frame' = frame,
         pf' = pf, disk' = disk
  PROVE  Mem' = Mem /\ Unsaved' = Unsaved
BY DEF Mem, Unsaved, Listed

\* A resident page exists and its content is that of its frame.
LEMMA ResidentExists ==
  ASSUME IInv, mode = "run", NEW p \in mapped
  PROVE  p \in Pages /\ p \in Listed /\ Mem[p] = frame[p] /\ Mem[p] # NOPAGE
<1>1. mapped \subseteq Pages /\ frame \in [Pages -> Contents]
  BY IInvFacts DEF TypeOK
<1>2. p \in Pages /\ p \in Listed
  BY <1>1, ListedMapped
<1>3. Mem[p] = frame[p] /\ frame[p] \in Contents
  BY <1>1, <1>2 DEF Mem
<1> QED BY <1>2, <1>3, ContentsAssumption DEF Contents

\* A load returns, and a store changes, the content of the page it names.
LEMMA ExecuteSimulated ==
  ASSUME IInv, Execute
  PROVE  Simulated
<1> DEFINE p == insn.data
<1>1. /\ mode = "run" /\ mode' = mode /\ pf' = pf /\ disk' = disk
      /\ ActiveList' = ActiveList /\ SecondList' = SecondList
      /\ insn # NONE /\ p \in present
  BY DEF Execute, Running, pfvars, wsvars
<1>2. p \in mapped /\ insn.op \in Values \cup {"load"}
  BY <1>1, IInvFacts DEF Resident, TypeOK
<1>3. p \in Pages /\ p \in Listed /\ Mem[p] = frame[p] /\ Mem[p] # NOPAGE
  BY <1>1, <1>2, ResidentExists
<1>4. Listed' = Listed /\ Unsaved' = Unsaved
  BY <1>1 DEF Listed, Unsaved
<1>5. CASE insn.op = "load"
  <2>1. reg' = frame[p] /\ frame' = frame
    BY <1>5 DEF Execute
  <2>2. Mem' = Mem
    BY <1>1, <2>1, SameMemory
  <2> QED BY <1>1, <1>3, <1>4, <2>1, <2>2, LoadSimulated
<1>6. CASE insn.op # "load"
  <2>1. frame' = [frame EXCEPT ![p] = insn.op] /\ reg' = reg
    BY <1>6 DEF Execute
  <2>2. insn.op \in Values /\ frame \in [Pages -> Contents]
    BY <1>2, <1>6, IInvFacts DEF TypeOK
  <2> HIDE DEF p
  <2>3. Mem' = [Mem EXCEPT ![p] = insn.op]
    BY <1>1, <1>3, <1>4, <2>1, <2>2 DEF Mem
  <2> QED BY <1>1, <1>3, <1>4, <2>1, <2>2, <2>3, StoreSimulated
<1> QED BY <1>5, <1>6

\* The caller of Placement has moved no content: a page is found in its frame
\* or in the page file, where Replace has written the victim back, unless it
\* had no disk frame.
Preserved(map, dsk) ==
  \A q \in Pages \ (Unsaved \ map) :
    Mem[q] = IF q \in map THEN frame[q] ELSE IF q \in pf THEN dsk[q] ELSE NOPAGE

\* Placement reads the page back, makes a page of the stack appear, or stops
\* the environment.
LEMMA PlacementSimulated ==
  ASSUME IInv, mode = "run",
         NEW p, NEW act, NEW sec, NEW ws, NEW map, NEW pres, NEW dsk,
         Room(p, act, sec, ws, map, pres, dsk), Preserved(map, dsk),
         map \subseteq Listed, p \notin Listed,
         Placement(p, act, sec, ws, map, pres, dsk)
  PROVE  Simulated
<1> DEFINE keep == Keep(frame, map)
           lost == Unsaved \ map
<1>1. /\ p \in Pages /\ p \notin map /\ dsk \in [Pages -> Contents]
      /\ map = ToSet(act) \cup ToSet(sec) /\ pres = ToSet(act) /\ ListPair(act, sec)
      /\ sizes \in ListSizes
  BY IInvFacts DEF Room
<1>2. /\ keep \in [Pages -> Contents]
      /\ \A q \in Pages : keep[q] = IF q \in map THEN frame[q] ELSE GARBAGE
  BY IInvFacts, KeepFacts DEF TypeOK
<1>3. /\ \A q \in Pages : Without(lost)[q]
             = IF q \in map THEN frame[q] ELSE IF q \in pf THEN dsk[q] ELSE NOPAGE
      /\ lost \in SUBSET Unsaved /\ p \notin lost /\ Mem[p] = Without(lost)[p]
      /\ Unsaved \ lost = map \ pf
  BY <1>1 DEF Preserved, Without, Unsaved
<1> HIDE DEF keep, lost
<1>4. ASSUME /\ ActiveList' = act /\ SecondList' = sec
             /\ disk' = dsk /\ frame' = keep /\ pf' = pf /\ Stop("exited")
      PROVE  Simulated
  <2>1. Listed' = map
    BY <1>1, <1>4 DEF Listed
  <2>2. \A q \in Pages : Mem'[q] = Without(lost)[q]
    BY <1>2, <1>3, <1>4, <2>1, MemFacts
  <2>3. Mem' = Without(lost) /\ Unsaved' = Unsaved \ lost
    BY <1>3, <1>4, <2>1, <2>2 DEF Mem, Without, Unsaved
  <2>4. reg' = reg /\ mode' = "exited"
    BY <1>4 DEF Stop
  <2> QED BY <1>3, <2>3, <2>4, StopSimulated
<1>5. InsertActive(p, act, sec, pres) => Listed' = map \cup {p}
  <2>1. ASSUME InsertActive(p, act, sec, pres)
        PROVE  ToSet(ActiveList') \cup ToSet(SecondList') = ToSet(act) \cup ToSet(sec) \cup {p}
    BY <1>1, <2>1, InsertStep DEF Room
  <2> QED BY <1>1, <2>1 DEF Listed
<1>6. CASE /\ p \in pf /\ InsertActive(p, act, sec, pres) /\ disk' = dsk /\ pf' = pf
           /\ frame' = [keep EXCEPT ![p] = dsk[p]] /\ Resume
  <2>1. frame'[p] = dsk[p] /\ \A q \in Pages \ {p} : frame'[q] = keep[q]
    BY <1>1, <1>2, <1>6
  <2>2. \A q \in Pages : Mem'[q] = Without(lost)[q]
    BY <1>1, <1>2, <1>3, <1>5, <1>6, <2>1, MemFacts
  <2>3. Mem' = Without(lost) /\ Unsaved' = Unsaved \ lost
    BY <1>3, <1>5, <1>6, <2>2 DEF Mem, Without, Unsaved
  <2>4. reg' = reg /\ mode' = mode
    BY <1>6 DEF Resume
  <2> QED BY <1>3, <2>3, <2>4, LoseSimulated
<1>7. CASE /\ p \notin pf /\ p \in Stack /\ InsertActive(p, act, sec, pres)
           /\ frame' = keep /\ pf' = pf \cup {p}
           /\ disk' = [dsk EXCEPT ![p] = GARBAGE] /\ Resume
  <2>1. \A q \in Pages \ {p} : disk'[q] = dsk[q]
    BY <1>1, <1>7
  <2>2. Mem'[p] = GARBAGE /\ \A q \in Pages \ {p} : Mem'[q] = Without(lost)[q]
    BY <1>1, <1>2, <1>3, <1>5, <1>7, <2>1, MemFacts
  <2>3. Mem' = [Without(lost) EXCEPT ![p] = GARBAGE] /\ Unsaved' = Unsaved \ lost
    BY <1>1, <1>3, <1>5, <1>7, <2>2 DEF Mem, Without, Unsaved
  <2>4. Mem[p] = NOPAGE
    BY <1>1, <1>3, <1>7
  <2>5. reg' = reg /\ mode' = "run"
    BY <1>7 DEF Resume
  <2> QED BY <1>3, <1>7, <2>3, <2>4, <2>5, AppearSimulated
<1> QED BY <1>4, <1>6, <1>7 DEF Placement, keep

\* A page fault of any kind.
LEMMA PageFaultSimulated ==
  ASSUME IInv, NEW p \in Pages, page_fault_handler(p)
  PROVE  Simulated
<1>1. FaultsOn(p) /\ PDX(p) \in tables /\ mode = "run" /\ Listed = mapped
      /\ p \notin ToSet(ActiveList)
  BY FaultFacts, ListedMapped DEF page_fault_handler
<1>2. CASE p \in ToSet(SecondList) /\ SecondListHit(p)
  <2>1. /\ frame' = frame /\ pf' = pf /\ disk' = disk /\ reg' = reg
        /\ mode' = mode /\ mapped' = mapped
    BY <1>2 DEF SecondListHit, Resume, pfvars
  <2>2. IInv'
    BY PageFaultStep
  <2>3. Listed' = Listed
    <3>1. mode' = "run" => Resident'
      BY <2>2 DEF IInv
    <3> QED BY <1>1, <2>1, <3>1 DEF Resident, Listed
  <2>4. Mem' = Mem /\ Unsaved' = Unsaved
    BY <2>1, <2>3 DEF Mem, Unsaved
  <2> QED BY <2>1, <2>4, StutterSimulated
<1>3. CASE /\ p \notin ToSet(SecondList) /\ PageWorkingSetList > 0
           /\ Placement(p, ActiveList, SecondList, PageWorkingSetList, mapped, present, disk)
  <2>1. Room(p, ActiveList, SecondList, PageWorkingSetList, mapped, present, disk)
    BY <1>1, <1>3, FreeRoom
  <2>2. Preserved(mapped, disk)
    BY <1>1, MemFacts DEF Preserved
  <2>3. p \notin Listed
    BY <1>1, <1>3 DEF Listed
  <2> QED BY <1>1, <1>3, <2>1, <2>2, <2>3, PlacementSimulated
<1>4. CASE p \notin ToSet(SecondList) /\ PageWorkingSetList = 0 /\ Replace(p)
  <2>1. CASE VictimList = <<>>
    <3>1. UNCHANGED <<wsvars, ptvars, pfvars>> /\ Stop("crashed")
      BY <1>4, <2>1 DEF Replace, VictimList
    <3>2. Mem' = Mem /\ Unsaved' = Unsaved
      BY <3>1, SameMemory DEF wsvars, ptvars, pfvars
    <3>3. reg' = reg /\ mode' = "crashed"
      BY <3>1 DEF Stop
    <3> QED BY <1>1, <3>2, <3>3, PlainStopSimulated
  <2>2. CASE VictimList # <<>>
    <3>1. Placement(p, ActiveLeft, SecondLeft, 1, mapped \ {Victim}, present \ {Victim},
                    WriteBack(Victim))
      BY <1>4, <2>2 DEF Replace, VictimList, Victim, ActiveLeft, SecondLeft
    <3>2. Room(p, ActiveLeft, SecondLeft, 1, mapped \ {Victim}, present \ {Victim},
               WriteBack(Victim))
      BY <1>1, <1>4, <2>2, EvictRoom
    <3>3. Victim \in mapped /\ Victim \in Pages
      BY <1>1, <2>2, VictimFacts
    <3>4. /\ Victim \in pf => WriteBack(Victim)[Victim] = frame[Victim]
          /\ \A q \in Pages \ {Victim} : WriteBack(Victim)[q] = disk[q]
      BY <1>1, <3>3, WriteBackFacts
    <3>5. Preserved(mapped \ {Victim}, WriteBack(Victim))
      BY <1>1, <3>3, <3>4, MemFacts DEF Preserved, Unsaved
    <3>6. p \notin Listed /\ mapped \ {Victim} \subseteq Listed
      BY <1>1, <1>4 DEF Listed
    <3> QED BY <1>1, <3>1, <3>2, <3>5, <3>6, PlacementSimulated
  <2> QED BY <2>1, <2>2
<1> QED BY <1>2, <1>3, <1>4 DEF page_fault_handler

\* The creation of a page table is invisible; its failure stops the environment.
LEMMA TableFaultSimulated ==
  ASSUME IInv, NEW p \in Pages, table_fault_handler(p)
  PROVE  Simulated
<1>1. mode = "run" /\ Mem' = Mem /\ Unsaved' = Unsaved
  BY FaultFacts, SameMemory DEF table_fault_handler, wsvars, ptvars, pfvars
<1>2. reg' = reg /\ (mode' = mode \/ mode' = "exited")
  BY DEF table_fault_handler, Resume, Stop
<1> QED BY <1>1, <1>2, StutterSimulated, PlainStopSimulated

\* A round of allocateMem makes a page appear, or finds no room for it.
LEMMA AllocateSimulated ==
  ASSUME IInv, allocateMem
  PROVE  Simulated
<1> DEFINE p == kcall.va + kcall.i
<1>1. mode = "run" /\ Resident /\ (kcall.i < kcall.n => p \in Heap /\ p \in Pages)
  BY LoopFacts DEF allocateMem
<1>2. /\ ActiveList' = ActiveList /\ SecondList' = SecondList /\ frame' = frame
  BY DEF allocateMem, wsvars, ptvars
<1>3. CASE pf' = pf /\ disk' = disk
  <2>1. Mem' = Mem /\ Unsaved' = Unsaved
    BY <1>2, <1>3, SameMemory
  <2>2. reg' = reg /\ (mode' = mode \/ mode' = "exited")
    BY DEF allocateMem, Stop
  <2> QED BY <1>1, <2>1, <2>2, StutterSimulated, PlainStopSimulated
<1>4. CASE /\ kcall.i < kcall.n /\ p \notin pf
           /\ pf' = pf \cup {p} /\ disk' = [disk EXCEPT ![p] = GARBAGE]
           /\ reg' = reg /\ mode' = mode
  <2>1. p \in Pages /\ p \in Heap /\ p \notin Listed /\ disk \in [Pages -> Contents]
    BY <1>1, <1>4, IInvFacts, ListedMapped, PageFacts DEF Resident, Backed, TypeOK
  <2> HIDE DEF p
  <2>2. disk'[p] = GARBAGE /\ \A q \in Pages \ {p} : disk'[q] = disk[q]
    BY <1>4, <2>1
  <2>3. Listed' = Listed /\ Mem[p] = NOPAGE
    BY <1>2, <1>4, <2>1, MemFacts DEF Listed
  <2>4. Mem'[p] = GARBAGE /\ \A q \in Pages \ {p} : Mem'[q] = Mem[q]
    BY <1>2, <1>4, <2>1, <2>2, <2>3, MemFacts
  <2>5. Mem' = [Without({}) EXCEPT ![p] = GARBAGE] /\ Unsaved' = Unsaved \ {}
    BY <1>4, <2>1, <2>3, <2>4 DEF Mem, Without, Unsaved
  <2> QED BY <1>1, <1>4, <2>1, <2>3, <2>5, AppearSimulated
<1> QED BY <1>3, <1>4 DEF allocateMem, pfvars

\* A round of freeMem gives up one page and leaves the others alone.
LEMMA FreeMemSimulated ==
  ASSUME IInv, freeMem
  PROVE  Simulated
<1> DEFINE p == kcall.va + kcall.i
<1>1. /\ mode = "run" /\ (kcall.i < kcall.n => p \in Heap /\ p \in Pages)
      /\ reg' = reg /\ mode' = mode
  BY LoopFacts DEF freeMem
<1>2. CASE /\ kcall.i < kcall.n
           /\ FreeResident(p) /\ pf' = pf \ {p} /\ disk' = Keep(disk, pf \ {p})
           /\ frame' = Keep(frame, mapped')
  <2>0. p \in Pages /\ p \in Heap
    BY <1>1, <1>2
  <2> HIDE DEF p
  <2>1. /\ mapped' = mapped \ {p}
        /\ ToSet(ActiveList') \cup ToSet(SecondList') = mapped \ {p}
    BY <1>1, <1>2, <2>0, FreeResidentStep
  <2>2. Listed = mapped /\ Listed' = mapped' /\ p \notin Unsaved
    BY <1>1, <2>0, <2>1, ListedMapped, IInvFacts, PageFacts
       DEF Listed, Unsaved, Resident, Backed
  <2>3. /\ frame \in [Pages -> Contents] /\ disk \in [Pages -> Contents]
    BY IInvFacts DEF TypeOK
  <2>4. \A q \in Pages : /\ q \in mapped' => frame'[q] = frame[q]
                         /\ q \in pf' => disk'[q] = disk[q]
    BY <1>2, <2>3, KeepFacts
  <2>5. Mem'[p] = NOPAGE /\ \A q \in Pages \ {p} : Mem'[q] = Mem[q]
    BY <1>2, <2>0, <2>1, <2>2, <2>4, MemFacts
  <2>6. Mem' = [Mem EXCEPT ![p] = NOPAGE] /\ Unsaved' = Unsaved
    BY <1>2, <2>0, <2>1, <2>2, <2>5 DEF Mem, Unsaved
  <2> QED BY <1>1, <2>0, <2>6, ReleaseSimulated
<1>3. CASE UNCHANGED <<wsvars, ptvars, pfvars>>
  <2>1. Mem' = Mem /\ Unsaved' = Unsaved
    BY <1>3, SameMemory DEF wsvars, ptvars, pfvars
  <2> QED BY <1>1, <2>1, StutterSimulated
<1> QED BY <1>2, <1>3 DEF freeMem

\* env_free reclaims every page, whether the environment had exited or not.
LEMMA EnvFreeSimulated ==
  ASSUME env_free
  PROVE  Simulated
<1>1. pf' = {} /\ mode' = "freed" /\ reg' = reg /\ ActiveList' = <<>> /\ SecondList' = <<>>
  BY DEF env_free
<1>2. Listed' = {}
  BY <1>1, ListEmpty DEF Listed
<1>3. Mem' = [p \in Pages |-> NOPAGE] /\ Unsaved' = {}
  BY <1>1, <1>2 DEF Mem, Unsaved
<1> QED BY <1>1, <1>3, ReclaimSimulated

\* env_create loads the image, wherever it puts a page.
LEMMA InitSimulated ==
  ASSUME Init
  PROVE  VM!Init
<1>1. PICK n \in 0..Len(Code) : env_create(n)
  BY DEF Init
<1>2. /\ Image \subseteq pf /\ pf \subseteq Image \cup {StackTop}
      /\ disk = [p \in Pages |-> IF p \in pf THEN LOADED ELSE GARBAGE]
      /\ frame = [p \in Pages |-> IF p \in mapped THEN LOADED ELSE GARBAGE]
  BY <1>1 DEF env_create, Image
<1>3. IInv /\ mode = "run" /\ reg = LOADED
  BY InitIInv DEF Init
<1>4. /\ Listed = mapped /\ mapped \subseteq Pages
      /\ Listed \subseteq Image \cup {StackTop} /\ StackTop \in Listed
  <2>1. \A p \in mapped : Backed(p)
    BY <1>3, IInvFacts DEF Resident
  <2>2. StackTop \in mapped
    <3>1. ActiveList = <<StackTop>> \o Reverse(SubSeq(Code, 1,
             IF n < ActiveListSize - 1 THEN n ELSE ActiveListSize - 1)) /\ modified = {StackTop}
      BY <1>1 DEF env_create
    <3> DEFINE rest == Reverse(SubSeq(Code, 1,
                                 IF n < ActiveListSize - 1 THEN n ELSE ActiveListSize - 1))
    <3>2. IsList(ActiveList, Pages) /\ ActiveList = <<StackTop>> \o rest
      BY <1>3, <3>1, IInvFacts
    <3> HIDE DEF rest
    <3>3. StackTop \in ToSet(ActiveList)
      BY <3>2 DEF ToSet, IsList
    <3> QED BY <1>3, <3>3, IInvFacts DEF Resident
  <2> QED BY <1>2, <1>3, <2>1, <2>2, ListedMapped, IInvFacts DEF Backed, TypeOK
<1>5. Mem = [p \in Pages |-> IF p \in Image \cup {StackTop} THEN LOADED ELSE NOPAGE]
  BY <1>2, <1>4 DEF Mem
<1>6. Unsaved \in SUBSET {StackTop}
  BY <1>2, <1>4 DEF Unsaved
<1> QED BY <1>3, <1>5, <1>6 DEF VM!Init, Mem, Image, Unsaved

\* Every step of LRUPaging is a step of VirtualMemory or invisible in it.
LEMMA NextSimulated ==
  ASSUME IInv, [Next]_vars
  PROVE  Simulated
<1>1. CASE UNCHANGED <<ActiveList, SecondList, frame, pf, disk, reg, mode>>
  BY <1>1, SameMemory, StutterSimulated
<1>2. CASE UNCHANGED vars
  BY <1>1, <1>2 DEF vars
<1>3. CASE \E c \in ToSet(Code), p \in Pages, op \in Values \cup {"load"} : Issue(c, p, op)
  BY <1>1, <1>3 DEF Issue, wsvars, ptvars, pfvars
<1>4. CASE Execute
  BY <1>4, ExecuteSimulated
<1>5. CASE \E p \in Pages : table_fault_handler(p) \/ page_fault_handler(p)
  BY <1>5, TableFaultSimulated, PageFaultSimulated
<1>6. CASE \E op \in {"allocateMem", "freeMem"}, va \in Heap, n \in 1..Cardinality(Heap) :
             \E room \in 0..n : SysCall(op, va, n, room)
  BY <1>1, <1>6 DEF SysCall, wsvars, ptvars, pfvars
<1>7. CASE allocateMem
  BY <1>7, AllocateSimulated
<1>8. CASE freeMem
  BY <1>8, FreeMemSimulated
<1>9. CASE env_free
  BY <1>9, EnvFreeSimulated
<1>10. CASE Ended
  BY <1>2, <1>10 DEF Ended
<1> QED BY <1>2, <1>3, <1>4, <1>5, <1>6, <1>7, <1>8, <1>9, <1>10 DEF Next

\* Demand paging with two LRU lists implements a memory that keeps what the
\* program stored, for every program, list sizes and page file; if the page file
\* had no room for the stack page of env_create, all but what was in that page.
THEOREM PagingRefinement == Spec => PagingIsTransparent
<1>1. IInv /\ [Next]_vars => [VM!Next]_(VM!vars)
  BY NextSimulated DEF Simulated
<1> QED BY InitSimulated, <1>1, Invariance, PTL DEF Spec, PagingIsTransparent, VM!Spec

=============================================================================
