------------------------- MODULE FrameManagerProofs -------------------------
(***************************************************************************)
(* Proofs about FrameManager: for every number of frames, environments,    *)
(* pages and disk frames, a frame has one owner or is free, its reference  *)
(* count is right, and only the two known panics lose one.                 *)
(*                                                                         *)
(* A step either takes a free frame for one place, moves the held frame to *)
(* its entry, gives up the frames of some places, or leaves all frames     *)
(* where they are: one lemma each says what becomes of the ownership.      *)
(* What is left of an action is to show which of the four it is, and that  *)
(* the handler in progress keeps its shape.                                *)
(***************************************************************************)
EXTENDS FrameManager, FiniteSetTheorems, SequenceTheorems, TLAPS

\* The pages of e whose entry holds a frame.
Resident(e) == {p \in Pages : page_table_entry[e][p] # NULL}

\* e holds no frame at all.
Empty(e) ==
  /\ env_page_directory[e] = NULL /\ disk_env_pgdir[e] = NULL
  /\ \A t \in Tables : page_table[e][t] = NULL /\ disk_page_table[e][t] = NULL
  /\ Resident(e) = {} /\ ws[e] = {}

\* What e holds, by its status.
Holds(e) ==
  /\ status[e] = "free" => Empty(e)
  /\ status[e] \in {"live", "exited", "panicked"} =>
       env_page_directory[e] # NULL /\ disk_env_pgdir[e] # NULL
  /\ (status[e] = "live" /\ job # e) \/ status[e] = "exited" => Resident(e) = ws[e]
  /\ \A p \in Resident(e) : page_table[e][PDX[p]] # NULL
  /\ status[e] = "creating" => job = e

\* The steps that env_create has left.  Its directory comes first and the page
\* file's directory exists once the last step is done; no page is loaded twice.
Creating ==
  /\ \A i \in 1..Len(todo) : todo[i].op \in {"directory", "load", "pf", "pf_or_panic"}
  /\ \A i \in 2..Len(todo) : todo[i].op # "directory"
  /\ env_page_directory[job] = NULL <=> Doing({"directory"})
  /\ env_page_directory[job] = NULL => Empty(job)
  /\ disk_env_pgdir[job] = NULL => todo # <<>> /\ todo[Len(todo)].op = "pf"
  /\ Resident(job) = ws[job]
  /\ \A i \in 1..Len(todo) : todo[i].op = "load" => todo[i].page \notin ws[job]
  /\ \A i, j \in 1..Len(todo) :
       todo[i].op = "load" /\ todo[j].op = "load" /\ todo[i].page = todo[j].page => i = j
  /\ held # NULL => Doing({"load"})

\* What Placement has left to do once p is mapped.
AfterMap(p) == {<<Step("ws", p)>>, <<Step("pf_or_panic", p), Step("ws", p)>>,
                <<Step("illegal", p)>>}

\* The steps that a handler of a live environment has left, with the page that
\* is mapped before it is in the working set.
Handling ==
  \/ todo = <<>> /\ Resident(job) = ws[job] /\ held = NULL
  \/ \E p \in Pages :
       \/ /\ todo = <<Step("table", p)>> /\ page_table[job][PDX[p]] = NULL
          /\ Resident(job) = ws[job] /\ held = NULL
       \/ todo = <<Step("pf", p)>> /\ Resident(job) = ws[job] /\ held = NULL
       \/ /\ todo # <<>> /\ Head(todo) = Step("map", p) /\ Tail(todo) \in AfterMap(p)
          /\ page_table[job][PDX[p]] # NULL
          /\ p \notin ws[job] /\ Resident(job) = ws[job]
       \/ /\ todo \in AfterMap(p) /\ held = NULL
          /\ p \notin ws[job] /\ Resident(job) = ws[job] \cup {p}

\* Whom the handler in progress works for.
Progress ==
  job # NULL => \/ status[job] = "creating" /\ Creating
                \/ status[job] = "live" /\ Handling

IInv ==
  /\ TypeOK /\ NoFrameShared /\ ReferencesCounted
  /\ \A e \in Envs : Holds(e)
  /\ Progress

-----------------------------------------------------------------------------
(* Places *)

Held == <<"held", NULL, NULL>>
DirectoryOf(e) == <<"directory", e, NULL>>
DiskDirectoryOf(e) == <<"disk_directory", e, NULL>>
TableOf(e, t) == <<"table", e, t>>
DiskTableOf(e, t) == <<"disk_table", e, t>>
PageOf(e, p) == <<"page", e, p>>

\* What each place is.
PlaceTable ==
  /\ Held \in Places /\ FrameAt(Held) = held
  /\ \A e \in Envs : /\ DirectoryOf(e) \in Places
                     /\ FrameAt(DirectoryOf(e)) = env_page_directory[e]
                     /\ DiskDirectoryOf(e) \in Places
                     /\ FrameAt(DiskDirectoryOf(e)) = disk_env_pgdir[e]
  /\ \A e \in Envs, t \in Tables : /\ TableOf(e, t) \in Places
                                   /\ FrameAt(TableOf(e, t)) = page_table[e][t]
                                   /\ DiskTableOf(e, t) \in Places
                                   /\ FrameAt(DiskTableOf(e, t)) = disk_page_table[e][t]
  /\ \A e \in Envs, p \in Pages : /\ PageOf(e, p) \in Places
                                  /\ FrameAt(PageOf(e, p)) = page_table_entry[e][p]

\* FrameAt reads the variable that the place names.
LEMMA PlaceFacts == PlaceTable
<1>1. Held \in Places /\ FrameAt(Held) = held
  BY DEF Held, Places, FrameAt
<1>2. ASSUME NEW e \in Envs
      PROVE  /\ DirectoryOf(e) \in Places /\ FrameAt(DirectoryOf(e)) = env_page_directory[e]
             /\ DiskDirectoryOf(e) \in Places
             /\ FrameAt(DiskDirectoryOf(e)) = disk_env_pgdir[e]
  BY DEF DirectoryOf, DiskDirectoryOf, Places, FrameAt
<1>3. ASSUME NEW e \in Envs, NEW t \in Tables
      PROVE  /\ TableOf(e, t) \in Places /\ FrameAt(TableOf(e, t)) = page_table[e][t]
             /\ DiskTableOf(e, t) \in Places
             /\ FrameAt(DiskTableOf(e, t)) = disk_page_table[e][t]
  BY DEF TableOf, DiskTableOf, Places, FrameAt
<1>4. ASSUME NEW e \in Envs, NEW p \in Pages
      PROVE  PageOf(e, p) \in Places /\ FrameAt(PageOf(e, p)) = page_table_entry[e][p]
  BY DEF PageOf, Places, FrameAt
<1> QED BY <1>1, <1>2, <1>3, <1>4 DEF PlaceTable

\* The same after a step.
LEMMA PlaceFactsNext == PlaceTable'
BY PlaceFacts, PTL

\* The parts of a triple.
LEMMA Triple ==
  ASSUME NEW K, NEW E, NEW T, NEW x \in K \X E \X T
  PROVE  x[1] \in K /\ x[2] \in E /\ x[3] \in T /\ x = <<x[1], x[2], x[3]>>
OBVIOUS

\* There are no other places.
LEMMA PlaceCases ==
  ASSUME NEW x \in Places
  PROVE  \/ x = Held
         \/ \E e \in Envs : x = DirectoryOf(e) \/ x = DiskDirectoryOf(e)
         \/ \E e \in Envs, t \in Tables : x = TableOf(e, t) \/ x = DiskTableOf(e, t)
         \/ \E e \in Envs, p \in Pages : x = PageOf(e, p)
<1>1. CASE x \in {"directory", "disk_directory"} \X Envs \X {NULL}
  <2>1. /\ x[1] \in {"directory", "disk_directory"} /\ x[2] \in Envs /\ x[3] = NULL
        /\ x = <<x[1], x[2], x[3]>>
    BY <1>1, Triple
  <2> QED BY <2>1, Zenon DEF DirectoryOf, DiskDirectoryOf
<1>2. CASE x \in {"table", "disk_table"} \X Envs \X Tables
  <2>1. /\ x[1] \in {"table", "disk_table"} /\ x[2] \in Envs /\ x[3] \in Tables
        /\ x = <<x[1], x[2], x[3]>>
    BY <1>2, Triple
  <2> QED BY <2>1, Zenon DEF TableOf, DiskTableOf
<1>3. CASE x \in {"page"} \X Envs \X Pages
  <2>1. PICK e \in Envs, p \in Pages : x = <<"page", e, p>>
    BY <1>3
  <2> QED BY <2>1 DEF PageOf
<1>4. CASE x \in {<<"held", NULL, NULL>>}
  BY <1>4 DEF Held
<1> QED BY <1>1, <1>2, <1>3, <1>4 DEF Places

\* Different places differ.
LEMMA PlacesDiffer ==
  /\ \A e, f : /\ DirectoryOf(e) = DirectoryOf(f) => e = f
               /\ DiskDirectoryOf(e) = DiskDirectoryOf(f) => e = f
               /\ DirectoryOf(e) # DiskDirectoryOf(f)
               /\ DirectoryOf(e) # Held /\ DiskDirectoryOf(e) # Held
  /\ \A e, f, t, u : /\ TableOf(e, t) = TableOf(f, u) => e = f /\ t = u
                     /\ DiskTableOf(e, t) = DiskTableOf(f, u) => e = f /\ t = u
                     /\ PageOf(e, t) = PageOf(f, u) => e = f /\ t = u
                     /\ TableOf(e, t) # DiskTableOf(f, u)
                     /\ TableOf(e, t) # PageOf(f, u) /\ DiskTableOf(e, t) # PageOf(f, u)
                     /\ TableOf(e, t) # DirectoryOf(f) /\ TableOf(e, t) # DiskDirectoryOf(f)
                     /\ DiskTableOf(e, t) # DirectoryOf(f)
                     /\ DiskTableOf(e, t) # DiskDirectoryOf(f)
                     /\ PageOf(e, t) # DirectoryOf(f) /\ PageOf(e, t) # DiskDirectoryOf(f)
                     /\ TableOf(e, t) # Held /\ DiskTableOf(e, t) # Held /\ PageOf(e, t) # Held
BY DEF Held, DirectoryOf, DiskDirectoryOf, TableOf, DiskTableOf, PageOf

\* A frame at a place is a frame.
LEMMA PlaceTypes ==
  ASSUME TypeOK, NEW x \in Places
  PROVE  FrameAt(x) \in Frames \cup {NULL}
<1>0. /\ held \in FrameOrNull
      /\ env_page_directory \in [Envs -> FrameOrNull]
      /\ page_table \in [Envs -> [Tables -> FrameOrNull]]
      /\ page_table_entry \in [Envs -> [Pages -> FrameOrNull]]
      /\ disk_env_pgdir \in [Envs -> FrameOrNull]
      /\ disk_page_table \in [Envs -> [Tables -> FrameOrNull]]
  BY Zenon DEF TypeOK
<1>1. /\ held \in FrameOrNull
      /\ \A e \in Envs : env_page_directory[e] \in FrameOrNull /\ disk_env_pgdir[e] \in FrameOrNull
      /\ \A e \in Envs, t \in Tables :
           page_table[e][t] \in FrameOrNull /\ disk_page_table[e][t] \in FrameOrNull
      /\ \A e \in Envs, p \in Pages : page_table_entry[e][p] \in FrameOrNull
  BY <1>0
<1>2. FrameAt(x) \in FrameOrNull
  BY <1>1, PlaceCases, PlaceFacts DEF PlaceTable
<1> QED BY <1>2 DEF FrameOrNull

\* In use is what some place holds.
LEMMA InUseFacts ==
  \A f : f \in InUse <=> f # NULL /\ \E x \in Places : FrameAt(x) = f
BY DEF InUse

-----------------------------------------------------------------------------
(* The four things that a step does to frames *)

\* The ownership of the frames, as far as it does not depend on the handlers.
Owned ==
  /\ free_frame_list \subseteq Frames
  /\ references \in [Frames -> Counts] /\ corrupted \in BOOLEAN
  /\ \A x \in Places : FrameAt(x) \in Frames \cup {NULL}
  /\ NoFrameShared
  /\ ReferencesCounted

\* The counts that occur.
LEMMA CountFacts == 0 \in Counts /\ 1 \in Counts /\ (1 + 65535) % 65536 = 0
BY DEF Counts

\* Every frame stays where it is, or is dropped by its place.
LEMMA FramesStay ==
  ASSUME Owned, UNCHANGED framevars, held' \in {held, NULL},
         \A x \in Places : FrameAt(x)' \in {FrameAt(x), NULL}
  PROVE  /\ Owned'
         /\ (\A x \in Places : FrameAt(x)' = FrameAt(x)) => Leaked' = Leaked
<1>1. free_frame_list' = free_frame_list /\ references' = references /\ corrupted' = corrupted
  BY DEF framevars
<1>2. InUse' \subseteq InUse
  BY DEF InUse
<1>3. \A f \in InUse' : f # held' => f # held
  <2> SUFFICES ASSUME NEW f \in InUse', f # held' PROVE f # held
    OBVIOUS
  <2>1. PICK x \in Places : FrameAt(x)' = f /\ f # NULL
    BY DEF InUse
  <2>2. FrameAt(x) = f
    BY <2>1
  <2>3. FrameAt(Held)' = held'
    BY PlaceFactsNext DEF PlaceTable
  <2>4. x # Held
    BY <2>1, <2>3
  <2> QED BY <2>1, <2>2, <2>4, PlaceFacts DEF Owned, NoFrameShared, PlaceTable
<1>4. NoFrameShared'
  BY <1>1, <1>2 DEF Owned, NoFrameShared
<1>5. ReferencesCounted'
  BY <1>1, <1>2, <1>3 DEF Owned, ReferencesCounted
<1>6. Owned'
  BY <1>1, <1>4, <1>5, Zenon DEF Owned
<1>7. (\A x \in Places : FrameAt(x)' = FrameAt(x)) => InUse' = InUse
  BY DEF InUse
<1> QED BY <1>1, <1>6, <1>7 DEF Leaked

\* allocate_frame takes a frame for a place that has none.
LEMMA FrameTaken ==
  ASSUME Owned, NEW x0 \in Places, FrameAt(x0) = NULL,
         NEW f, NEW refs, allocate_frame(f, refs), FrameAt(x0)' = f,
         refs = IF x0 = Held THEN 0 ELSE 1,
         \A x \in Places : x # x0 => FrameAt(x)' = FrameAt(x)
  PROVE  Owned' /\ f \in Frames /\ Leaked' = Leaked
<1>1. /\ f \in free_frame_list /\ f \in Frames /\ f # NULL
      /\ free_frame_list' = free_frame_list \ {f}
      /\ references' = [references EXCEPT ![f] = refs] /\ corrupted' = corrupted
  BY FrameConstants DEF allocate_frame, Owned
<1>2. /\ references' \in [Frames -> Counts] /\ references'[f] = refs
      /\ \A g \in Frames \ {f} : references'[g] = references[g]
  <2>1. refs \in Counts
    BY CountFacts
  <2> QED BY <1>1, <2>1 DEF Owned
<1>3. InUse' = InUse \cup {f} /\ f \notin InUse
  <2>1. InUse' \subseteq InUse \cup {f}
    BY DEF InUse
  <2>2. InUse \subseteq InUse'
    BY DEF InUse
  <2>3. f \in InUse'
    BY <1>1 DEF InUse
  <2> QED BY <1>1, <2>1, <2>2, <2>3 DEF Owned, NoFrameShared
<1>4. \A x \in Places : FrameAt(x) # f
  BY <1>1, <1>3 DEF InUse
<1>5. NoFrameShared'
  <2>1. \A x, y \in Places : FrameAt(x)' = FrameAt(y)' /\ FrameAt(x)' # NULL => x = y
    BY <1>4 DEF Owned, NoFrameShared
  <2>2. InUse' \cap free_frame_list' = {} /\ ~corrupted'
    BY <1>1, <1>3 DEF Owned, NoFrameShared
  <2> QED BY <2>1, <2>2 DEF NoFrameShared
<1>a. InUse \subseteq Frames
  BY DEF InUse, Owned
<1>6. ReferencesCounted'
  <2>1. FrameAt(Held)' = held' /\ FrameAt(Held) = held /\ Held \in Places
    BY PlaceFacts, PlaceFactsNext DEF PlaceTable
  <2>2. CASE x0 = Held
    <3>1. held' = f /\ held = NULL
      BY <2>1, <2>2
    <3>2. \A g \in InUse : g # held
      BY <3>1 DEF InUse
    <3> QED BY <1>1, <1>2, <1>3, <1>a, <2>2, <3>1, <3>2 DEF Owned, ReferencesCounted
  <2>3. CASE x0 # Held
    <3>1. held' = held /\ held # f
      BY <1>4, <2>1, <2>3
    <3> QED BY <1>1, <1>2, <1>3, <1>a, <2>3, <3>1 DEF Owned, ReferencesCounted
  <2> QED BY <2>2, <2>3
<1>7. \A x \in Places : FrameAt(x)' \in Frames \cup {NULL}
  BY <1>1 DEF Owned
<1>8. Leaked' = Leaked
  BY <1>1, <1>3 DEF Leaked
<1>9. free_frame_list' \subseteq Frames
  BY <1>1 DEF Owned
<1> QED BY <1>1, <1>2, <1>5, <1>6, <1>7, <1>8, <1>9 DEF Owned

\* map_frame moves the held frame to an empty entry and counts the reference.
LEMMA FrameMoved ==
  ASSUME Owned, NEW x0 \in Places, x0 # Held, FrameAt(x0) = NULL, held # NULL,
         references' = [references EXCEPT ![held] = @ + 1],
         UNCHANGED <<free_frame_list, corrupted>>,
         FrameAt(x0)' = held, held' = NULL,
         \A x \in Places : x # x0 /\ x # Held => FrameAt(x)' = FrameAt(x)
  PROVE  Owned' /\ Leaked' = Leaked
<1>1. /\ Held \in Places /\ FrameAt(Held) = held /\ FrameAt(Held)' = NULL
  BY PlaceFacts, PlaceFactsNext DEF PlaceTable
<1>2. held \in InUse /\ held \in Frames /\ InUse \subseteq Frames /\ held \notin free_frame_list
  BY <1>1 DEF InUse, Owned, NoFrameShared
<1>3. references[held] = 0
  BY DEF Owned, ReferencesCounted
<1>4. /\ references' \in [Frames -> Counts] /\ references'[held] = 1
      /\ \A g \in Frames \ {held} : references'[g] = references[g]
  BY <1>2, <1>3, CountFacts DEF Owned
<1>5. \A x \in Places : x # Held => FrameAt(x) # held
  BY <1>1 DEF Owned, NoFrameShared
<1>6. InUse' = InUse
  <2>1. ASSUME NEW f \in InUse' PROVE f \in InUse
    <3>1. PICK x \in Places : FrameAt(x)' = f /\ f # NULL
      BY DEF InUse
    <3>2. CASE x = x0
      BY <1>2, <3>1, <3>2
    <3>3. CASE x # x0
      <4>1. FrameAt(x) = f
        BY <1>1, <3>1, <3>3
      <4> QED BY <3>1, <4>1 DEF InUse
    <3> QED BY <3>2, <3>3
  <2>2. ASSUME NEW f \in InUse PROVE f \in InUse'
    <3>1. PICK x \in Places : FrameAt(x) = f /\ f # NULL
      BY DEF InUse
    <3>2. CASE x = Held
      <4>1. FrameAt(x0)' = f
        BY <1>1, <3>1, <3>2
      <4> QED BY <3>1, <4>1 DEF InUse
    <3>3. CASE x # Held
      <4>1. FrameAt(x)' = f
        BY <3>1, <3>3
      <4> QED BY <3>1, <4>1 DEF InUse
    <3> QED BY <3>2, <3>3
  <2> QED BY <2>1, <2>2
<1>7. \A x, y \in Places : FrameAt(x)' = FrameAt(y)' /\ FrameAt(x)' # NULL => x = y
  BY <1>1, <1>5 DEF Owned, NoFrameShared
<1>8. NoFrameShared'
  BY <1>6, <1>7 DEF Owned, NoFrameShared
<1>9. ReferencesCounted'
  BY <1>2, <1>4, <1>6 DEF Owned, ReferencesCounted
<1>10. \A x \in Places : FrameAt(x)' \in Frames \cup {NULL}
  BY <1>1, <1>2 DEF Owned
<1>11. Leaked' = Leaked
  BY <1>6 DEF Leaked
<1> QED BY <1>4, <1>8, <1>9, <1>10, <1>11 DEF Owned

\* Release of frames of the places G, which hold none afterwards.  The counts of
\* the frames in S go from 1 to 0, so that they are freed as those in T are.
LEMMA FramesReleased ==
  ASSUME Owned, NEW S, NEW T, Release(S, T), NEW G \in SUBSET Places, Held \notin G,
         S \cup T \subseteq InUse, S \cap T = {},
         \A f \in S \cup T : \E x \in G : FrameAt(x) = f,
         \A x \in G : FrameAt(x)' = NULL,
         \A x \in Places \ G : FrameAt(x)' = FrameAt(x)
  PROVE  /\ Owned'
         /\ (\A x \in G : FrameAt(x) \in S \cup T \cup {NULL}) => Leaked' = Leaked
<1>1. /\ Held \in Places /\ FrameAt(Held) = held /\ FrameAt(Held)' = held'
  BY PlaceFacts, PlaceFactsNext DEF PlaceTable
<1>2. InUse \subseteq Frames /\ InUse \cap free_frame_list = {} /\ ~corrupted
  BY DEF InUse, Owned, NoFrameShared
<1>3. held' = held /\ \A f \in S \cup T : f # held
  BY <1>1 DEF Owned, NoFrameShared, InUse
<1>4. \A f \in S : (references[f] + 65535) % 65536 = 0
  <2>1. \A f \in S : references[f] = 1
    BY <1>3 DEF Owned, ReferencesCounted
  <2> QED BY <2>1, CountFacts
<1>5. /\ free_frame_list' = free_frame_list \cup (S \cup T)
      /\ references' = [f \in Frames |-> IF f \in S \cup T THEN 0 ELSE references[f]]
      /\ ~corrupted' /\ corrupted' \in BOOLEAN
  <2> DEFINE count(f) == (references[f] + 65535) % 65536
             freed == {f \in S : count(f) = 0} \cup T
  <2>1. freed = S \cup T
    BY <1>4
  <2>2. /\ free_frame_list' = free_frame_list \cup freed
        /\ references' = [f \in Frames |-> IF f \in freed THEN 0
                                           ELSE IF f \in S THEN count(f)
                                           ELSE references[f]]
        /\ corrupted' = (corrupted \/ freed \cap free_frame_list # {} \/ S \cap T # {})
    BY DEF Release
  <2> HIDE DEF count, freed
  <2>3. freed \cap free_frame_list = {}
    BY <1>2, <2>1
  <2>4. ~corrupted' /\ corrupted' \in BOOLEAN
    BY <1>2, <2>2, <2>3
  <2>5. references' = [f \in Frames |-> IF f \in S \cup T THEN 0 ELSE references[f]]
    BY <2>1, <2>2
  <2> QED BY <2>1, <2>2, <2>4, <2>5
<1>6. references' \in [Frames -> Counts]
  BY <1>5, CountFacts DEF Owned
<1>7. \A x \in Places : FrameAt(x)' # NULL => x \notin G /\ FrameAt(x)' = FrameAt(x)
  OBVIOUS
<1>8. \A x \in Places \ G : FrameAt(x) \notin S \cup T
  BY FrameConstants, <1>2 DEF Owned, NoFrameShared
<1>9. InUse' \subseteq InUse /\ InUse' \cap (S \cup T) = {}
  BY <1>7, <1>8 DEF InUse
<1>10. NoFrameShared'
  <2>1. \A x, y \in Places : FrameAt(x)' = FrameAt(y)' /\ FrameAt(x)' # NULL => x = y
    BY <1>7 DEF Owned, NoFrameShared
  <2>2. InUse' \cap free_frame_list' = {}
    BY <1>2, <1>5, <1>9
  <2> QED BY <1>5, <2>1, <2>2 DEF NoFrameShared
<1>11. ReferencesCounted'
  <2>1. \A f \in InUse' \ {held'} : references'[f] = 1
    BY <1>2, <1>3, <1>5, <1>9 DEF Owned, ReferencesCounted
  <2>2. \A f \in free_frame_list' \cup ({held'} \ {NULL}) : references'[f] = 0
    <3>1. ASSUME NEW f \in S \cup T PROVE references'[f] = 0
      BY <1>2, <1>5
    <3>2. ASSUME NEW f \in free_frame_list \cup ({held} \ {NULL}), f \notin S \cup T
          PROVE  references'[f] = 0
      <4>1. references[f] = 0 /\ f \in Frames
        BY <1>1 DEF Owned, ReferencesCounted
      <4> QED BY <1>5, <3>2, <4>1
    <3> QED BY <1>3, <1>5, <3>1, <3>2
  <2> QED BY <2>1, <2>2 DEF ReferencesCounted
<1>12. \A x \in Places : FrameAt(x)' \in Frames \cup {NULL}
  BY DEF Owned
<1>13. free_frame_list' \subseteq Frames
  BY <1>2, <1>5 DEF Owned
<1>14. ASSUME \A x \in G : FrameAt(x) \in S \cup T \cup {NULL}
       PROVE  Leaked' = Leaked
  <2>1. InUse \subseteq InUse' \cup (S \cup T)
    BY <1>14 DEF InUse
  <2> QED BY <1>5, <1>9, <2>1 DEF Leaked
<1> QED BY <1>5, <1>6, <1>10, <1>11, <1>12, <1>13, <1>14 DEF Owned

\* A place outside X keeps its frame when the variable it names keeps it.
LEMMA PlacesSame ==
  ASSUME NEW X,
         Held \in X \/ held' = held,
         \A e \in Envs :
           /\ DirectoryOf(e) \in X \/ env_page_directory'[e] = env_page_directory[e]
           /\ DiskDirectoryOf(e) \in X \/ disk_env_pgdir'[e] = disk_env_pgdir[e],
         \A e \in Envs, t \in Tables :
           /\ TableOf(e, t) \in X \/ page_table'[e][t] = page_table[e][t]
           /\ DiskTableOf(e, t) \in X \/ disk_page_table'[e][t] = disk_page_table[e][t],
         \A e \in Envs, p \in Pages :
           PageOf(e, p) \in X \/ page_table_entry'[e][p] = page_table_entry[e][p]
  PROVE  \A x \in Places : x \notin X => FrameAt(x)' = FrameAt(x)
BY PlaceCases, PlaceFacts, PlaceFactsNext DEF PlaceTable

-----------------------------------------------------------------------------
(* The invariant and its parts *)

\* The parts of the invariant and of the types.
LEMMA IInvFacts ==
  ASSUME IInv
  PROVE  /\ TypeOK /\ Owned /\ (\A e \in Envs : Holds(e)) /\ Progress
         /\ env_page_directory \in [Envs -> FrameOrNull]
         /\ page_table \in [Envs -> [Tables -> FrameOrNull]]
         /\ page_table_entry \in [Envs -> [Pages -> FrameOrNull]]
         /\ disk_env_pgdir \in [Envs -> FrameOrNull]
         /\ disk_page_table \in [Envs -> [Tables -> FrameOrNull]]
         /\ ws \in [Envs -> SUBSET Pages] /\ pf \in [Envs -> SUBSET Pages]
         /\ status \in [Envs -> Status]
         /\ job \in Envs \cup {NULL} /\ held \in FrameOrNull
         /\ todo \in Seq(StepType)
         /\ job = NULL => todo = <<>> /\ held = NULL
<1>1. /\ TypeOK /\ NoFrameShared /\ ReferencesCounted /\ (\A e \in Envs : Holds(e)) /\ Progress
  BY DEF IInv
<1>2. Owned
  BY <1>1, PlaceTypes, Zenon DEF Owned, TypeOK
<1> QED BY <1>1, <1>2, Zenon DEF TypeOK

\* The invariant after a step, from its parts.
LEMMA IInvNext ==
  ASSUME Owned', \A e \in Envs : Holds(e)', Progress',
         env_page_directory' \in [Envs -> FrameOrNull],
         page_table' \in [Envs -> [Tables -> FrameOrNull]],
         page_table_entry' \in [Envs -> [Pages -> FrameOrNull]],
         disk_env_pgdir' \in [Envs -> FrameOrNull],
         disk_page_table' \in [Envs -> [Tables -> FrameOrNull]],
         ws' \in [Envs -> SUBSET Pages], pf' \in [Envs -> SUBSET Pages],
         status' \in [Envs -> Status],
         job' \in Envs \cup {NULL}, held' \in FrameOrNull,
         todo' \in Seq(StepType),
         job' = NULL => todo' = <<>> /\ held' = NULL
  PROVE  IInv'
<1>1. free_frame_list' \subseteq Frames /\ references' \in [Frames -> Counts]
      /\ NoFrameShared' /\ ReferencesCounted' /\ corrupted' \in BOOLEAN
  BY DEF Owned
<1>3. TypeOK'
  BY <1>1, Zenon DEF TypeOK
<1> QED BY <1>1, <1>3 DEF IInv

\* What an environment owns and is.
EnvState(e) == <<env_page_directory[e], disk_env_pgdir[e], page_table[e], disk_page_table[e],
                 page_table_entry[e], ws[e], status[e]>>

\* A step on behalf of another environment.
LEMMA HoldsSame ==
  ASSUME NEW e \in Envs, Holds(e), EnvState(e)' = EnvState(e),
         status[e] = "live" /\ job' # e => job # e,
         status[e] = "creating" => job' = e
  PROVE  Holds(e)'
<1>1. /\ env_page_directory'[e] = env_page_directory[e] /\ disk_env_pgdir'[e] = disk_env_pgdir[e]
      /\ page_table'[e] = page_table[e] /\ disk_page_table'[e] = disk_page_table[e]
      /\ page_table_entry'[e] = page_table_entry[e] /\ ws'[e] = ws[e] /\ status'[e] = status[e]
  BY DEF EnvState
<1>2. Resident(e)' = Resident(e)
  BY <1>1 DEF Resident
<1>3. Empty(e)' = Empty(e)
  BY <1>1, <1>2 DEF Empty
<1> QED BY <1>1, <1>2, <1>3 DEF Holds

\* The first step of the handler in progress.
LEMMA TodoFacts ==
  ASSUME IInv, todo # <<>>
  PROVE  /\ job # NULL /\ job \in Envs
         /\ Len(todo) \in Nat /\ Len(todo) > 0
         /\ Head(todo) = todo[1] /\ Head(todo) \in StepType
         /\ Tail(todo) \in Seq(StepType) /\ Len(Tail(todo)) = Len(todo) - 1
         /\ \A i \in 1..(Len(todo) - 1) : Tail(todo)[i] = todo[i + 1]
         /\ page \in Pages /\ table \in Tables
         /\ Holds(job)
         /\ (status[job] = "creating" /\ Creating) \/ (status[job] = "live" /\ Handling)
<1>1. /\ todo \in Seq(StepType) /\ (job = NULL => todo = <<>>) /\ job \in Envs \cup {NULL}
      /\ Progress /\ \A e \in Envs : Holds(e)
  BY IInvFacts
<1>2. job # NULL /\ job \in Envs
  BY <1>1
<1>3. /\ Len(todo) \in Nat /\ Len(todo) > 0
      /\ Head(todo) = todo[1] /\ Head(todo) \in StepType
      /\ Tail(todo) \in Seq(StepType) /\ Len(Tail(todo)) = Len(todo) - 1
      /\ \A i \in 1..(Len(todo) - 1) : Tail(todo)[i] = todo[i + 1]
  BY <1>1
<1>4. page \in Pages
  BY <1>3 DEF page, StepType
<1>5. table \in Tables
  BY <1>4, FrameConstants DEF table
<1> QED BY <1>1, <1>2, <1>3, <1>4, <1>5 DEF Progress

\* Which handler of a live environment a step belongs to.
LEMMA HandlingCases ==
  ASSUME Handling, todo # <<>>
  PROVE  \/ /\ Head(todo).op = "table" /\ Tail(todo) = <<>> /\ held = NULL
            /\ page_table[job][table] = NULL /\ Resident(job) = ws[job]
         \/ /\ Head(todo).op = "pf" /\ Tail(todo) = <<>> /\ held = NULL
            /\ Resident(job) = ws[job]
         \/ /\ Head(todo).op = "map" /\ Head(todo) = Step("map", page)
            /\ Tail(todo) \in AfterMap(page)
            /\ page_table[job][table] # NULL
            /\ page \notin ws[job] /\ Resident(job) = ws[job]
         \/ /\ Head(todo).op = "pf_or_panic" /\ Tail(todo) = <<Step("ws", page)>> /\ held = NULL
            /\ page \notin ws[job] /\ Resident(job) = ws[job] \cup {page}
         \/ /\ Head(todo).op \in {"ws", "illegal"} /\ Tail(todo) = <<>> /\ held = NULL
            /\ page \notin ws[job] /\ Resident(job) = ws[job] \cup {page}
<1>1. ASSUME NEW op, NEW p PROVE Step(op, p).op = op /\ Step(op, p).page = p
  BY DEF Step
<1>2. ASSUME NEW a, NEW b
      PROVE  /\ Head(<<a>>) = a /\ Tail(<<a>>) = <<>>
             /\ Head(<<a, b>>) = a /\ Tail(<<a, b>>) = <<b>>
  OBVIOUS
<1>3. PICK p \in Pages :
       \/ /\ todo = <<Step("table", p)>> /\ page_table[job][PDX[p]] = NULL
          /\ Resident(job) = ws[job] /\ held = NULL
       \/ todo = <<Step("pf", p)>> /\ Resident(job) = ws[job] /\ held = NULL
       \/ /\ todo # <<>> /\ Head(todo) = Step("map", p) /\ Tail(todo) \in AfterMap(p)
          /\ page_table[job][PDX[p]] # NULL
          /\ p \notin ws[job] /\ Resident(job) = ws[job]
       \/ /\ todo \in AfterMap(p) /\ held = NULL
          /\ p \notin ws[job] /\ Resident(job) = ws[job] \cup {p}
  BY DEF Handling
<1>4. \/ /\ Head(todo) = Step("table", p) /\ Tail(todo) = <<>> /\ page_table[job][PDX[p]] = NULL
         /\ Resident(job) = ws[job] /\ held = NULL
      \/ /\ Head(todo) = Step("pf", p) /\ Tail(todo) = <<>> /\ held = NULL
         /\ Resident(job) = ws[job]
      \/ /\ Head(todo) = Step("map", p) /\ Tail(todo) \in AfterMap(p)
         /\ page_table[job][PDX[p]] # NULL
         /\ p \notin ws[job] /\ Resident(job) = ws[job]
      \/ /\ Head(todo) = Step("pf_or_panic", p) /\ Tail(todo) = <<Step("ws", p)>> /\ held = NULL
         /\ p \notin ws[job] /\ Resident(job) = ws[job] \cup {p}
      \/ /\ (Head(todo) = Step("ws", p) \/ Head(todo) = Step("illegal", p)) /\ Tail(todo) = <<>>
         /\ held = NULL /\ p \notin ws[job] /\ Resident(job) = ws[job] \cup {p}
  <2>2. CASE todo \in AfterMap(p) /\ held = NULL
             /\ p \notin ws[job] /\ Resident(job) = ws[job] \cup {p}
    BY <1>2, <2>2, Zenon DEF AfterMap
  <2> QED BY <1>2, <1>3, <2>2, Zenon
<1>5. page = p /\ table = PDX[p]
  BY <1>1, <1>4 DEF page, table
<1> QED BY <1>1, <1>4, <1>5

\* A step of env_create is done.
LEMMA CreatingAdvance ==
  ASSUME IInv, todo # <<>>, Creating, todo' = Tail(todo), job' = job, held' = NULL,
         env_page_directory'[job] # NULL,
         disk_env_pgdir'[job] = disk_env_pgdir[job],
         Head(todo).op = "pf" => disk_env_pgdir[job] # NULL,
         Resident(job)' = ws'[job],
         ws'[job] = ws[job] \/ (Head(todo).op = "load" /\ ws'[job] = ws[job] \cup {page})
  PROVE  Creating'
<1> DEFINE n == Len(todo)
<1>1. /\ n \in Nat /\ n > 0 /\ Head(todo) = todo[1] /\ Len(todo') = n - 1
      /\ todo' \in Seq(StepType)
      /\ \A i \in 1..(n - 1) : todo'[i] = todo[i + 1]
  BY TodoFacts
<1>2. \A i \in 1..Len(todo') : i + 1 \in 2..n /\ i + 1 \in 1..n /\ todo'[i] = todo[i + 1]
  BY <1>1
<1> HIDE DEF n
<1>3. \A i \in 1..Len(todo') : todo'[i].op \in {"load", "pf", "pf_or_panic"}
  BY <1>2 DEF Creating, n
<1>4. todo' # <<>> => Head(todo') = todo'[1] /\ 1 \in 1..Len(todo')
  BY <1>1
<1>5. ~Doing({"directory"})'
  BY <1>3, <1>4 DEF Doing
<1>6. disk_env_pgdir'[job] = NULL => todo' # <<>> /\ todo'[Len(todo')].op = "pf"
  <2> SUFFICES ASSUME disk_env_pgdir'[job] = NULL
               PROVE  todo' # <<>> /\ todo'[Len(todo')].op = "pf"
    OBVIOUS
  <2>1. todo[n].op = "pf" /\ Head(todo).op # "pf"
    BY DEF Creating, n
  <2>2. n # 1
    BY <1>1, <2>1
  <2>3. n - 1 \in 1..(n - 1) /\ Len(todo') # 0 /\ (n - 1) + 1 = n
    BY <1>1, <2>2
  <2> QED BY <1>1, <2>1, <2>3
<1>7. \A i \in 1..n : todo[i].op = "load" => todo[i].page \notin ws[job]
  BY DEF Creating, n
<1>8. \A i, j \in 1..n :
        todo[i].op = "load" /\ todo[j].op = "load" /\ todo[i].page = todo[j].page => i = j
  BY DEF Creating, n
<1>9. \A i \in 1..Len(todo') : todo'[i].op = "load" => todo'[i].page \notin ws'[job]
  <2> SUFFICES ASSUME NEW i \in 1..Len(todo'), todo'[i].op = "load", todo'[i].page \in ws'[job]
               PROVE  FALSE
    OBVIOUS
  <2>1. i + 1 \in 1..n /\ todo[i + 1].op = "load" /\ todo[i + 1].page \in ws'[job] /\ i + 1 # 1
        /\ 1 \in 1..n
    BY <1>1, <1>2
  <2>2. todo[1].op = "load" /\ todo[i + 1].page = todo[1].page
    BY <1>1, <1>7, <2>1 DEF page
  <2> QED BY <1>8, <2>1, <2>2
<1>10. \A i, j \in 1..Len(todo') :
         todo'[i].op = "load" /\ todo'[j].op = "load" /\ todo'[i].page = todo'[j].page => i = j
  <2> SUFFICES ASSUME NEW i \in 1..Len(todo'), NEW j \in 1..Len(todo'),
                      todo'[i].op = "load", todo'[j].op = "load", todo'[i].page = todo'[j].page
               PROVE  i = j
    OBVIOUS
  <2>1. i + 1 = j + 1
    BY <1>2, <1>8
  <2> QED BY <1>1, <2>1
<1>11. \A i \in 2..Len(todo') : i \in 1..Len(todo')
  BY <1>1
<1> QED BY <1>3, <1>5, <1>6, <1>9, <1>10, <1>11 DEF Creating

\* What a step may do to frames that are neither free nor in use.
LeakStep ==
  \/ Leaked' = Leaked
  \/ \E e \in Envs : status[e] = "creating" /\ status'[e] = "lost"
  \/ \E e \in Envs : status[e] = "panicked" /\ status'[e] = "free"

\* A handler does one of its steps and goes on: the other environments are left
\* alone, and the one it works for is as its remaining steps need it.
LEMMA HandlerStep ==
  ASSUME IInv, job # NULL, job' = job, Owned',
         \A e \in Envs : e # job => EnvState(e)' = EnvState(e),
         status' = status,
         Empty(job)' \/ status[job] # "free",
         status[job] = "live" => env_page_directory'[job] # NULL /\ disk_env_pgdir'[job] # NULL,
         \A p \in Resident(job)' : page_table'[job][PDX[p]] # NULL,
         status[job] = "creating" => Creating',
         status[job] = "live" => Handling',
         env_page_directory' \in [Envs -> FrameOrNull],
         page_table' \in [Envs -> [Tables -> FrameOrNull]],
         page_table_entry' \in [Envs -> [Pages -> FrameOrNull]],
         disk_env_pgdir' \in [Envs -> FrameOrNull],
         disk_page_table' \in [Envs -> [Tables -> FrameOrNull]],
         ws' \in [Envs -> SUBSET Pages], pf' \in [Envs -> SUBSET Pages],
         held' \in FrameOrNull, todo' \in Seq(StepType)
  PROVE  IInv'
<1>1. job \in Envs /\ (\A e \in Envs : Holds(e)) /\ Progress /\ status \in [Envs -> Status]
  BY IInvFacts
<1>2. status[job] = "creating" \/ status[job] = "live"
  BY <1>1 DEF Progress
<1>3. \A e \in Envs : e # job => Holds(e)'
  BY <1>1, HoldsSame DEF Holds
<1>4. Holds(job)'
  BY <1>2 DEF Holds
<1>5. Progress'
  BY <1>2 DEF Progress
<1>6. job' \in Envs \cup {NULL} /\ (job' = NULL => todo' = <<>> /\ held' = NULL)
  BY <1>1
<1>7. status' \in [Envs -> Status]
  BY <1>1
<1>8. \A e \in Envs : Holds(e)'
  BY <1>3, <1>4
<1> QED BY <1>5, <1>6, <1>7, <1>8, IInvNext

\* A panic in a handler: what it leaves behind is what the status says.
LEMMA PanicStep ==
  ASSUME IInv, job # NULL, Panics, UNCHANGED <<framevars, dirvars, diskvars, ws, pf>>,
         status[job] = "live" => held = NULL
  PROVE  IInv' /\ LeakStep
<1>1. /\ job \in Envs /\ (\A e \in Envs : Holds(e)) /\ Progress /\ status \in [Envs -> Status]
      /\ Owned /\ TypeOK
  BY IInvFacts
<1>2. /\ env_page_directory' = env_page_directory /\ page_table' = page_table
      /\ page_table_entry' = page_table_entry /\ disk_env_pgdir' = disk_env_pgdir
      /\ disk_page_table' = disk_page_table /\ ws' = ws /\ pf' = pf
      /\ todo' = <<>> /\ job' = NULL /\ held' = NULL
  BY DEF Panics, dirvars, diskvars
<1>a. PICK j \in Envs : j = job
  BY <1>1
<1> DEFINE new == IF status[j] # "creating" THEN "panicked"
                  ELSE IF env_page_directory[j] = NULL THEN "free" ELSE "lost"
<1>3. status' = [status EXCEPT ![j] = new]
  BY <1>a DEF Panics
<1>4. /\ status'[j] = new /\ \A e \in Envs : e # j => status'[e] = status[e]
      /\ status' \in [Envs -> Status]
  BY <1>1, <1>3 DEF Status
<1>5. \A e \in Envs : e # j => EnvState(e)' = EnvState(e)
  BY <1>2, <1>4 DEF EnvState
<1>6. \A e \in Envs : e # j => Holds(e)'
  BY <1>1, <1>2, <1>5, <1>a, HoldsSame DEF Holds
<1>7. Resident(j)' = Resident(j) /\ (Empty(j)' <=> Empty(j))
  <2>1. Resident(j)' = Resident(j)
    BY <1>2 DEF Resident
  <2> QED BY <1>2, <2>1 DEF Empty
<1>8. /\ status[j] = "live" \/ (status[j] = "creating" /\ Creating)
      /\ status[j] = "live" => env_page_directory[j] # NULL /\ disk_env_pgdir[j] # NULL
      /\ \A p \in Resident(j) : page_table[j][PDX[p]] # NULL
      /\ status[j] = "creating" /\ env_page_directory[j] = NULL => Empty(j)
  BY <1>1, <1>a DEF Progress, Holds, Creating
<1>9. Holds(j)'
  BY <1>2, <1>4, <1>7, <1>8 DEF Holds
<1>10. /\ \A x \in Places : FrameAt(x)' \in {FrameAt(x), NULL}
       /\ held = NULL => \A x \in Places : FrameAt(x)' = FrameAt(x)
  <2>1. \A x \in Places : x \notin {Held} => FrameAt(x)' = FrameAt(x)
    BY <1>2, PlacesSame
  <2>2. FrameAt(Held)' = NULL /\ FrameAt(Held) = held
    BY <1>2, PlaceFacts, PlaceFactsNext DEF PlaceTable
  <2> QED BY <2>1, <2>2
<1>11. Owned' /\ (held = NULL => Leaked' = Leaked)
  BY <1>1, <1>2, <1>10, FramesStay
<1>12. LeakStep
  <2>1. CASE held = NULL
    BY <1>11, <2>1 DEF LeakStep
  <2>2. CASE held # NULL
    <3>1. /\ status[j] = "creating" /\ Doing({"load"})
          /\ env_page_directory[j] = NULL <=> Doing({"directory"})
      BY <1>8, <1>a, <2>2 DEF Creating
    <3>2. status'[j] = "lost"
      BY <1>4, <3>1 DEF Doing
    <3> QED BY <3>1, <3>2 DEF LeakStep
  <2> QED BY <2>1, <2>2
<1>13. Progress'
  BY <1>2 DEF Progress
<1>14. \A e \in Envs : Holds(e)'
  BY <1>6, <1>9
<1>15. <<>> \in Seq(StepType) /\ NULL \in FrameOrNull
  BY DEF FrameOrNull
<1>16. IInv'
  BY <1>2, <1>4, <1>11, <1>13, <1>14, <1>15, IInvFacts, IInvNext
<1> QED BY <1>12, <1>16

\* env_create is still at the same step.
LEMMA CreatingSame ==
  ASSUME Creating, ~Doing({"directory"}), todo' = todo, job' = job, ws' = ws,
         page_table_entry' = page_table_entry, env_page_directory' = env_page_directory,
         disk_env_pgdir'[job] = NULL => disk_env_pgdir[job] = NULL,
         held' # NULL => Doing({"load"})
  PROVE  Creating'
<1>1. Resident(job)' = Resident(job)
  BY DEF Resident
<1>2. Doing({"directory"})' = Doing({"directory"}) /\ Doing({"load"})' = Doing({"load"})
  BY DEF Doing
<1>3. env_page_directory[job] # NULL
  BY DEF Creating
<1> QED BY <1>1, <1>2, <1>3 DEF Creating

-----------------------------------------------------------------------------
(* The steps of the handlers *)

\* The directory of a new environment.
LEMMA AllocateDirectoryStep ==
  ASSUME IInv, AllocateDirectory
  PROVE  IInv' /\ LeakStep
<1>1. todo # <<>> /\ Head(todo).op = "directory"
  BY DEF AllocateDirectory, NeedsDirectory, Doing
<1>2. status[job] = "creating" /\ Creating /\ job # NULL /\ job \in Envs /\ Holds(job)
  BY <1>1, TodoFacts, HandlingCases
<1>3. /\ page_table' = page_table /\ page_table_entry' = page_table_entry
      /\ disk_env_pgdir' = disk_env_pgdir /\ disk_page_table' = disk_page_table
      /\ ws' = ws /\ pf' = pf /\ status' = status /\ job' = job /\ held' = held
      /\ todo' = Tail(todo)
  BY DEF AllocateDirectory, diskvars
<1>4. PICK f \in Frames : /\ allocate_frame(f, 1)
                          /\ env_page_directory' = [env_page_directory EXCEPT ![job] = f]
  BY DEF AllocateDirectory
<1>5. /\ env_page_directory'[job] = f /\ f # NULL
      /\ \A e \in Envs : e # job => env_page_directory'[e] = env_page_directory[e]
      /\ env_page_directory' \in [Envs -> FrameOrNull]
  BY <1>2, <1>4, IInvFacts, FrameConstants DEF FrameOrNull
<1>6. env_page_directory[job] = NULL /\ held = NULL /\ Resident(job) = ws[job]
  BY <1>1 , <1>2 DEF Creating, Doing
<1>7. PICK x0 \in Places : x0 = DirectoryOf(job)
  BY <1>2, PlaceFacts DEF PlaceTable
<1>8. \A x \in Places : x \notin {x0} => FrameAt(x)' = FrameAt(x)
  BY <1>3, <1>5, <1>7, PlacesSame
<1>9. FrameAt(x0) = NULL /\ FrameAt(x0)' = f /\ x0 # Held
  <2>1. DirectoryOf(job)' = x0
    BY <1>3, <1>7 DEF DirectoryOf
  <2> QED BY <1>2, <1>3, <1>5, <1>6, <1>7, <2>1, PlaceFacts, PlaceFactsNext, PlacesDiffer
          DEF PlaceTable
<1>10. Owned' /\ Leaked' = Leaked
  BY <1>4, <1>8, <1>9, IInvFacts, FrameTaken
<1>11. \A e \in Envs : e # job => EnvState(e)' = EnvState(e)
  BY <1>3, <1>5 DEF EnvState
<1>12. Resident(job)' = ws'[job] /\ \A p \in Resident(job)' : page_table'[job][PDX[p]] # NULL
  BY <1>2, <1>3, <1>6 DEF Resident, Holds
<1>13. Creating'
  BY <1>1, <1>2, <1>3, <1>5, <1>6, <1>12, CreatingAdvance
<1>14. todo' \in Seq(StepType)
  BY <1>1, <1>3, TodoFacts
<1>15. IInv'
  BY <1>2, <1>3, <1>5, <1>10, <1>11, <1>12, <1>13, <1>14, IInvFacts, HandlerStep
<1> QED BY <1>10, <1>15 DEF LeakStep

\* The frame of a page, which no entry holds yet.
LEMMA AllocatePageStep ==
  ASSUME IInv, AllocatePage
  PROVE  IInv' /\ LeakStep
<1>1. todo # <<>> /\ Head(todo).op \in {"load", "map"} /\ held = NULL
  BY DEF AllocatePage, NeedsPage, Doing
<1>2. /\ job # NULL /\ job \in Envs /\ Holds(job)
      /\ (status[job] = "creating" /\ Creating) \/ (status[job] = "live" /\ Handling)
  BY <1>1, TodoFacts
<1>3. /\ env_page_directory' = env_page_directory /\ page_table' = page_table
      /\ page_table_entry' = page_table_entry
      /\ disk_env_pgdir' = disk_env_pgdir /\ disk_page_table' = disk_page_table
      /\ ws' = ws /\ pf' = pf /\ status' = status /\ job' = job /\ todo' = todo
  BY DEF AllocatePage, dirvars, diskvars
<1>4. PICK f \in Frames : allocate_frame(f, 0) /\ held' = f
  BY DEF AllocatePage
<1>5. \A x \in Places : x \notin {Held} => FrameAt(x)' = FrameAt(x)
  BY <1>3, PlacesSame
<1>6. Held \in Places /\ FrameAt(Held) = NULL /\ FrameAt(Held)' = f
  BY <1>1, <1>4, PlaceFacts, PlaceFactsNext DEF PlaceTable
<1>7. Owned' /\ Leaked' = Leaked
  BY <1>4, <1>5, <1>6, IInvFacts, FrameTaken
<1>8. Resident(job)' = Resident(job)
  BY <1>3 DEF Resident
<1>9. \A e \in Envs : EnvState(e)' = EnvState(e)
  BY <1>3 DEF EnvState
<1>10. status[job] = "creating" => Creating'
  <2> SUFFICES ASSUME status[job] = "creating" PROVE Creating'
    OBVIOUS
  <2>1. Creating /\ Head(todo).op = "load"
    <3>1. todo[1].op \in {"directory", "load", "pf", "pf_or_panic"}
      BY <1>1, <1>2, TodoFacts DEF Creating
    <3> QED BY <1>1, <1>2, <3>1, TodoFacts
  <2>2. Doing({"load"}) /\ ~Doing({"directory"})
    BY <1>1, <2>1 DEF Doing
  <2> QED BY <1>3, <2>1, <2>2, CreatingSame
<1>11. status[job] = "live" => Handling'
  <2> SUFFICES ASSUME status[job] = "live" PROVE Handling'
    OBVIOUS
  <2>1. Handling
    BY <1>2
  <2>2. PICK p \in Pages : /\ Head(todo) = Step("map", p) /\ Tail(todo) \in AfterMap(p)
                           /\ page_table[job][PDX[p]] # NULL
                           /\ p \notin ws[job] /\ Resident(job) = ws[job]
    BY <1>1, <2>1, HandlingCases, TodoFacts DEF table
  <2> QED BY <1>1, <1>3, <1>8, <2>2 DEF Handling
<1>12. \A p \in Resident(job)' : page_table'[job][PDX[p]] # NULL
  BY <1>2, <1>3, <1>8 DEF Holds
<1>13. held' \in FrameOrNull
  BY <1>4 DEF FrameOrNull
<1>14. status[job] = "live" => env_page_directory'[job] # NULL /\ disk_env_pgdir'[job] # NULL
  BY <1>2, <1>3 DEF Holds
<1>15. status[job] # "free"
  BY <1>2
<1>16. IInv'
  BY <1>2, <1>3, <1>7, <1>9, <1>10, <1>11, <1>12, <1>13, <1>14, <1>15, IInvFacts, HandlerStep
<1> QED BY <1>7, <1>16 DEF LeakStep

\* A page table, for a table fault or for the page that is being mapped.
LEMMA StaticCptStep ==
  ASSUME IInv, static_cpt
  PROVE  IInv' /\ LeakStep
<1>1. todo # <<>> /\ Head(todo).op \in {"table", "load", "map"}
  BY DEF static_cpt, NeedsTable, Doing
<1>2. /\ job # NULL /\ job \in Envs /\ Holds(job) /\ table \in Tables /\ Tail(todo) \in Seq(StepType)
      /\ (status[job] = "creating" /\ Creating) \/ (status[job] = "live" /\ Handling)
  BY <1>1, TodoFacts
<1>3. /\ env_page_directory' = env_page_directory /\ page_table_entry' = page_table_entry
      /\ disk_env_pgdir' = disk_env_pgdir /\ disk_page_table' = disk_page_table
      /\ ws' = ws /\ pf' = pf /\ status' = status /\ job' = job /\ held' = held
      /\ todo' = IF Doing({"table"}) THEN Tail(todo) ELSE todo
  BY DEF static_cpt, diskvars
<1>4. PICK f \in Frames : /\ allocate_frame(f, 1)
                          /\ page_table' = [page_table EXCEPT ![job][table] = f]
  BY DEF static_cpt
<1>5. /\ page_table'[job][table] = f /\ f # NULL
      /\ \A e \in Envs, u \in Tables : e # job \/ u # table => page_table'[e][u] = page_table[e][u]
      /\ \A e \in Envs : e # job => page_table'[e] = page_table[e]
      /\ page_table' \in [Envs -> [Tables -> FrameOrNull]]
  BY <1>2, <1>4, IInvFacts, FrameConstants DEF FrameOrNull
<1>6. /\ page_table[job][table] = NULL
      /\ \/ status[job] = "creating" /\ Creating /\ Head(todo).op = "load"
         \/ status[job] = "live" /\ Head(todo).op = "table" /\ Tail(todo) = <<>> /\ held = NULL
            /\ Resident(job) = ws[job]
  <2>1. CASE status[job] = "creating" /\ Creating
    <3>1. todo[1].op \in {"directory", "load", "pf", "pf_or_panic"}
      BY <1>1, <2>1, TodoFacts DEF Creating
    <3>2. Head(todo).op = "load"
      BY <1>1, <3>1, TodoFacts
    <3> QED BY <2>1, <3>2 DEF static_cpt, NeedsTable, Doing
  <2>2. CASE status[job] = "live" /\ Handling
    <3>1. \/ Head(todo).op = "table" /\ Tail(todo) = <<>> /\ held = NULL
             /\ page_table[job][table] = NULL /\ Resident(job) = ws[job]
          \/ Head(todo).op = "map" /\ page_table[job][table] # NULL
      BY <1>1, <2>2, HandlingCases
    <3>2. Head(todo).op = "map" => page_table[job][table] = NULL
      BY DEF static_cpt, NeedsTable, Doing
    <3> QED BY <2>2, <3>1, <3>2
  <2> QED BY <1>2, <2>1, <2>2
<1>7. PICK x0 \in Places : x0 = TableOf(job, table)
  BY <1>2, PlaceFacts DEF PlaceTable
<1>a. PICK j \in Envs, u \in Tables : j = job /\ u = table
  BY <1>2
<1>8. \A x \in Places : x \notin {x0} => FrameAt(x)' = FrameAt(x)
  <2>1. x0 = TableOf(j, u) /\ \A e \in Envs, v \in Tables : e # j \/ v # u => page_table'[e][v] = page_table[e][v]
    BY <1>5, <1>7, <1>a
  <2> QED BY <1>3, <2>1, PlacesSame
<1>9. FrameAt(x0) = NULL /\ FrameAt(x0)' = f /\ x0 # Held
  <2>1. x0 = TableOf(j, u) /\ page_table'[j][u] = f /\ page_table[j][u] = NULL
    BY <1>5, <1>6, <1>7, <1>a
  <2> QED BY <2>1, PlaceFacts, PlaceFactsNext, PlacesDiffer DEF PlaceTable
<1>10. Owned' /\ Leaked' = Leaked
  BY <1>4, <1>8, <1>9, IInvFacts, FrameTaken
<1>11. \A e \in Envs : e # job => EnvState(e)' = EnvState(e)
  BY <1>3, <1>5 DEF EnvState
<1>12. Resident(job)' = Resident(job)
  BY <1>3 DEF Resident
<1>13. \A p \in Resident(job)' : page_table'[job][PDX[p]] # NULL
  <2>1. \A p \in Resident(job) : PDX[p] \in Tables /\ page_table[job][PDX[p]] # NULL
    BY <1>2, FrameConstants DEF Resident, Holds
  <2> QED BY <1>2, <1>5, <1>12, <2>1
<1>14. status[job] = "creating" => Creating'
  <2> SUFFICES ASSUME status[job] = "creating" PROVE Creating'
    OBVIOUS
  <2>1. Doing({"load"}) /\ ~Doing({"directory"}) /\ ~Doing({"table"})
    BY <1>1, <1>6 DEF Doing
  <2> QED BY <1>3, <1>6, <2>1, CreatingSame
<1>15. status[job] = "live" => Handling'
  <2> SUFFICES ASSUME status[job] = "live" PROVE Handling'
    OBVIOUS
  <2>1. Doing({"table"})
    BY <1>1, <1>6 DEF Doing
  <2> QED BY <1>3, <1>6, <1>12, <2>1 DEF Handling
<1>16. todo' \in Seq(StepType)
  BY <1>2, <1>3, IInvFacts
<1>17. /\ status[job] = "live" => env_page_directory'[job] # NULL /\ disk_env_pgdir'[job] # NULL
       /\ status[job] # "free"
  BY <1>2, <1>3 DEF Holds
<1>18. IInv'
  BY <1>2, <1>3, <1>5, <1>10, <1>11, <1>13, <1>14, <1>15, <1>16, <1>17, IInvFacts, HandlerStep
<1> QED BY <1>10, <1>18 DEF LeakStep

\* The page file's directory or one of its tables.
LEMMA DiskTableStep ==
  ASSUME IInv, get_disk_page_directory \/ get_disk_page_table
  PROVE  IInv' /\ LeakStep
<1>1. todo # <<>> /\ Head(todo).op \in {"pf", "pf_or_panic"}
  BY DEF get_disk_page_directory, get_disk_page_table, NeedsDiskDir, NeedsDiskTable, Doing
<1>2. /\ job # NULL /\ job \in Envs /\ Holds(job) /\ table \in Tables
      /\ (status[job] = "creating" /\ Creating) \/ (status[job] = "live" /\ Handling)
  BY <1>1, TodoFacts
<1>3. /\ env_page_directory' = env_page_directory /\ page_table_entry' = page_table_entry
      /\ page_table' = page_table
      /\ ws' = ws /\ pf' = pf /\ status' = status /\ job' = job /\ held' = held /\ todo' = todo
  BY DEF get_disk_page_directory, get_disk_page_table, dirvars
<1>a. PICK j \in Envs, u \in Tables : j = job /\ u = table
  BY <1>2
<1>4. PICK f \in Frames :
        /\ allocate_frame(f, 1)
        /\ \/ /\ disk_env_pgdir' = [disk_env_pgdir EXCEPT ![j] = f]
              /\ disk_page_table' = disk_page_table /\ disk_env_pgdir[j] = NULL
           \/ /\ disk_page_table' = [disk_page_table EXCEPT ![j][u] = f]
              /\ disk_env_pgdir' = disk_env_pgdir /\ disk_page_table[j][u] = NULL
  BY <1>a DEF get_disk_page_directory, get_disk_page_table, NeedsDiskDir, NeedsDiskTable
<1>5. /\ disk_page_table' \in [Envs -> [Tables -> FrameOrNull]]
      /\ disk_env_pgdir' \in [Envs -> FrameOrNull] /\ f # NULL
      /\ \A e \in Envs : e # j => /\ disk_env_pgdir'[e] = disk_env_pgdir[e]
                                  /\ disk_page_table'[e] = disk_page_table[e]
      /\ disk_env_pgdir'[j] = NULL => disk_env_pgdir[j] = NULL
  <2>1. /\ disk_env_pgdir \in [Envs -> FrameOrNull]
        /\ disk_page_table \in [Envs -> [Tables -> FrameOrNull]] /\ f # NULL
        /\ f \in FrameOrNull
    BY IInvFacts, FrameConstants DEF FrameOrNull
  <2>2. CASE /\ disk_env_pgdir' = [disk_env_pgdir EXCEPT ![j] = f]
             /\ disk_page_table' = disk_page_table
    BY <2>1, <2>2
  <2>3. CASE /\ disk_page_table' = [disk_page_table EXCEPT ![j][u] = f]
             /\ disk_env_pgdir' = disk_env_pgdir
    BY <2>1, <2>3
  <2> QED BY <1>4, <2>2, <2>3
<1>6. PICK x0 \in Places : /\ x0 # Held /\ FrameAt(x0) = NULL /\ FrameAt(x0)' = f
                           /\ \A x \in Places : x \notin {x0} => FrameAt(x)' = FrameAt(x)
  <2>1. CASE /\ disk_env_pgdir' = [disk_env_pgdir EXCEPT ![j] = f]
             /\ disk_page_table' = disk_page_table /\ disk_env_pgdir[j] = NULL
    <3>1. PICK x0 \in Places : x0 = DiskDirectoryOf(j)
      BY PlaceFacts DEF PlaceTable
    <3>2. /\ disk_env_pgdir'[j] = f
          /\ \A e \in Envs : e # j => disk_env_pgdir'[e] = disk_env_pgdir[e]
      BY <2>1, IInvFacts
    <3>3. \A x \in Places : x \notin {x0} => FrameAt(x)' = FrameAt(x)
      BY <1>3, <2>1, <3>1, <3>2, PlacesSame
    <3>4. FrameAt(x0) = NULL /\ FrameAt(x0)' = f /\ x0 # Held
      BY <2>1, <3>1, <3>2, PlaceFacts, PlaceFactsNext, PlacesDiffer DEF PlaceTable
    <3> QED BY <3>3, <3>4
  <2>2. CASE /\ disk_page_table' = [disk_page_table EXCEPT ![j][u] = f]
             /\ disk_env_pgdir' = disk_env_pgdir /\ disk_page_table[j][u] = NULL
    <3>1. PICK x0 \in Places : x0 = DiskTableOf(j, u)
      BY PlaceFacts DEF PlaceTable
    <3>2. /\ disk_page_table'[j][u] = f
          /\ \A e \in Envs, v \in Tables :
               e # j \/ v # u => disk_page_table'[e][v] = disk_page_table[e][v]
      BY <2>2, IInvFacts
    <3>3. \A x \in Places : x \notin {x0} => FrameAt(x)' = FrameAt(x)
      BY <1>3, <2>2, <3>1, <3>2, PlacesSame
    <3>4. FrameAt(x0) = NULL /\ FrameAt(x0)' = f /\ x0 # Held
      BY <2>2, <3>1, <3>2, PlaceFacts, PlaceFactsNext, PlacesDiffer DEF PlaceTable
    <3> QED BY <3>3, <3>4
  <2> QED BY <1>4, <2>1, <2>2
<1>7. Owned' /\ Leaked' = Leaked
  BY <1>4, <1>6, IInvFacts, FrameTaken
<1>8. \A e \in Envs : e # job => EnvState(e)' = EnvState(e)
  BY <1>3, <1>5, <1>a DEF EnvState
<1>9. Resident(job)' = Resident(job)
  BY <1>3 DEF Resident
<1>10. \A p \in Resident(job)' : page_table'[job][PDX[p]] # NULL
  BY <1>2, <1>3, <1>9 DEF Holds
<1>11. status[job] = "creating" => Creating'
  <2> SUFFICES ASSUME status[job] = "creating" PROVE Creating'
    OBVIOUS
  <2>1. Creating /\ ~Doing({"directory"}) /\ held = NULL
    BY <1>1, <1>2 DEF Doing, Creating
  <2> QED BY <1>3, <1>5, <1>a, <2>1, CreatingSame
<1>12. status[job] = "live" => Handling'
  <2> SUFFICES ASSUME status[job] = "live" PROVE Handling'
    OBVIOUS
  <2>1. Handling
    BY <1>2
  <2> QED BY <1>3, <1>9, <2>1 DEF Handling, AfterMap, Step
<1>13. /\ status[job] = "live" => env_page_directory'[job] # NULL /\ disk_env_pgdir'[job] # NULL
       /\ status[job] # "free"
  BY <1>2, <1>3, <1>5, <1>a DEF Holds
<1>14. IInv'
  BY <1>2, <1>3, <1>5, <1>7, <1>8, <1>10, <1>11, <1>12, <1>13, IInvFacts, HandlerStep
<1> QED BY <1>7, <1>14 DEF LeakStep

\* No frame is left.  Only env_create can be holding one then: the table of the
\* page that a fault maps was there before.
LEMMA OutOfFramesStep ==
  ASSUME IInv, OutOfFrames
  PROVE  IInv' /\ LeakStep
<1>1. todo # <<>>
  BY DEF OutOfFrames, NeedsDirectory, NeedsPage, NeedsTable, NeedsDiskDir, NeedsDiskTable, Doing
<1>2. /\ job # NULL
      /\ (status[job] = "creating" /\ Creating) \/ (status[job] = "live" /\ Handling)
  BY <1>1, TodoFacts
<1>3. status[job] = "live" => held = NULL
  <2> SUFFICES ASSUME status[job] = "live", held # NULL PROVE FALSE
    OBVIOUS
  <2>1. Head(todo).op = "map" /\ page_table[job][table] # NULL
    BY <1>1, <1>2, HandlingCases
  <2> QED BY <2>1 DEF OutOfFrames, NeedsDirectory, NeedsPage, NeedsTable, NeedsDiskDir,
                      NeedsDiskTable, Doing
<1>4. Panics /\ UNCHANGED <<framevars, dirvars, diskvars, ws, pf>>
  BY DEF OutOfFrames
<1> QED BY <1>2, <1>3, <1>4, PanicStep

\* The held frame is mapped, where no frame is: its page is not in the working
\* set, which is what is resident.
LEMMA MapFrameStep ==
  ASSUME IInv, map_frame
  PROVE  IInv' /\ LeakStep
<1>1. todo # <<>> /\ Head(todo).op \in {"load", "map"} /\ held # NULL
      /\ page_table[job][table] # NULL
  BY DEF map_frame, Doing
<1>2. /\ job # NULL /\ job \in Envs /\ Holds(job) /\ page \in Pages /\ table \in Tables
      /\ Tail(todo) \in Seq(StepType)
      /\ (status[job] = "creating" /\ Creating) \/ (status[job] = "live" /\ Handling)
  BY <1>1, TodoFacts
<1>3. /\ free_frame_list' = free_frame_list /\ corrupted' = corrupted
      /\ env_page_directory' = env_page_directory /\ page_table' = page_table
      /\ disk_env_pgdir' = disk_env_pgdir /\ disk_page_table' = disk_page_table
      /\ pf' = pf /\ status' = status /\ job' = job /\ held' = NULL /\ todo' = Tail(todo)
      /\ references' = [references EXCEPT ![held] = @ + 1]
      /\ page_table_entry' = [page_table_entry EXCEPT ![job][page] = held]
      /\ ws' = IF Doing({"load"}) THEN [ws EXCEPT ![job] = @ \cup {page}] ELSE ws
  BY DEF map_frame, diskvars
<1>4. /\ page \notin ws[job] /\ Resident(job) = ws[job]
      /\ \/ status[job] = "creating" /\ Creating /\ Head(todo).op = "load"
         \/ status[job] = "live" /\ Head(todo).op = "map" /\ Tail(todo) \in AfterMap(page)
  <2>1. CASE status[job] = "creating" /\ Creating
    <3>1. todo[1].op \in {"directory", "load", "pf", "pf_or_panic"}
      BY <1>1, <2>1, TodoFacts DEF Creating
    <3>2. Head(todo).op = "load" /\ Head(todo) = todo[1] /\ 1 \in 1..Len(todo)
      BY <1>1, <3>1, TodoFacts
    <3>3. todo[1].page \notin ws[job]
      BY <2>1, <3>2 DEF Creating
    <3> QED BY <2>1, <3>2, <3>3 DEF Creating, page
  <2>2. CASE status[job] = "live" /\ Handling
    BY <1>1, <2>2, HandlingCases
  <2> QED BY <1>2, <2>1, <2>2
<1>5. PICK j \in Envs, q \in Pages, h \in Frames : j = job /\ q = page /\ h = held
  BY <1>1, <1>2, IInvFacts DEF FrameOrNull
<1>6. /\ page_table_entry \in [Envs -> [Pages -> FrameOrNull]]
      /\ ws \in [Envs -> SUBSET Pages] /\ h \in FrameOrNull
  BY IInvFacts DEF FrameOrNull
<1>7. /\ page_table_entry'[j][q] = h /\ h # NULL
      /\ \A e \in Envs, p \in Pages :
           e # j \/ p # q => page_table_entry'[e][p] = page_table_entry[e][p]
      /\ \A e \in Envs : e # j => page_table_entry'[e] = page_table_entry[e]
      /\ page_table_entry' \in [Envs -> [Pages -> FrameOrNull]]
  BY <1>1, <1>3, <1>5, <1>6
<1>8. /\ ws' \in [Envs -> SUBSET Pages] /\ \A e \in Envs : e # j => ws'[e] = ws[e]
      /\ ws'[j] = IF Head(todo).op = "load" THEN ws[j] \cup {q} ELSE ws[j]
  BY <1>1, <1>3, <1>5, <1>6 DEF Doing
<1>9. page_table_entry[j][q] = NULL
  BY <1>4, <1>5 DEF Resident
<1>10. PICK x0 \in Places : x0 = PageOf(j, q)
  BY PlaceFacts DEF PlaceTable
<1>11. \A x \in Places : x \notin {x0, Held} => FrameAt(x)' = FrameAt(x)
  BY <1>3, <1>7, <1>10, PlacesSame
<1>12. FrameAt(x0) = NULL /\ FrameAt(x0)' = held /\ x0 # Held
  BY <1>5, <1>7, <1>9, <1>10, PlaceFacts, PlaceFactsNext, PlacesDiffer DEF PlaceTable
<1>13. Owned' /\ Leaked' = Leaked
  BY <1>1, <1>3, <1>11, <1>12, IInvFacts, FrameMoved
<1>14. \A e \in Envs : e # job => EnvState(e)' = EnvState(e)
  BY <1>3, <1>5, <1>7, <1>8 DEF EnvState
<1>15. Resident(j)' = ws[j] \cup {q}
  <2>1. Resident(j)' = Resident(j) \cup {q}
    BY <1>7 DEF Resident
  <2> QED BY <1>4, <1>5, <2>1
<1>16. \A p \in Resident(j)' : page_table'[j][PDX[p]] # NULL
  BY <1>1, <1>2, <1>3, <1>4, <1>5, <1>15 DEF Holds, table
<1>17. Resident(job)' = Resident(j)'
  BY <1>3, <1>5 DEF Resident
<1>18. status[job] = "creating" => Creating'
  <2> SUFFICES ASSUME status[job] = "creating" PROVE Creating'
    OBVIOUS
  <2>1. Creating /\ Head(todo).op = "load" /\ env_page_directory[job] # NULL
    BY <1>1, <1>4 DEF Creating, Doing
  <2>2. ws'[job] = ws[job] \cup {page} /\ Resident(job)' = ws'[job]
    BY <1>5, <1>8, <1>15, <1>17, <2>1
  <2> QED BY <1>1, <1>3, <2>1, <2>2, CreatingAdvance
<1>19. status[job] = "live" => Handling'
  <2> SUFFICES ASSUME status[job] = "live" PROVE Handling'
    OBVIOUS
  <2>1. todo' \in AfterMap(q) /\ ws'[job] = ws[job] /\ q \notin ws'[job]
    BY <1>3, <1>4, <1>5, <1>8
  <2>2. Resident(job)' = ws'[job] \cup {q}
    BY <1>5, <1>15, <1>17, <2>1
  <2>3. ws'[job'] = ws'[job]
    BY <1>3
  <2>4. AfterMap(q)' = AfterMap(q)
    BY DEF AfterMap, Step
  <2> QED BY <1>3, <2>1, <2>2, <2>3, <2>4 DEF Handling
<1>20. /\ status[job] = "live" => env_page_directory'[job] # NULL /\ disk_env_pgdir'[job] # NULL
       /\ status[job] # "free"
  BY <1>2, <1>3 DEF Holds
<1>21. held' \in FrameOrNull /\ todo' \in Seq(StepType)
  BY <1>2, <1>3 DEF FrameOrNull
<1>22. \A p \in Resident(job)' : page_table'[job][PDX[p]] # NULL
  BY <1>5, <1>16, <1>17
<1>23. IInv'
  BY <1>2, <1>3, <1>7, <1>8, <1>13, <1>14, <1>18, <1>19, <1>20, <1>21, <1>22, IInvFacts, HandlerStep
<1> QED BY <1>13, <1>23 DEF LeakStep

\* The frames of all places stay.
LEMMA NothingMoves ==
  ASSUME IInv, UNCHANGED framevars, UNCHANGED dirvars, UNCHANGED diskvars, held' = held
  PROVE  Owned' /\ Leaked' = Leaked
<1>1. /\ env_page_directory' = env_page_directory /\ page_table' = page_table
      /\ page_table_entry' = page_table_entry
      /\ disk_env_pgdir' = disk_env_pgdir /\ disk_page_table' = disk_page_table
  BY DEF dirvars, diskvars
<1>2. \A x \in Places : FrameAt(x)' = FrameAt(x)
  BY <1>1, PlaceCases, PlaceFacts, PlaceFactsNext DEF PlaceTable
<1> QED BY <1>2, IInvFacts, FramesStay

\* A page gets its place on the disk, or there is none.
LEMMA AddPageStep ==
  ASSUME IInv, pf_add_env_page
  PROVE  IInv' /\ LeakStep
<1>1. /\ todo # <<>> /\ Head(todo).op \in {"pf", "pf_or_panic"} /\ disk_env_pgdir[job] # NULL
      /\ UNCHANGED framevars /\ UNCHANGED dirvars /\ UNCHANGED diskvars /\ ws' = ws
  BY DEF pf_add_env_page, Doing
<1>2. /\ job # NULL /\ job \in Envs /\ Holds(job) /\ page \in Pages
      /\ Tail(todo) \in Seq(StepType)
      /\ (status[job] = "creating" /\ Creating) \/ (status[job] = "live" /\ Handling)
  BY <1>1, TodoFacts
<1>3. \/ /\ pf' \in [Envs -> SUBSET Pages] /\ todo' = Tail(todo)
         /\ status' = status /\ job' = job /\ held' = held
      \/ pf' = pf /\ Panics
  <2>1. pf \in [Envs -> SUBSET Pages]
    BY IInvFacts
  <2>2. [pf EXCEPT ![job] = @ \cup {page}] \in [Envs -> SUBSET Pages]
    BY <1>2, <2>1
  <2> QED BY <2>1, <2>2 DEF pf_add_env_page
<1>4. held = NULL
  BY <1>1, <1>2, HandlingCases DEF Creating, Doing
<1>5. CASE pf' = pf /\ Panics
  BY <1>1, <1>2, <1>4, <1>5, PanicStep
<1>6. CASE /\ pf' \in [Envs -> SUBSET Pages] /\ todo' = Tail(todo)
           /\ status' = status /\ job' = job /\ held' = held
  <2>1. Owned' /\ Leaked' = Leaked
    BY <1>1, <1>6, NothingMoves
  <2>2. /\ env_page_directory' = env_page_directory /\ page_table' = page_table
        /\ page_table_entry' = page_table_entry
        /\ disk_env_pgdir' = disk_env_pgdir /\ disk_page_table' = disk_page_table
    BY <1>1 DEF dirvars, diskvars
  <2>3. \A e \in Envs : EnvState(e)' = EnvState(e)
    BY <1>1, <1>6, <2>2 DEF EnvState
  <2>4. Resident(job)' = Resident(job)
    BY <1>6, <2>2 DEF Resident
  <2>5. status[job] = "creating" => Creating'
    <3> SUFFICES ASSUME status[job] = "creating" PROVE Creating'
      OBVIOUS
    <3>1. Creating /\ env_page_directory[job] # NULL /\ Resident(job) = ws[job]
      BY <1>1, <1>2 DEF Creating, Doing
    <3> QED BY <1>1, <1>4, <1>6, <2>2, <2>4, <3>1, CreatingAdvance
  <2>6. status[job] = "live" => Handling'
    <3> SUFFICES ASSUME status[job] = "live" PROVE Handling'
      OBVIOUS
    <3>1. PICK q \in Pages : q = page
      BY <1>2
    <3>2. AfterMap(q)' = AfterMap(q) /\ <<Step("ws", q)>> \in AfterMap(q)
      BY DEF AfterMap, Step
    <3>3. \/ todo' = <<>> /\ Resident(job)' = ws'[job']
          \/ todo' = <<Step("ws", q)>> /\ q \notin ws'[job'] /\ Resident(job)' = ws'[job'] \cup {q}
      BY <1>1, <1>2, <1>6, <2>4, <3>1, HandlingCases
    <3>4. todo' = <<Step("ws", q)>> => todo' \in AfterMap(q)'
      BY <3>2
    <3> QED BY <1>4, <1>6, <3>3, <3>4 DEF Handling
  <2>7. /\ status[job] = "live" => env_page_directory'[job] # NULL /\ disk_env_pgdir'[job] # NULL
        /\ status[job] # "free"
        /\ \A p \in Resident(job)' : page_table'[job][PDX[p]] # NULL
    BY <1>2, <2>2, <2>4 DEF Holds
  <2>8. todo' \in Seq(StepType)
    BY <1>2, <1>6
  <2>9. IInv'
    BY <1>1, <1>2, <1>6, <2>1, <2>2, <2>3, <2>5, <2>6, <2>7, <2>8, IInvFacts, HandlerStep
  <2> QED BY <2>1, <2>9 DEF LeakStep
<1> QED BY <1>3, <1>5, <1>6

\* The mapped page enters the working set, or was not to be accessed.
LEMMA PlacedStep ==
  ASSUME IInv, Placed
  PROVE  IInv' /\ LeakStep
<1>1. /\ todo # <<>> /\ Head(todo).op \in {"ws", "illegal"}
      /\ UNCHANGED framevars /\ UNCHANGED dirvars /\ UNCHANGED diskvars /\ pf' = pf
  BY DEF Placed, Doing
<1>2. /\ job # NULL /\ job \in Envs /\ Holds(job) /\ page \in Pages
  BY <1>1, TodoFacts
<1>3. status[job] = "live" /\ Handling
  <2>1. Creating => Head(todo).op \in {"directory", "load", "pf", "pf_or_panic"}
    BY <1>1, TodoFacts DEF Creating
  <2> QED BY <1>1, <2>1, TodoFacts
<1>4. Tail(todo) = <<>> /\ held = NULL /\ Resident(job) = ws[job] \cup {page}
  BY <1>1, <1>3, HandlingCases
<1>5. \/ /\ ws' = [ws EXCEPT ![job] = @ \cup {page}] /\ todo' = Tail(todo)
         /\ status' = status /\ job' = job /\ held' = held
      \/ ws' = ws /\ Panics
  BY DEF Placed
<1>6. CASE ws' = ws /\ Panics
  BY <1>1, <1>2, <1>4, <1>6, PanicStep
<1>7. CASE /\ ws' = [ws EXCEPT ![job] = @ \cup {page}] /\ todo' = Tail(todo)
           /\ status' = status /\ job' = job /\ held' = held
  <2>1. Owned' /\ Leaked' = Leaked
    BY <1>1, <1>7, NothingMoves
  <2>2. /\ env_page_directory' = env_page_directory /\ page_table' = page_table
        /\ page_table_entry' = page_table_entry
        /\ disk_env_pgdir' = disk_env_pgdir /\ disk_page_table' = disk_page_table
    BY <1>1 DEF dirvars, diskvars
  <2>3. /\ ws'[job] = ws[job] \cup {page} /\ ws' \in [Envs -> SUBSET Pages]
        /\ \A e \in Envs : e # job => ws'[e] = ws[e]
    BY <1>2, <1>7, IInvFacts
  <2>4. \A e \in Envs : e # job => EnvState(e)' = EnvState(e)
    BY <1>7, <2>2, <2>3 DEF EnvState
  <2>5. Resident(job)' = Resident(job)
    BY <1>7, <2>2 DEF Resident
  <2>6. Handling'
    BY <1>4, <1>7, <2>3, <2>5 DEF Handling
  <2>7. /\ env_page_directory'[job] # NULL /\ disk_env_pgdir'[job] # NULL
        /\ \A p \in Resident(job)' : page_table'[job][PDX[p]] # NULL
    BY <1>2, <1>3, <2>2, <2>5 DEF Holds
  <2>8. todo' \in Seq(StepType)
    BY <1>1, <1>7, TodoFacts
  <2>9. IInv'
    BY <1>1, <1>2, <1>3, <1>7, <2>1, <2>2, <2>3, <2>4, <2>6, <2>7, <2>8, IInvFacts, HandlerStep
  <2> QED BY <2>1, <2>9 DEF LeakStep
<1> QED BY <1>5, <1>6, <1>7

\* A handler returns: the environment it created or worked for is live, with the
\* directories that env_free will want.
LEMMA ReturnsStep ==
  ASSUME IInv, Returns
  PROVE  IInv' /\ LeakStep
<1>1. /\ todo = <<>> /\ job # NULL /\ job' = NULL /\ todo' = todo /\ held' = held
      /\ UNCHANGED framevars /\ UNCHANGED dirvars /\ UNCHANGED diskvars /\ ws' = ws /\ pf' = pf
      /\ status' = [status EXCEPT ![job] = IF @ = "creating" THEN "live" ELSE @]
  BY DEF Returns
<1>2. /\ job \in Envs /\ (\A e \in Envs : Holds(e)) /\ Progress /\ status \in [Envs -> Status]
  BY <1>1, IInvFacts
<1>3. PICK j \in Envs : j = job
  BY <1>2
<1>4. /\ held = NULL /\ Resident(j) = ws[j] /\ status[j] \in {"creating", "live"}
      /\ env_page_directory[j] # NULL /\ disk_env_pgdir[j] # NULL
  <2>1. CASE status[job] = "creating" /\ Creating
    BY <1>1, <1>3, <2>1 DEF Creating, Doing
  <2>2. CASE status[job] = "live" /\ Handling
    <3>1. \A p \in Pages : todo \notin AfterMap(p) /\ todo # <<Step("table", p)>>
                           /\ todo # <<Step("pf", p)>>
      BY <1>1 DEF AfterMap
    <3> QED BY <1>1, <1>2, <1>3, <2>2, <3>1 DEF Handling, Holds
  <2> QED BY <1>1, <1>2, <2>1, <2>2 DEF Progress
<1>5. Owned' /\ Leaked' = Leaked
  BY <1>1, NothingMoves
<1>6. /\ env_page_directory' = env_page_directory /\ page_table' = page_table
      /\ page_table_entry' = page_table_entry
      /\ disk_env_pgdir' = disk_env_pgdir /\ disk_page_table' = disk_page_table
  BY <1>1 DEF dirvars, diskvars
<1>7. /\ status'[j] = "live" /\ \A e \in Envs : e # j => status'[e] = status[e]
      /\ status' \in [Envs -> Status]
  BY <1>1, <1>2, <1>3, <1>4 DEF Status
<1>8. \A e \in Envs : e # j => Holds(e)'
  <2>1. \A e \in Envs : e # j => EnvState(e)' = EnvState(e)
    BY <1>1, <1>6, <1>7 DEF EnvState
  <2> QED BY <1>1, <1>2, <1>3, <2>1, HoldsSame DEF Holds
<1>9. Holds(j)'
  <2>1. Resident(j)' = Resident(j)
    BY <1>6 DEF Resident
  <2>2. \A p \in Resident(j) : page_table[j][PDX[p]] # NULL
    BY <1>2 DEF Holds
  <2> QED BY <1>1, <1>4, <1>6, <1>7, <2>1, <2>2 DEF Holds
<1>10. Progress' /\ \A e \in Envs : Holds(e)'
  BY <1>1, <1>8, <1>9 DEF Progress
<1>11. job' \in Envs \cup {NULL} /\ (job' = NULL => todo' = <<>> /\ held' = NULL)
       /\ todo' \in Seq(StepType) /\ held' \in FrameOrNull
  BY <1>1, <1>4, IInvFacts
<1>12. IInv'
  BY <1>1, <1>5, <1>6, <1>7, <1>10, <1>11, IInvFacts, IInvNext
<1> QED BY <1>5, <1>12 DEF LeakStep

-----------------------------------------------------------------------------
(* The handlers *)

\* A handler begins for a live environment.
LEMMA BeginStep ==
  ASSUME IInv, NEW e \in Envs, job = NULL, job' = e, held' = held, Owned',
         status[e] = "live", status' = status,
         env_page_directory' = env_page_directory, page_table' = page_table,
         disk_env_pgdir' = disk_env_pgdir, disk_page_table' = disk_page_table, pf' = pf,
         page_table_entry' \in [Envs -> [Pages -> FrameOrNull]],
         ws' \in [Envs -> SUBSET Pages],
         \A d \in Envs : d # e => page_table_entry'[d] = page_table_entry[d] /\ ws'[d] = ws[d],
         Resident(e)' \subseteq Resident(e),
         Handling', todo' \in Seq(StepType)
  PROVE  IInv'
<1>1. (\A d \in Envs : Holds(d)) /\ status \in [Envs -> Status] /\ e # NULL
  BY IInvFacts, FrameConstants
<1>2. \A d \in Envs : d # e => Holds(d)'
  <2>1. \A d \in Envs : d # e => EnvState(d)' = EnvState(d)
    BY DEF EnvState
  <2>2. \A d \in Envs : status[d] # "creating"
    BY <1>1, FrameConstants DEF Holds
  <2>3. \A d \in Envs : job # d
    BY FrameConstants
  <2> QED BY <1>1, <2>1, <2>2, <2>3, HoldsSame
<1>3. Holds(e)'
  BY <1>1 DEF Holds
<1>4. Progress' /\ \A d \in Envs : Holds(d)'
  BY <1>2, <1>3 DEF Progress
<1>5. job' \in Envs \cup {NULL} /\ (job' = NULL => todo' = <<>> /\ held' = NULL)
      /\ held' \in FrameOrNull /\ status' \in [Envs -> Status]
  BY <1>1, IInvFacts
<1> QED BY <1>4, <1>5, IInvFacts, IInvNext

\* Between two handlers, what is resident of a live environment is its working set.
LEMMA IdleFacts ==
  ASSUME IInv, NEW e \in Envs, Idle(e, "live")
  PROVE  /\ job = NULL /\ job # e /\ held = NULL /\ status[e] = "live"
         /\ Holds(e) /\ Resident(e) = ws[e]
<1>1. job = NULL /\ status[e] = "live" /\ job # e
  BY FrameConstants DEF Idle
<1>2. Holds(e) /\ held = NULL
  BY <1>1, IInvFacts
<1> QED BY <1>1, <1>2 DEF Holds

\* Steps of one and two elements.
LEMMA StepSeqs ==
  ASSUME NEW p \in Pages
  PROVE  /\ <<Step("table", p)>> \in Seq(StepType) /\ <<Step("pf", p)>> \in Seq(StepType)
         /\ Step("map", p) \in StepType
         /\ \A s \in AfterMap(p) : s \in Seq(StepType)
<1>1. \A op \in {"directory", "load", "map", "table", "pf", "pf_or_panic", "ws", "illegal"} :
        Step(op, p) \in StepType
  BY DEF Step, StepType
<1>2. /\ Step("table", p) \in StepType /\ Step("pf", p) \in StepType /\ Step("map", p) \in StepType
      /\ Step("ws", p) \in StepType /\ Step("pf_or_panic", p) \in StepType
      /\ Step("illegal", p) \in StepType
  BY <1>1
<1>3. \A a, b \in StepType : <<a>> \in Seq(StepType) /\ <<a, b>> \in Seq(StepType)
  OBVIOUS
<1> QED BY <1>2, <1>3, Zenon DEF AfterMap

\* A table fault, or an allocation: one step is to be done.
LEMMA TableFaultStep ==
  ASSUME IInv, NEW e \in Envs, NEW p \in Pages, table_fault_handler(e, p) \/ allocateMem(e, p)
  PROVE  IInv' /\ LeakStep
<1>1. /\ Idle(e, "live") /\ job' = e /\ held' = held
      /\ UNCHANGED framevars /\ UNCHANGED dirvars /\ UNCHANGED diskvars
      /\ ws' = ws /\ pf' = pf /\ status' = status
      /\ \/ todo' = <<Step("table", p)>> /\ page_table[e][PDX[p]] = NULL
         \/ todo' = <<Step("pf", p)>>
  BY DEF table_fault_handler, allocateMem, Begin
<1>2. job = NULL /\ held = NULL /\ status[e] = "live" /\ Resident(e) = ws[e]
  BY <1>1, IdleFacts
<1>3. Owned' /\ Leaked' = Leaked
  BY <1>1, NothingMoves
<1>4. /\ env_page_directory' = env_page_directory /\ page_table' = page_table
      /\ page_table_entry' = page_table_entry
      /\ disk_env_pgdir' = disk_env_pgdir /\ disk_page_table' = disk_page_table
  BY <1>1 DEF dirvars, diskvars
<1>5. Resident(e)' = Resident(e) /\ Resident(job)' = Resident(e)
  BY <1>1, <1>4 DEF Resident
<1>6. Handling'
  <2>1. CASE todo' = <<Step("table", p)>> /\ page_table[e][PDX[p]] = NULL
    BY <1>1, <1>2, <1>4, <1>5, <2>1 DEF Handling, Step
  <2>2. CASE todo' = <<Step("pf", p)>>
    BY <1>1, <1>2, <1>4, <1>5, <2>2 DEF Handling, Step
  <2> QED BY <1>1, <2>1, <2>2
<1>7. todo' \in Seq(StepType)
  BY <1>1, StepSeqs
<1>8. IInv'
  BY <1>1, <1>2, <1>3, <1>4, <1>5, <1>6, <1>7, IInvFacts, BeginStep
<1> QED BY <1>3, <1>8 DEF LeakStep

\* A page fault, which first takes the frame of a victim when the working set is
\* full.
LEMMA PageFaultStep ==
  ASSUME IInv, NEW e \in Envs, NEW p \in Pages, page_fault_handler(e, p)
  PROVE  IInv' /\ LeakStep
<1>1. /\ Idle(e, "live") /\ page_table[e][PDX[p]] # NULL /\ p \notin ws[e]
      /\ env_page_directory' = env_page_directory /\ page_table' = page_table
      /\ disk_env_pgdir' = disk_env_pgdir /\ disk_page_table' = disk_page_table
      /\ pf' = pf /\ status' = status /\ Placement(e, p)
  BY DEF page_fault_handler, diskvars
<1>2. job = NULL /\ held = NULL /\ status[e] = "live" /\ Resident(e) = ws[e]
  BY <1>1, IdleFacts
<1>3. /\ job' = e /\ held' = held
      /\ \E s \in AfterMap(p) : todo' = <<Step("map", p)>> \o s
  <2>1. \E s \in AfterMap(p) :
          s = IF p \in pf[e] THEN <<Step("ws", p)>>
              ELSE IF p \in Stack THEN <<Step("pf_or_panic", p), Step("ws", p)>>
              ELSE <<Step("illegal", p)>>
    BY DEF AfterMap
  <2> QED BY <1>1, <2>1 DEF Placement, Begin
<1>4. PICK s \in AfterMap(p) : todo' = <<Step("map", p)>> \o s
  BY <1>3
<1>5. /\ todo' # <<>> /\ Head(todo') = Step("map", p) /\ Tail(todo') = s
      /\ todo' \in Seq(StepType)
  <2>1. s \in Seq(StepType) /\ Step("map", p) \in StepType
    BY StepSeqs
  <2> QED BY <1>4, <2>1
<1>6. /\ page_table_entry \in [Envs -> [Pages -> FrameOrNull]]
      /\ ws \in [Envs -> SUBSET Pages]
  BY IInvFacts
<1>7. /\ Owned' /\ Leaked' = Leaked
      /\ page_table_entry' \in [Envs -> [Pages -> FrameOrNull]]
      /\ ws' \in [Envs -> SUBSET Pages]
      /\ \A d \in Envs : d # e => page_table_entry'[d] = page_table_entry[d] /\ ws'[d] = ws[d]
      /\ Resident(e)' \subseteq Resident(e) /\ Resident(e)' = ws'[e] /\ ws'[e] \subseteq ws[e]
  <2>1. CASE UNCHANGED <<framevars, page_table_entry, ws>>
    <3>1. page_table_entry' = page_table_entry /\ ws' = ws /\ UNCHANGED framevars
      BY <2>1
    <3>2. UNCHANGED dirvars /\ UNCHANGED diskvars
      BY <1>1, <3>1 DEF dirvars, diskvars
    <3>3. Owned' /\ Leaked' = Leaked
      BY <1>3, <3>1, <3>2, NothingMoves
    <3>4. Resident(e)' = Resident(e)
      BY <3>1 DEF Resident
    <3> QED BY <1>2, <1>6, <3>1, <3>3, <3>4
  <2>2. ASSUME NEW v \in ws[e], unmap_frame(e, {v}), ws' = [ws EXCEPT ![e] = @ \ {v}]
        PROVE  /\ Owned' /\ Leaked' = Leaked
               /\ page_table_entry' \in [Envs -> [Pages -> FrameOrNull]]
               /\ ws' \in [Envs -> SUBSET Pages]
               /\ \A d \in Envs : d # e => /\ page_table_entry'[d] = page_table_entry[d]
                                           /\ ws'[d] = ws[d]
               /\ Resident(e)' \subseteq Resident(e)
               /\ Resident(e)' = ws'[e] /\ ws'[e] \subseteq ws[e]
    <3>1. v \in Pages /\ page_table_entry[e][v] # NULL
      BY <1>2, <1>6 DEF Resident
    <3>2. FramesOf(e, {v}) = {page_table_entry[e][v]}
      BY <3>1 DEF FramesOf
    <3>3. /\ page_table_entry'[e][v] = NULL
          /\ \A d \in Envs, q \in Pages :
               d # e \/ q # v => page_table_entry'[d][q] = page_table_entry[d][q]
          /\ \A d \in Envs : d # e => page_table_entry'[d] = page_table_entry[d]
          /\ page_table_entry' \in [Envs -> [Pages -> FrameOrNull]]
      BY <1>6, <2>2, <3>1 DEF unmap_frame, FrameOrNull
    <3>4. PICK x0 \in Places : x0 = PageOf(e, v)
      BY <3>1, PlaceFacts DEF PlaceTable
    <3>5. \A x \in Places : x \notin {x0} => FrameAt(x)' = FrameAt(x)
      BY <1>1, <1>3, <3>3, <3>4, PlacesSame
    <3>6. FrameAt(x0) = page_table_entry[e][v] /\ FrameAt(x0)' = NULL /\ x0 # Held
      BY <3>1, <3>3, <3>4, PlaceFacts, PlaceFactsNext, PlacesDiffer DEF PlaceTable
    <3>7. Release({FrameAt(x0)}, {}) /\ FrameAt(x0) \in InUse
      BY <2>2, <3>1, <3>2, <3>6 DEF unmap_frame, InUse
    <3>8. Owned' /\ Leaked' = Leaked
      <4>1. Owned
        BY IInvFacts
      <4>2. PICK S, T, G : S = {FrameAt(x0)} /\ T = {} /\ G = {x0} /\ G \in SUBSET Places
        OBVIOUS
      <4>3. \A x \in Places \ G : FrameAt(x)' = FrameAt(x)
        BY <3>5, <4>2
      <4>4. /\ Release(S, T) /\ Held \notin G /\ S \cup T \subseteq InUse /\ S \cap T = {}
            /\ \A f \in S \cup T : \E x \in G : FrameAt(x) = f
            /\ \A x \in G : FrameAt(x)' = NULL
            /\ \A x \in G : FrameAt(x) \in S \cup T \cup {NULL}
        BY <3>6, <3>7, <4>2
      <4> QED BY <4>1, <4>2, <4>3, <4>4, FramesReleased
    <3>9. /\ ws' \in [Envs -> SUBSET Pages] /\ ws'[e] = ws[e] \ {v}
          /\ \A d \in Envs : d # e => ws'[d] = ws[d]
      BY <1>6, <2>2
    <3>10. Resident(e)' = Resident(e) \ {v}
      BY <3>1, <3>3 DEF Resident
    <3> QED BY <1>2, <3>3, <3>8, <3>9, <3>10
  <2> QED BY <2>1, <2>2 DEF page_fault_handler
<1>8. Handling'
  <2>1. s \in AfterMap(p)'
    BY DEF AfterMap, Step
  <2>2. Resident(job)' = ws'[e] /\ p \notin ws'[e]
    BY <1>1, <1>3, <1>7 DEF Resident
  <2>3. Step("map", p)' = Step("map", p)
    BY DEF Step
  <2> QED BY <1>1, <1>3, <1>5, <2>1, <2>2, <2>3 DEF Handling
<1>9. IInv'
  BY <1>1, <1>2, <1>3, <1>5, <1>7, <1>8, BeginStep
<1> QED BY <1>7, <1>9 DEF LeakStep

\* The frames in S and T are those of places in GS and in GT.
Sources(GS, GT, S, T) ==
  /\ GS \subseteq Places /\ GT \subseteq Places /\ Held \notin GS /\ Held \notin GT
  /\ \A x \in GS : x \notin GT
  /\ \A f \in S : f # NULL /\ \E x \in GS : FrameAt(x) = f
  /\ \A f \in T : f # NULL /\ \E x \in GT : FrameAt(x) = f

\* Such frames are in use, and no frame is in both.
LEMMA FramesApart ==
  ASSUME Owned, NEW GS, NEW GT, NEW S, NEW T, Sources(GS, GT, S, T)
  PROVE  /\ S \cup T \subseteq InUse /\ S \cap T = {}
         /\ \A f \in S \cup T : \E x \in GS \cup GT : FrameAt(x) = f
<1>1. S \cup T \subseteq InUse
  BY InUseFacts DEF Sources
<1>2. ASSUME NEW f \in S, f \in T PROVE FALSE
  <2>1. PICK x \in GS : FrameAt(x) = f /\ f # NULL
    BY DEF Sources
  <2>2. PICK y \in GT : FrameAt(y) = f
    BY <1>2 DEF Sources
  <2>3. x = y
    BY <2>1, <2>2 DEF Owned, NoFrameShared, Sources
  <2> QED BY <2>3 DEF Sources
<1> QED BY <1>1, <1>2 DEF Sources

\* An environment's step between handlers, none of which begins.
LEMMA IdleStep ==
  ASSUME IInv, NEW e \in Envs, job = NULL, job' = job, todo' = todo, held' = held, Owned',
         \A d \in Envs : d # e => EnvState(d)' = EnvState(d),
         Holds(e)', status' \in [Envs -> Status],
         env_page_directory' \in [Envs -> FrameOrNull],
         page_table' \in [Envs -> [Tables -> FrameOrNull]],
         page_table_entry' \in [Envs -> [Pages -> FrameOrNull]],
         disk_env_pgdir' \in [Envs -> FrameOrNull],
         disk_page_table' \in [Envs -> [Tables -> FrameOrNull]],
         ws' \in [Envs -> SUBSET Pages], pf' \in [Envs -> SUBSET Pages]
  PROVE  IInv'
<1>1. \A d \in Envs : Holds(d)
  BY IInvFacts
<1>2. \A d \in Envs : d # job /\ status[d] # "creating"
  BY <1>1, FrameConstants DEF Holds
<1>3. \A d \in Envs : Holds(d)'
  BY <1>1, <1>2, HoldsSame
<1>4. Progress'
  BY DEF Progress
<1>5. job' \in Envs \cup {NULL} /\ (job' = NULL => todo' = <<>> /\ held' = NULL)
      /\ held' \in FrameOrNull /\ todo' \in Seq(StepType)
  BY IInvFacts
<1> QED BY <1>3, <1>4, <1>5, IInvNext

\* An exit leaves everything where it is.
LEMMA ExitStep ==
  ASSUME IInv, NEW e \in Envs, env_exit(e)
  PROVE  IInv' /\ LeakStep
<1>1. /\ Idle(e, "live") /\ status' = [status EXCEPT ![e] = "exited"]
      /\ UNCHANGED framevars /\ UNCHANGED dirvars /\ UNCHANGED diskvars
      /\ ws' = ws /\ pf' = pf /\ todo' = todo /\ job' = job /\ held' = held
  BY DEF env_exit
<1>2. /\ job = NULL /\ held = NULL /\ status[e] = "live" /\ Resident(e) = ws[e] /\ Holds(e)
      /\ status \in [Envs -> Status]
  BY <1>1, IdleFacts, IInvFacts
<1>3. Owned' /\ Leaked' = Leaked
  BY <1>1, NothingMoves
<1>4. /\ env_page_directory' = env_page_directory /\ page_table' = page_table
      /\ page_table_entry' = page_table_entry
      /\ disk_env_pgdir' = disk_env_pgdir /\ disk_page_table' = disk_page_table
  BY <1>1 DEF dirvars, diskvars
<1>5. /\ status'[e] = "exited" /\ \A d \in Envs : d # e => status'[d] = status[d]
      /\ status' \in [Envs -> Status]
  BY <1>1, <1>2 DEF Status
<1>6. \A d \in Envs : d # e => EnvState(d)' = EnvState(d)
  BY <1>1, <1>4, <1>5 DEF EnvState
<1>7. Resident(e)' = Resident(e)
  BY <1>4 DEF Resident
<1>8. Holds(e)'
  BY <1>1, <1>2, <1>4, <1>5, <1>7 DEF Holds
<1>9. IInv'
  BY <1>1, <1>2, <1>3, <1>4, <1>5, <1>6, <1>8, IInvFacts, IdleStep
<1> QED BY <1>3, <1>9 DEF LeakStep

\* freeMem gives up the frame of the page and, when no other entry of it is in
\* use, that of its table.
LEMMA FreeMemStep ==
  ASSUME IInv, NEW e \in Envs, NEW p \in Pages, freeMem(e, p)
  PROVE  IInv' /\ LeakStep
<1> DEFINE P0 == {p} \cap ws[e]
           tables0 == {t \in {PDX[p]} : /\ page_table[e][t] # NULL
                                        /\ \A q \in Pages \ P0 :
                                             PDX[q] = t => page_table_entry[e][q] = NULL}
<1>1. /\ Idle(e, "live")
      /\ Release(FramesOf(e, P0), {page_table[e][t] : t \in tables0})
      /\ page_table_entry' = [page_table_entry EXCEPT ![e][p] = IF p \in P0 THEN NULL ELSE @]
      /\ page_table' =
           [page_table EXCEPT ![e] = [t \in Tables |-> IF t \in tables0 THEN NULL ELSE @[t]]]
      /\ ws' = [ws EXCEPT ![e] = @ \ P0]
      /\ pf' = [pf EXCEPT ![e] = @ \ {p}]
      /\ env_page_directory' = env_page_directory
      /\ disk_env_pgdir' = disk_env_pgdir /\ disk_page_table' = disk_page_table
      /\ status' = status /\ todo' = todo /\ job' = job /\ held' = held
  BY DEF freeMem, diskvars
<1>2. PICK P, tables : P = P0 /\ tables = tables0
  OBVIOUS
<1>3. /\ P \subseteq {p} /\ P \subseteq ws[e] /\ P \subseteq Pages
      /\ tables \subseteq Tables /\ \A t \in tables : page_table[e][t] # NULL
      /\ \A t \in tables, q \in Pages \ P : PDX[q] = t => page_table_entry[e][q] = NULL
      /\ p \in Pages \ P => p \notin ws[e]
  BY <1>2, FrameConstants
<1>4. /\ Release(FramesOf(e, P), {page_table[e][t] : t \in tables})
      /\ page_table_entry' = [page_table_entry EXCEPT ![e][p] = IF p \in P THEN NULL ELSE @]
      /\ page_table' =
           [page_table EXCEPT ![e] = [t \in Tables |-> IF t \in tables THEN NULL ELSE @[t]]]
      /\ ws' = [ws EXCEPT ![e] = @ \ P]
  BY <1>1, <1>2
<1> HIDE DEF P0, tables0
<1>5. /\ job = NULL /\ held = NULL /\ status[e] = "live" /\ Resident(e) = ws[e] /\ Holds(e)
  BY <1>1, IdleFacts
<1>6. /\ page_table_entry' \in [Envs -> [Pages -> FrameOrNull]]
      /\ \A q \in P : page_table_entry'[e][q] = NULL
      /\ \A d \in Envs : d # e => page_table_entry'[d] = page_table_entry[d]
      /\ \A d \in Envs, q \in Pages :
           d # e \/ q \notin P => page_table_entry'[d][q] = page_table_entry[d][q]
  <2>1. page_table_entry \in [Envs -> [Pages -> FrameOrNull]] /\ NULL \in FrameOrNull
    BY IInvFacts DEF FrameOrNull
  <2> QED BY <1>3, <1>4, <2>1
<1>7. /\ page_table' \in [Envs -> [Tables -> FrameOrNull]]
      /\ \A t \in tables : page_table'[e][t] = NULL
      /\ \A d \in Envs : d # e => page_table'[d] = page_table[d]
      /\ \A d \in Envs, t \in Tables : d # e \/ t \notin tables => page_table'[d][t] = page_table[d][t]
  <2>1. page_table \in [Envs -> [Tables -> FrameOrNull]] /\ NULL \in FrameOrNull
    BY IInvFacts DEF FrameOrNull
  <2> QED BY <1>3, <1>4, <2>1
<1>8. /\ ws' \in [Envs -> SUBSET Pages] /\ pf' \in [Envs -> SUBSET Pages]
      /\ ws'[e] = ws[e] \ P /\ \A d \in Envs : d # e => ws'[d] = ws[d]
  BY <1>1, <1>4, IInvFacts
<1>9. Owned' /\ Leaked' = Leaked
  <2>1. PICK GS, GT, S, T :
          /\ GS = {PageOf(e, q) : q \in P} /\ GT = {TableOf(e, t) : t \in tables}
          /\ S = FramesOf(e, P) /\ T = {page_table[e][t] : t \in tables}
    OBVIOUS
  <2>2. GS \subseteq Places /\ GT \subseteq Places
    BY <1>3, <2>1, PlaceFacts DEF PlaceTable
  <2>3. Held \notin GS /\ Held \notin GT
    BY <2>1, PlacesDiffer
  <2>4. ASSUME NEW x \in GS, x \in GT PROVE FALSE
    <3>1. PICK q \in P, t \in tables : x = PageOf(e, q) /\ x = TableOf(e, t)
      BY <2>1, <2>4
    <3> QED BY <3>1 DEF PageOf, TableOf
  <2>5. Owned
    BY IInvFacts
  <2>6. /\ S \cup T \subseteq InUse /\ S \cap T = {}
        /\ \A f \in S \cup T : \E x \in GS \cup GT : FrameAt(x) = f
    <3>1. \A f \in S : f # NULL /\ \E x \in GS : FrameAt(x) = f
      BY <1>3, <2>1, PlaceFacts DEF PlaceTable, FramesOf
    <3>2. \A f \in T : f # NULL /\ \E x \in GT : FrameAt(x) = f
      BY <1>3, <2>1, PlaceFacts DEF PlaceTable
    <3>3. Sources(GS, GT, S, T)
      BY <2>2, <2>3, <2>4, <3>1, <3>2 DEF Sources
    <3> QED BY <2>5, <3>3, FramesApart
  <2>7. \A x \in GS \cup GT : FrameAt(x)' = NULL
    BY <1>3, <1>6, <1>7, <2>1, PlaceFactsNext DEF PlaceTable
  <2>8. \A x \in Places : x \notin GS \cup GT => FrameAt(x)' = FrameAt(x)
    <3>1. \A d \in Envs, t \in Tables :
            TableOf(d, t) \in GS \cup GT \/ page_table'[d][t] = page_table[d][t]
      BY <1>7, <2>1
    <3>2. \A d \in Envs, q \in Pages :
            PageOf(d, q) \in GS \cup GT \/ page_table_entry'[d][q] = page_table_entry[d][q]
      BY <1>6, <2>1
    <3> QED BY <1>1, <3>1, <3>2, PlacesSame
  <2>9. \A x \in GS \cup GT : FrameAt(x) \in S \cup T \cup {NULL}
    BY <1>3, <2>1, PlaceFacts DEF PlaceTable, FramesOf
  <2>10. PICK G : G = GS \cup GT /\ G \in SUBSET Places
    BY <2>2
  <2>11. Release(S, T)
    BY <1>4, <2>1
  <2> QED BY <2>3, <2>5, <2>6, <2>7, <2>8, <2>9, <2>10, <2>11, FramesReleased
<1>10. \A d \in Envs : d # e => EnvState(d)' = EnvState(d)
  BY <1>1, <1>6, <1>7, <1>8 DEF EnvState
<1>11. Resident(e)' = Resident(e) \ P
  BY <1>3, <1>6 DEF Resident
<1>12. ASSUME NEW q \in Resident(e)' PROVE page_table'[e][PDX[q]] # NULL
  <2>1. q \in Pages /\ q \notin P /\ page_table_entry[e][q] # NULL /\ q \in Resident(e)
    BY <1>11 DEF Resident
  <2>2. page_table[e][PDX[q]] # NULL /\ PDX[q] \in Tables
    BY <1>5, <2>1, FrameConstants DEF Holds
  <2>3. PDX[q] \notin tables
    BY <1>3, <2>1
  <2> QED BY <1>7, <2>2, <2>3
<1>13. Holds(e)'
  BY <1>1, <1>5, <1>8, <1>11, <1>12 DEF Holds
<1>14. IInv'
  BY <1>1, <1>5, <1>6, <1>7, <1>8, <1>9, <1>10, <1>13, IInvFacts, IdleStep
<1> QED BY <1>9, <1>14 DEF LeakStep

\* env_free gives up every frame of the environment; one that a panic stopped
\* may have a page that its working set does not name.
LEMMA FreeStep ==
  ASSUME IInv, NEW e \in Envs, env_free(e)
  PROVE  IInv' /\ LeakStep
<1>1. /\ job = NULL /\ status[e] \in {"live", "exited", "panicked"}
      /\ Release(FramesOf(e, ws[e]) \cup TablesOf(disk_page_table[e]) \cup {disk_env_pgdir[e]},
                 TablesOf(page_table[e]) \cup {env_page_directory[e]})
      /\ env_page_directory' = [env_page_directory EXCEPT ![e] = NULL]
      /\ page_table' = [page_table EXCEPT ![e] = [t \in Tables |-> NULL]]
      /\ page_table_entry' = [page_table_entry EXCEPT ![e] = [p \in Pages |-> NULL]]
      /\ disk_env_pgdir' = [disk_env_pgdir EXCEPT ![e] = NULL]
      /\ disk_page_table' = [disk_page_table EXCEPT ![e] = [t \in Tables |-> NULL]]
      /\ ws' = [ws EXCEPT ![e] = {}]
      /\ pf' = [pf EXCEPT ![e] = {}]
      /\ status' = [status EXCEPT ![e] = "free"]
      /\ todo' = todo /\ job' = job /\ held' = held
  BY DEF env_free
<1>2. Holds(e) /\ job # e
  BY <1>1, IInvFacts, FrameConstants
<1>3. /\ env_page_directory[e] # NULL /\ disk_env_pgdir[e] # NULL
      /\ status[e] # "panicked" => Resident(e) = ws[e]
  BY <1>1, <1>2 DEF Holds
<1>4. NULL \in FrameOrNull
  BY DEF FrameOrNull
<1>5. /\ env_page_directory' \in [Envs -> FrameOrNull] /\ env_page_directory'[e] = NULL
      /\ \A d \in Envs : d # e => env_page_directory'[d] = env_page_directory[d]
  BY <1>1, <1>4, IInvFacts
<1>6. /\ disk_env_pgdir' \in [Envs -> FrameOrNull] /\ disk_env_pgdir'[e] = NULL
      /\ \A d \in Envs : d # e => disk_env_pgdir'[d] = disk_env_pgdir[d]
  BY <1>1, <1>4, IInvFacts
<1>7. /\ page_table' \in [Envs -> [Tables -> FrameOrNull]]
      /\ \A t \in Tables : page_table'[e][t] = NULL
      /\ \A d \in Envs : d # e => page_table'[d] = page_table[d]
  BY <1>1, <1>4, IInvFacts
<1>8. /\ disk_page_table' \in [Envs -> [Tables -> FrameOrNull]]
      /\ \A t \in Tables : disk_page_table'[e][t] = NULL
      /\ \A d \in Envs : d # e => disk_page_table'[d] = disk_page_table[d]
  BY <1>1, <1>4, IInvFacts
<1>9. /\ page_table_entry' \in [Envs -> [Pages -> FrameOrNull]]
      /\ \A q \in Pages : page_table_entry'[e][q] = NULL
      /\ \A d \in Envs : d # e => page_table_entry'[d] = page_table_entry[d]
  BY <1>1, <1>4, IInvFacts
<1>10. /\ ws' \in [Envs -> SUBSET Pages] /\ pf' \in [Envs -> SUBSET Pages]
       /\ ws'[e] = {} /\ \A d \in Envs : d # e => ws'[d] = ws[d]
       /\ ws[e] \subseteq Pages
  BY <1>1, IInvFacts
<1>11. /\ status' \in [Envs -> Status] /\ status'[e] = "free"
       /\ \A d \in Envs : d # e => status'[d] = status[d]
  BY <1>1, IInvFacts DEF Status
<1>12. Owned' /\ (status[e] # "panicked" => Leaked' = Leaked)
  <2>1. PICK PG, TB, DT :
          /\ PG = {PageOf(e, q) : q \in Pages} /\ TB = {TableOf(e, t) : t \in Tables}
          /\ DT = {DiskTableOf(e, t) : t \in Tables}
    OBVIOUS
  <2>2. PICK GS, GT : GS = PG \cup DT \cup {DiskDirectoryOf(e)} /\ GT = TB \cup {DirectoryOf(e)}
    OBVIOUS
  <2>3. PICK S, T :
          /\ S = FramesOf(e, ws[e]) \cup TablesOf(disk_page_table[e]) \cup {disk_env_pgdir[e]}
          /\ T = TablesOf(page_table[e]) \cup {env_page_directory[e]}
    OBVIOUS
  <2>4. GS \subseteq Places /\ GT \subseteq Places
    <3>1. PG \subseteq Places
      BY <2>1, PlaceFacts DEF PlaceTable
    <3>2. TB \subseteq Places /\ DT \subseteq Places
      BY <2>1, PlaceFacts DEF PlaceTable
    <3> QED BY <2>2, <3>1, <3>2, PlaceFacts DEF PlaceTable
  <2>5. Held \notin GS /\ Held \notin GT
    BY <2>1, <2>2, PlacesDiffer
  <2>6. ASSUME NEW x \in GS, x \in GT PROVE FALSE
    <3>1. \/ \E q \in Pages : x = PageOf(e, q)
          \/ \E t \in Tables : x = DiskTableOf(e, t)
          \/ x = DiskDirectoryOf(e)
      BY <2>1, <2>2
    <3>2. x = DirectoryOf(e) \/ \E t \in Tables : x = TableOf(e, t)
      BY <2>1, <2>2, <2>6
    <3>3. x[1] \in {"page", "disk_table", "disk_directory"}
      BY <3>1 DEF PageOf, DiskTableOf, DiskDirectoryOf
    <3>4. x[1] \in {"directory", "table"}
      BY <3>2 DEF DirectoryOf, TableOf
    <3> QED BY <3>3, <3>4
  <2>7. \A q \in Pages : PageOf(e, q) \in GS /\ FrameAt(PageOf(e, q)) = page_table_entry[e][q]
    BY <2>1, <2>2, PlaceFacts DEF PlaceTable
  <2>8. \A t \in Tables : /\ DiskTableOf(e, t) \in GS
                          /\ FrameAt(DiskTableOf(e, t)) = disk_page_table[e][t]
                          /\ TableOf(e, t) \in GT /\ FrameAt(TableOf(e, t)) = page_table[e][t]
    BY <2>1, <2>2, PlaceFacts DEF PlaceTable
  <2>9. /\ DiskDirectoryOf(e) \in GS /\ FrameAt(DiskDirectoryOf(e)) = disk_env_pgdir[e]
        /\ DirectoryOf(e) \in GT /\ FrameAt(DirectoryOf(e)) = env_page_directory[e]
    BY <2>2, PlaceFacts DEF PlaceTable
  <2>10. ASSUME NEW f \in S PROVE f # NULL /\ \E x \in GS : FrameAt(x) = f
    <3>1. \/ \E q \in Pages : f = page_table_entry[e][q] /\ f # NULL
          \/ \E t \in Tables : f = disk_page_table[e][t] /\ f # NULL
          \/ f = disk_env_pgdir[e]
      BY <1>10, <2>3 DEF FramesOf, TablesOf
    <3> QED BY <1>3, <2>7, <2>8, <2>9, <3>1
  <2>11. ASSUME NEW f \in T PROVE f # NULL /\ \E x \in GT : FrameAt(x) = f
    <3>1. f = env_page_directory[e] \/ \E t \in Tables : f = page_table[e][t] /\ f # NULL
      BY <2>3 DEF TablesOf
    <3> QED BY <1>3, <2>8, <2>9, <3>1
  <2>12. Owned
    BY IInvFacts
  <2>13. /\ S \cup T \subseteq InUse /\ S \cap T = {}
         /\ \A f \in S \cup T : \E x \in GS \cup GT : FrameAt(x) = f
    <3>1. Sources(GS, GT, S, T)
      BY <2>4, <2>5, <2>6, <2>10, <2>11 DEF Sources
    <3> QED BY <2>12, <3>1, FramesApart
  <2>14. ASSUME NEW x \in GS \cup GT
         PROVE  \/ \E q \in Pages : x = PageOf(e, q)
                \/ \E t \in Tables : x = DiskTableOf(e, t) \/ x = TableOf(e, t)
                \/ x = DiskDirectoryOf(e) \/ x = DirectoryOf(e)
    BY <2>1, <2>2
  <2>15. \A x \in GS \cup GT : FrameAt(x)' = NULL
    <3>1. /\ \A q \in Pages : FrameAt(PageOf(e, q))' = NULL
          /\ \A t \in Tables : FrameAt(DiskTableOf(e, t))' = NULL /\ FrameAt(TableOf(e, t))' = NULL
          /\ FrameAt(DiskDirectoryOf(e))' = NULL /\ FrameAt(DirectoryOf(e))' = NULL
      BY <1>5, <1>6, <1>7, <1>8, <1>9, PlaceFactsNext DEF PlaceTable
    <3> QED BY <2>14, <3>1
  <2>16. \A x \in Places : x \notin GS \cup GT => FrameAt(x)' = FrameAt(x)
    <3>1. \A d \in Envs :
            /\ DirectoryOf(d) \in GS \cup GT \/ env_page_directory'[d] = env_page_directory[d]
            /\ DiskDirectoryOf(d) \in GS \cup GT \/ disk_env_pgdir'[d] = disk_env_pgdir[d]
      BY <1>5, <1>6, <2>9
    <3>2. \A d \in Envs, t \in Tables :
            /\ TableOf(d, t) \in GS \cup GT \/ page_table'[d][t] = page_table[d][t]
            /\ DiskTableOf(d, t) \in GS \cup GT \/ disk_page_table'[d][t] = disk_page_table[d][t]
      BY <1>7, <1>8, <2>8
    <3>3. \A d \in Envs, q \in Pages :
            PageOf(d, q) \in GS \cup GT \/ page_table_entry'[d][q] = page_table_entry[d][q]
      BY <1>9, <2>7
    <3> QED BY <1>1, <3>1, <3>2, <3>3, PlacesSame
  <2>17. status[e] # "panicked" => \A x \in GS \cup GT : FrameAt(x) \in S \cup T \cup {NULL}
    <3> SUFFICES ASSUME status[e] # "panicked", NEW x \in GS \cup GT
                 PROVE  FrameAt(x) \in S \cup T \cup {NULL}
      OBVIOUS
    <3>1. \A q \in Pages : page_table_entry[e][q] \in S \cup {NULL}
      BY <1>3, <2>3 DEF Resident, FramesOf
    <3>2. \A t \in Tables : /\ disk_page_table[e][t] \in S \cup {NULL}
                            /\ page_table[e][t] \in T \cup {NULL}
      BY <2>3 DEF TablesOf
    <3>3. disk_env_pgdir[e] \in S /\ env_page_directory[e] \in T
      BY <2>3
    <3> QED BY <2>7, <2>8, <2>9, <2>14, <3>1, <3>2, <3>3
  <2>18. PICK G : G = GS \cup GT /\ G \in SUBSET Places
    BY <2>4
  <2>19. Release(S, T)
    BY <1>1, <2>3
  <2> QED BY <2>5, <2>12, <2>13, <2>15, <2>16, <2>17, <2>18, <2>19, FramesReleased
<1>13. \A d \in Envs : d # e => EnvState(d)' = EnvState(d)
  BY <1>5, <1>6, <1>7, <1>8, <1>9, <1>10, <1>11 DEF EnvState
<1>14. Resident(e)' = {}
  BY <1>9 DEF Resident
<1>15. Holds(e)'
  BY <1>5, <1>6, <1>7, <1>8, <1>10, <1>11, <1>14 DEF Holds, Empty
<1>16. IInv'
  BY <1>1, <1>5, <1>6, <1>7, <1>8, <1>9, <1>10, <1>11, <1>12, <1>13, <1>15, IdleStep
<1>17. LeakStep
  BY <1>11, <1>12 DEF LeakStep
<1> QED BY <1>16, <1>17

\* A concatenation, element by element.
LEMMA Concatenation ==
  ASSUME NEW T, NEW u \in Seq(T), NEW v \in Seq(T)
  PROVE  /\ u \o v \in Seq(T) /\ Len(u \o v) = Len(u) + Len(v)
         /\ \A i \in 1..Len(u) : (u \o v)[i] = u[i]
         /\ \A i \in (Len(u) + 1)..(Len(u) + Len(v)) : (u \o v)[i] = v[i - Len(u)]
OBVIOUS

\* The steps of env_create, one by one.
LEMMA CreationSteps ==
  ASSUME NEW n \in 0..Len(Code), NEW s,
         s = <<Step("directory", StackTop)>> \o Steps("load", SubSeq(Code, 1, n))
             \o Steps("pf_or_panic", Code) \o <<Step("load", StackTop), Step("pf", StackTop)>>
  PROVE  /\ s \in Seq(StepType) /\ Len(s) = n + Len(Code) + 3
         /\ s[1] = Step("directory", StackTop)
         /\ \A i \in 2..(n + 1) : s[i] = Step("load", Code[i - 1])
         /\ \A i \in (n + 2)..(n + Len(Code) + 1) : s[i] = Step("pf_or_panic", Code[i - (n + 1)])
         /\ s[n + Len(Code) + 2] = Step("load", StackTop)
         /\ s[n + Len(Code) + 3] = Step("pf", StackTop)
<1> DEFINE m == Len(Code)
           a == <<Step("directory", StackTop)>>
           b == Steps("load", SubSeq(Code, 1, n))
           c == Steps("pf_or_panic", Code)
           d == <<Step("load", StackTop), Step("pf", StackTop)>>
<1>1. Code \in Seq(Pages) /\ m \in Nat /\ n \in Nat /\ n <= m /\ StackTop \in Pages
  BY FrameConstants
<1>2. \A op \in {"directory", "load", "pf", "pf_or_panic"}, p \in Pages : Step(op, p) \in StepType
  BY DEF Step, StepType
<1>3. /\ SubSeq(Code, 1, n) \in Seq(Pages) /\ Len(SubSeq(Code, 1, n)) = n
      /\ \A i \in 1..n : SubSeq(Code, 1, n)[i] = Code[i]
  BY <1>1
<1>4. /\ \A i \in 1..m : Code[i] \in Pages
  BY <1>1
<1>5. a \in Seq(StepType) /\ Len(a) = 1 /\ a[1] = Step("directory", StackTop)
  <2>1. Step("directory", StackTop) \in StepType
    BY <1>1, <1>2
  <2> QED BY <2>1
<1>6. /\ b \in Seq(StepType) /\ Len(b) = n /\ \A i \in 1..n : b[i] = Step("load", Code[i])
  <2>1. b = [i \in 1..n |-> Step("load", SubSeq(Code, 1, n)[i])]
    BY <1>3 DEF Steps
  <2>2. \A i \in 1..n : Step("load", SubSeq(Code, 1, n)[i]) \in StepType
    BY <1>1, <1>2, <1>3, <1>4
  <2>3. b \in [1..n -> StepType]
    BY <2>1, <2>2
  <2>4. b \in Seq(StepType) /\ Len(b) = n
    BY <1>1, <2>3
  <2> QED BY <1>3, <2>1, <2>4
<1>7. /\ c \in Seq(StepType) /\ Len(c) = m /\ \A i \in 1..m : c[i] = Step("pf_or_panic", Code[i])
  <2>1. c = [i \in 1..m |-> Step("pf_or_panic", Code[i])]
    BY DEF Steps
  <2>2. \A i \in 1..m : Step("pf_or_panic", Code[i]) \in StepType
    BY <1>2, <1>4
  <2>3. c \in [1..m -> StepType]
    BY <2>1, <2>2
  <2>4. c \in Seq(StepType) /\ Len(c) = m
    BY <1>1, <2>3, SMTT(30)
  <2> QED BY <2>1, <2>4
<1>8. /\ d \in Seq(StepType) /\ Len(d) = 2
      /\ d[1] = Step("load", StackTop) /\ d[2] = Step("pf", StackTop)
  <2>1. Step("load", StackTop) \in StepType /\ Step("pf", StackTop) \in StepType
    BY <1>1, <1>2
  <2> QED BY <2>1
<1>9. s = ((a \o b) \o c) \o d
  OBVIOUS
<1> HIDE DEF a, b, c, d, m
<1>10. PICK ab : ab = a \o b
  OBVIOUS
<1>11. /\ ab \in Seq(StepType) /\ Len(ab) = 1 + n
       /\ \A i \in 1..1 : ab[i] = a[i]
       /\ \A i \in (1 + 1)..(1 + n) : ab[i] = b[i - 1]
  <2>1. a \in Seq(StepType) /\ b \in Seq(StepType)
    BY <1>5, <1>6
  <2>2. /\ a \o b \in Seq(StepType) /\ Len(a \o b) = Len(a) + Len(b)
        /\ \A i \in 1..Len(a) : (a \o b)[i] = a[i]
        /\ \A i \in (Len(a) + 1)..(Len(a) + Len(b)) : (a \o b)[i] = b[i - Len(a)]
    BY <2>1, Concatenation, Zenon
  <2> QED BY <1>5, <1>6, <1>10, <2>2
<1>12. PICK abc : abc = ab \o c
  OBVIOUS
<1>13. /\ abc \in Seq(StepType) /\ Len(abc) = (1 + n) + m
       /\ \A i \in 1..(1 + n) : abc[i] = ab[i]
       /\ \A i \in ((1 + n) + 1)..((1 + n) + m) : abc[i] = c[i - (1 + n)]
  <2>1. ab \in Seq(StepType) /\ c \in Seq(StepType)
    BY <1>7, <1>11
  <2>2. /\ ab \o c \in Seq(StepType) /\ Len(ab \o c) = Len(ab) + Len(c)
        /\ \A i \in 1..Len(ab) : (ab \o c)[i] = ab[i]
        /\ \A i \in (Len(ab) + 1)..(Len(ab) + Len(c)) : (ab \o c)[i] = c[i - Len(ab)]
    BY <2>1, Concatenation, Zenon
  <2> QED BY <1>7, <1>11, <1>12, <2>2
<1>14. s = abc \o d
  BY <1>9, <1>10, <1>12
<1>15. /\ s \in Seq(StepType) /\ Len(s) = n + m + 3
       /\ \A i \in 1..(n + m + 1) : s[i] = abc[i]
       /\ s[n + m + 2] = d[1] /\ s[n + m + 3] = d[2]
  <2>1. abc \in Seq(StepType) /\ d \in Seq(StepType)
    BY <1>8, <1>13
  <2>2. /\ abc \o d \in Seq(StepType) /\ Len(abc \o d) = Len(abc) + Len(d)
        /\ \A i \in 1..Len(abc) : (abc \o d)[i] = abc[i]
        /\ \A i \in (Len(abc) + 1)..(Len(abc) + Len(d)) : (abc \o d)[i] = d[i - Len(abc)]
    BY <2>1, Concatenation, Zenon
  <2>3. /\ s \in Seq(StepType) /\ Len(s) = ((1 + n) + m) + 2
        /\ \A i \in 1..((1 + n) + m) : s[i] = abc[i]
        /\ \A i \in (((1 + n) + m) + 1)..(((1 + n) + m) + 2) : s[i] = d[i - ((1 + n) + m)]
    BY <1>8, <1>13, <1>14, <2>2
  <2>4. /\ (1 + n) + m = n + m + 1
        /\ ((1 + n) + m) + 2 = n + m + 3 /\ n + m + 2 \in (((1 + n) + m) + 1)..(((1 + n) + m) + 2)
        /\ n + m + 3 \in (((1 + n) + m) + 1)..(((1 + n) + m) + 2)
        /\ (n + m + 2) - ((1 + n) + m) = 1 /\ (n + m + 3) - ((1 + n) + m) = 2
    BY <1>1
  <2>5. s[n + m + 2] = d[1] /\ s[n + m + 3] = d[2]
    BY <2>3, <2>4
  <2> QED BY <2>3, <2>4, <2>5
<1>16. s[1] = Step("directory", StackTop)
  <2>1. 1 \in 1..1 /\ 1 \in 1..(1 + n) /\ 1 \in 1..(n + m + 1)
    BY <1>1
  <2> QED BY <1>5, <1>11, <1>13, <1>15, <2>1
<1>17. ASSUME NEW i \in 2..(n + 1) PROVE s[i] = Step("load", Code[i - 1])
  <2>1. i \in 1..(1 + n) /\ i \in 1..(n + m + 1) /\ i - 1 \in 1..n /\ i \in (1 + 1)..(1 + n)
    BY <1>1
  <2>2. b[i - 1] = Step("load", Code[i - 1])
    BY <1>6, <2>1
  <2>3. s[i] = abc[i] /\ abc[i] = ab[i] /\ ab[i] = b[i - 1]
    BY <1>11, <1>13, <1>15, <2>1
  <2> QED BY <2>2, <2>3
<1>18. ASSUME NEW i \in (n + 2)..(n + m + 1) PROVE s[i] = Step("pf_or_panic", Code[i - (n + 1)])
  <2>1. /\ i \in 1..(n + m + 1) /\ i - (n + 1) \in 1..m /\ i - (n + 1) = i - (1 + n)
        /\ i \in ((1 + n) + 1)..((1 + n) + m)
    BY <1>1
  <2>2. c[i - (n + 1)] = Step("pf_or_panic", Code[i - (n + 1)])
    BY <1>7, <2>1
  <2>3. s[i] = abc[i] /\ abc[i] = c[i - (1 + n)]
    BY <1>13, <1>15, <2>1
  <2> QED BY <2>1, <2>2, <2>3
<1> QED BY <1>8, <1>15, <1>16, <1>17, <1>18 DEF m

\* env_create begins: the environment holds nothing yet, and the pages that it
\* will load are distinct.
LEMMA CreateStep ==
  ASSUME IInv, NEW e \in Envs, NEW n \in 0..Len(Code), env_create(e, n)
  PROVE  IInv' /\ LeakStep
<1> DEFINE m == Len(Code)
<1>1. /\ job = NULL /\ status[e] = "free" /\ status' = [status EXCEPT ![e] = "creating"]
      /\ job' = e /\ held' = held
      /\ todo' = <<Step("directory", StackTop)>> \o Steps("load", SubSeq(Code, 1, n))
                 \o Steps("pf_or_panic", Code) \o <<Step("load", StackTop), Step("pf", StackTop)>>
      /\ UNCHANGED framevars /\ UNCHANGED dirvars /\ UNCHANGED diskvars
      /\ ws' = ws /\ pf' = pf
  BY DEF env_create, Idle, Begin
<1>2. PICK s : s = todo'
  OBVIOUS
<1>3. /\ s \in Seq(StepType) /\ Len(s) = n + m + 3
      /\ s[1] = Step("directory", StackTop)
      /\ \A i \in 2..(n + 1) : s[i] = Step("load", Code[i - 1])
      /\ \A i \in (n + 2)..(n + m + 1) : s[i] = Step("pf_or_panic", Code[i - (n + 1)])
      /\ s[n + m + 2] = Step("load", StackTop)
      /\ s[n + m + 3] = Step("pf", StackTop)
  BY <1>1, <1>2, CreationSteps
<1>4. m \in Nat /\ n \in Nat /\ n <= m
  BY FrameConstants
<1> HIDE DEF m
<1>5. ASSUME NEW i \in 1..Len(s)
      PROVE  i = 1 \/ i \in 2..(n + 1) \/ i \in (n + 2)..(n + m + 1)
             \/ i = n + m + 2 \/ i = n + m + 3
  BY <1>3, <1>4
<1>6. \A op, p : Step(op, p).op = op /\ Step(op, p).page = p
  BY DEF Step
<1>7. \A i \in 1..Len(s) : /\ s[i].op \in {"directory", "load", "pf", "pf_or_panic"}
                           /\ s[i].op = "directory" => i = 1
                           /\ s[i].op = "load" => \/ i \in 2..(n + 1) /\ s[i].page = Code[i - 1]
                                                  \/ i = n + m + 2 /\ s[i].page = StackTop
  <2> SUFFICES ASSUME NEW i \in 1..Len(s)
               PROVE  /\ s[i].op \in {"directory", "load", "pf", "pf_or_panic"}
                      /\ s[i].op = "directory" => i = 1
                      /\ s[i].op = "load" => \/ i \in 2..(n + 1) /\ s[i].page = Code[i - 1]
                                             \/ i = n + m + 2 /\ s[i].page = StackTop
    OBVIOUS
  <2>1. CASE i = 1
    BY <1>3, <1>6, <2>1
  <2>2. CASE i \in 2..(n + 1)
    BY <1>3, <1>6, <2>2
  <2>3. CASE i \in (n + 2)..(n + m + 1)
    BY <1>3, <1>6, <2>3
  <2>4. CASE i = n + m + 2
    BY <1>3, <1>6, <2>4
  <2>5. CASE i = n + m + 3
    BY <1>3, <1>6, <2>5
  <2> QED BY <1>5, <2>1, <2>2, <2>3, <2>4, <2>5
<1>8. ASSUME NEW i \in 1..Len(s), NEW k \in 1..Len(s),
             s[i].op = "load", s[k].op = "load", s[i].page = s[k].page
      PROVE  i = k
  <2>1. \A j \in 2..(n + 1) : j - 1 \in 1..m /\ j \in Int
    BY <1>4
  <2>2. \A j \in 2..(n + 1) : Code[j - 1] # StackTop
    BY <2>1, FrameConstants DEF m
  <2>3. \A j, l \in 2..(n + 1) : Code[j - 1] = Code[l - 1] => j - 1 = l - 1
    BY <2>1, FrameConstants DEF m
  <2>4. \A j, l \in 2..(n + 1) : j - 1 = l - 1 => j = l
    BY <1>4
  <2>5. \/ i \in 2..(n + 1) /\ s[i].page = Code[i - 1]
        \/ i = n + m + 2 /\ s[i].page = StackTop
    BY <1>7, <1>8
  <2>6. \/ k \in 2..(n + 1) /\ s[k].page = Code[k - 1]
        \/ k = n + m + 2 /\ s[k].page = StackTop
    BY <1>7, <1>8
  <2>7. CASE i \in 2..(n + 1) /\ s[i].page = Code[i - 1] /\ k \in 2..(n + 1) /\ s[k].page = Code[k - 1]
    BY <1>8, <2>3, <2>4, <2>7
  <2> QED BY <1>8, <2>2, <2>5, <2>6, <2>7
<1>9. /\ Empty(e) /\ held = NULL /\ status \in [Envs -> Status]
      /\ (\A f \in Envs : Holds(f))
  BY <1>1, IInvFacts DEF Holds
<1>10. /\ env_page_directory' = env_page_directory /\ page_table' = page_table
       /\ page_table_entry' = page_table_entry
       /\ disk_env_pgdir' = disk_env_pgdir /\ disk_page_table' = disk_page_table
  BY <1>1 DEF dirvars, diskvars
<1>11. Resident(e)' = {} /\ ws'[e] = {} /\ Empty(e)'
  <2>1. Resident(e)' = Resident(e)
    BY <1>10 DEF Resident
  <2> QED BY <1>1, <1>9, <1>10, <2>1 DEF Empty
<1>12. Resident(job)' = Resident(e)' /\ Empty(job)' = Empty(e)'
  BY <1>1 DEF Resident, Empty
<1>13. Creating'
  <2>1. todo' # <<>> /\ Head(todo') = s[1] /\ Len(s) \in Nat
    BY <1>2, <1>3, <1>4
  <2>2. Doing({"directory"})'
    BY <1>3, <1>6, <2>1 DEF Doing
  <2>3. env_page_directory'[e] = NULL
    BY <1>9, <1>10 DEF Empty
  <2>4. todo'[Len(todo')].op = "pf"
    BY <1>2, <1>3, <1>6
  <2>5. \A i \in 2..Len(s) : i \in 1..Len(s) /\ i # 1
    BY <2>1
  <2>6. /\ \A i \in 1..Len(todo') : todo'[i].op \in {"directory", "load", "pf", "pf_or_panic"}
        /\ \A i \in 2..Len(todo') : todo'[i].op # "directory"
    BY <1>2, <1>7, <2>5
  <2>7. \A i, j \in 1..Len(todo') :
          todo'[i].op = "load" /\ todo'[j].op = "load" /\ todo'[i].page = todo'[j].page => i = j
    BY <1>2, <1>8
  <2>8. /\ env_page_directory'[job'] = NULL /\ Empty(job)' /\ Resident(job)' = ws'[job']
        /\ ws'[job'] = {} /\ held' = NULL
    BY <1>1, <1>9, <1>11, <1>12, <2>3
  <2> QED BY <2>1, <2>2, <2>4, <2>6, <2>7, <2>8 DEF Creating
<1>14. Owned' /\ Leaked' = Leaked
  BY <1>1, NothingMoves
<1>15. /\ status'[e] = "creating" /\ \A f \in Envs : f # e => status'[f] = status[f]
       /\ status' \in [Envs -> Status]
  BY <1>1, <1>9 DEF Status
<1>16. \A f \in Envs : f # e => Holds(f)'
  <2>1. \A f \in Envs : f # e => EnvState(f)' = EnvState(f)
    BY <1>1, <1>10, <1>15 DEF EnvState
  <2>2. \A f \in Envs : f # job /\ status[f] # "creating"
    BY <1>1, <1>9, FrameConstants DEF Holds
  <2> QED BY <1>9, <2>1, <2>2, HoldsSame
<1>17. Holds(e)'
  BY <1>1, <1>11, <1>15 DEF Holds
<1>18. Progress' /\ \A f \in Envs : Holds(f)'
  BY <1>1, <1>13, <1>15, <1>16, <1>17 DEF Progress
<1>19. job' \in Envs \cup {NULL} /\ (job' = NULL => todo' = <<>> /\ held' = NULL)
       /\ held' \in FrameOrNull /\ todo' \in Seq(StepType)
  BY <1>1, <1>2, <1>3, IInvFacts, FrameConstants
<1>20. IInv'
  BY <1>1, <1>10, <1>14, <1>15, <1>18, <1>19, IInvFacts, IInvNext
<1> QED BY <1>14, <1>20 DEF LeakStep

-----------------------------------------------------------------------------
(* Invariance *)

\* At the start every frame is free.
LEMMA InitIInv == Init => IInv
<1> SUFFICES ASSUME Init PROVE IInv
  OBVIOUS
<1>1. /\ free_frame_list = Frames /\ references = [f \in Frames |-> 0] /\ corrupted = FALSE
      /\ env_page_directory = [e \in Envs |-> NULL]
      /\ page_table = [e \in Envs |-> [t \in Tables |-> NULL]]
      /\ page_table_entry = [e \in Envs |-> [p \in Pages |-> NULL]]
      /\ disk_env_pgdir = [e \in Envs |-> NULL]
      /\ disk_page_table = [e \in Envs |-> [t \in Tables |-> NULL]]
      /\ ws = [e \in Envs |-> {}] /\ pf = [e \in Envs |-> {}]
      /\ status = [e \in Envs |-> "free"]
      /\ todo = <<>> /\ job = NULL /\ held = NULL
  BY DEF Init
<1>2. NULL \in FrameOrNull /\ 0 \in Counts /\ <<>> \in Seq(StepType) /\ "free" \in Status
  BY CountFacts DEF FrameOrNull, Status
<1>3. /\ env_page_directory \in [Envs -> FrameOrNull]
      /\ page_table \in [Envs -> [Tables -> FrameOrNull]]
      /\ page_table_entry \in [Envs -> [Pages -> FrameOrNull]]
      /\ disk_env_pgdir \in [Envs -> FrameOrNull]
      /\ disk_page_table \in [Envs -> [Tables -> FrameOrNull]]
      /\ ws \in [Envs -> SUBSET Pages] /\ pf \in [Envs -> SUBSET Pages]
      /\ status \in [Envs -> Status] /\ references \in [Frames -> Counts]
      /\ free_frame_list \subseteq Frames /\ corrupted \in BOOLEAN
      /\ job \in Envs \cup {NULL} /\ held \in FrameOrNull /\ todo \in Seq(StepType)
  BY <1>1, <1>2
<1>4. TypeOK
  BY <1>1, <1>3, Zenon DEF TypeOK
<1>5. \A x \in Places : FrameAt(x) = NULL
  BY <1>1, PlaceCases, PlaceFacts DEF PlaceTable
<1>6. InUse = {}
  BY <1>5 DEF InUse
<1>7. NoFrameShared /\ ReferencesCounted
  BY <1>1, <1>5, <1>6 DEF NoFrameShared, ReferencesCounted
<1>8. \A e \in Envs : Holds(e)
  <2> SUFFICES ASSUME NEW e \in Envs PROVE Holds(e)
    OBVIOUS
  <2>1. Resident(e) = {} /\ status[e] = "free"
    BY <1>1 DEF Resident
  <2>2. Empty(e)
    BY <1>1, <2>1 DEF Empty
  <2> QED BY <2>1, <2>2 DEF Holds
<1>9. Progress
  BY <1>1 DEF Progress
<1> QED BY <1>4, <1>7, <1>8, <1>9 DEF IInv

\* Every step keeps the invariant and loses a frame at most by the two panics.
LEMMA NextIInv == IInv /\ [Next]_vars => IInv' /\ [LeakStep]_vars
<1> SUFFICES ASSUME IInv, [Next]_vars PROVE IInv' /\ [LeakStep]_vars
  OBVIOUS
<1>1. CASE Proceed
  <2>1. CASE AllocateDirectory
    BY <2>1, AllocateDirectoryStep
  <2>2. CASE AllocatePage
    BY <2>2, AllocatePageStep
  <2>3. CASE static_cpt
    BY <2>3, StaticCptStep
  <2>4. CASE get_disk_page_directory \/ get_disk_page_table
    BY <2>4, DiskTableStep
  <2>5. CASE OutOfFrames
    BY <2>5, OutOfFramesStep
  <2>6. CASE map_frame
    BY <2>6, MapFrameStep
  <2>7. CASE pf_add_env_page
    BY <2>7, AddPageStep
  <2>8. CASE Placed
    BY <2>8, PlacedStep
  <2>9. CASE Returns
    BY <2>9, ReturnsStep
  <2> QED BY <1>1, <2>1, <2>2, <2>3, <2>4, <2>5, <2>6, <2>7, <2>8, <2>9 DEF Proceed
<1>2. ASSUME NEW e \in Envs, NEW n \in 0..Len(Code), env_create(e, n)
      PROVE  IInv' /\ LeakStep
  BY <1>2, CreateStep
<1>3. ASSUME NEW e \in Envs, NEW p \in Pages, table_fault_handler(e, p)
      PROVE  IInv' /\ LeakStep
  BY <1>3, TableFaultStep
<1>4. ASSUME NEW e \in Envs, NEW p \in Pages, page_fault_handler(e, p)
      PROVE  IInv' /\ LeakStep
  BY <1>4, PageFaultStep
<1>5. ASSUME NEW e \in Envs, NEW p \in Heap, allocateMem(e, p) \/ freeMem(e, p)
      PROVE  IInv' /\ LeakStep
  <2>1. p \in Pages
    BY FrameConstants
  <2> QED BY <1>5, <2>1, TableFaultStep, FreeMemStep
<1>6. ASSUME NEW e \in Envs, env_exit(e) PROVE IInv' /\ LeakStep
  BY <1>6, ExitStep
<1>7. ASSUME NEW e \in Envs, env_free(e) PROVE IInv' /\ LeakStep
  BY <1>7, FreeStep
<1>8. CASE UNCHANGED vars
  <2>1. /\ UNCHANGED framevars /\ UNCHANGED dirvars /\ UNCHANGED diskvars
        /\ ws' = ws /\ pf' = pf /\ status' = status /\ todo' = todo /\ job' = job /\ held' = held
    BY <1>8 DEF vars, framevars, dirvars, diskvars
  <2>2. /\ env_page_directory' = env_page_directory /\ page_table' = page_table
        /\ page_table_entry' = page_table_entry
        /\ disk_env_pgdir' = disk_env_pgdir /\ disk_page_table' = disk_page_table
    BY <1>8 DEF vars
  <2>3. Owned'
    BY <2>1, NothingMoves
  <2>4. \A e \in Envs : Holds(e)'
    <3>1. \A e \in Envs : EnvState(e)' = EnvState(e)
      BY <2>1, <2>2 DEF EnvState
    <3> QED BY <2>1, <3>1, HoldsSame, IInvFacts DEF Holds
  <2>5. Progress'
    <3>1. \A e \in Envs : Resident(e)' = Resident(e) /\ Empty(e)' = Empty(e)
      BY <2>1, <2>2 DEF Resident, Empty
    <3>2. job # NULL => Resident(job)' = Resident(job) /\ Empty(job)' = Empty(job)
      BY <2>1, <2>2 DEF Resident, Empty
    <3>3. \A ops : Doing(ops)' = Doing(ops)
      BY <2>1 DEF Doing
    <3>4. job # NULL /\ Creating => Creating'
      BY <2>1, <2>2, <3>2, <3>3 DEF Creating
    <3>5. job # NULL /\ Handling => Handling'
      BY <2>1, <2>2, <3>2 DEF Handling, AfterMap, Step
    <3> QED BY <2>1, <3>4, <3>5, IInvFacts DEF Progress
  <2>6. IInv'
    BY <2>1, <2>2, <2>3, <2>4, <2>5, IInvFacts, IInvNext
  <2> QED BY <1>8, <2>6
<1> QED BY <1>1, <1>2, <1>3, <1>4, <1>5, <1>6, <1>7, <1>8 DEF Next

\* The invariant holds in every state that the frame manager reaches, for any
\* environments, pages, tables, frames and size of the page file.
THEOREM Invariance == Spec => []IInv
<1>1. Init => IInv
  BY InitIInv
<1>2. IInv /\ [Next]_vars => IInv'
  BY NextIInv
<1> QED BY <1>1, <1>2, PTL DEF Spec

\* The variables of the frame manager keep their types; in particular no
\* reference count leaves the range of the uint16 that holds it.
THEOREM TypeCorrect == Spec => []TypeOK
<1>1. IInv => TypeOK
  BY DEF IInv
<1> QED BY <1>1, Invariance, PTL

\* Every frame has one owner or is free, with the count that free_frame relies
\* on, and the working set of a live environment names exactly its frames: of
\* allocate_frame, map_frame, unmap_frame, freeMem and env_free together.
THEOREM FramesKept == Spec => []FramesAccounted
<1>1. IInv => FramesAccounted
  <2> SUFFICES ASSUME IInv PROVE FramesAccounted
    OBVIOUS
  <2>1. NoFrameShared /\ ReferencesCounted /\ \A e \in Envs : Holds(e)
    BY DEF IInv
  <2>2. WorkingSetHoldsFrames
    <3> SUFFICES ASSUME NEW e \in Envs, status[e] = "live", job # e
                 PROVE  /\ {p \in Pages : page_table_entry[e][p] # NULL} = ws[e]
                        /\ \A p \in ws[e] : page_table[e][PDX[p]] # NULL
                        /\ env_page_directory[e] # NULL /\ disk_env_pgdir[e] # NULL
      BY DEF WorkingSetHoldsFrames
    <3>1. Resident(e) = ws[e]
      BY <2>1 DEF Holds
    <3> QED BY <2>1, <3>1 DEF Holds, Resident
  <2> QED BY <2>1, <2>2 DEF FramesAccounted
<1> QED BY <1>1, Invariance, PTL

\* Frames are lost only by a panic during env_create, and by the freeing of an
\* environment whose page fault ended in a panic.
THEOREM LeaksKnown == Spec => LeakedOnlyByPanic
<1>1. IInv /\ [Next]_vars =>
        [\/ Leaked' = Leaked
         \/ \E e \in Envs : status[e] = "creating" /\ status'[e] = "lost"
         \/ \E e \in Envs : status[e] = "panicked" /\ status'[e] = "free"]_vars
  BY NextIInv DEF LeakStep
<1> QED BY <1>1, Invariance, PTL DEF Spec, LeakedOnlyByPanic

=============================================================================
