---------------------------- MODULE Runtime_proofs ----------------------------
(***************************************************************************)
(* Theorems about Runtime, for any number of sources, objects, pools,      *)
(* threads and data: the reference counts of the main loop's sources, the  *)
(* silence of removed sources, and what the object system reclaims.        *)
(***************************************************************************)
EXTENDS Runtime, FiniteSetTheorems, ListLemmas

\* The memory of an object with n references.
Cell(n) == IF n = 0 THEN Unallocated ELSE [live |-> TRUE, ref |-> n, pool |-> NoPool]

\* One more reference to an object that has some.
LEMMA RefCell ==
    ASSUME NEW h, NEW x \in DOMAIN h, NEW n \in Nat \ {0}, h[x] = Cell(n)
    PROVE  belle_sip_object_ref(h, x) = [h EXCEPT ![x] = Cell(n + 1)]
<1>1. PICK l : l = TRUE /\ h[x] = [live |-> l, ref |-> n, pool |-> NoPool]
  BY Zenon DEF Cell
<1>2. PICK m : m = n + 1
  OBVIOUS
<1>3. Cell(n + 1) = [live |-> l, ref |-> m, pool |-> NoPool]
  <2>1. n + 1 # 0
    OBVIOUS
  <2> QED
    BY <1>1, <1>2, <2>1, Zenon DEF Cell
<1>4. h[x] = [live |-> l, ref |-> n, pool |-> NoPool]
  BY <1>1
<1> HIDE DEF Cell
<1>5. PICK r : r = [h[x] EXCEPT !.ref = m]
  OBVIOUS
<1>6. r = [live |-> l, ref |-> m, pool |-> NoPool]
  BY <1>4, <1>5
<1>7. [r EXCEPT !.pool = NoPool] = [live |-> l, ref |-> m, pool |-> NoPool]
  BY <1>6
<1>8. belle_sip_object_ref(h, x) = [h EXCEPT ![x].ref = m, ![x].pool = NoPool]
  BY <1>2, <1>4 DEF belle_sip_object_ref
<1>9. [h EXCEPT ![x].ref = m, ![x].pool = NoPool] = [h EXCEPT ![x] = [r EXCEPT !.pool = NoPool]]
  BY <1>5
<1> QED
  BY <1>3, <1>7, <1>8, <1>9

\* One reference less.
LEMMA UnrefCell ==
    ASSUME NEW h, NEW x \in DOMAIN h, NEW n \in Nat \ {0}, h[x] = Cell(n)
    PROVE  belle_sip_object_unref(h, x) = [h EXCEPT ![x] = Cell(n - 1)]
<1>1. PICK l : l = TRUE /\ h[x] = [live |-> l, ref |-> n, pool |-> NoPool]
  BY Zenon DEF Cell
<1>2. h[x] = [live |-> l, ref |-> n, pool |-> NoPool]
  BY <1>1
<1>3. CASE n = 1
  BY <1>2, <1>3 DEF belle_sip_object_unref, belle_sip_object_delete, Cell
<1>4. CASE n # 1
  <2>1. PICK m : m = n - 1
    OBVIOUS
  <2>2. Cell(n - 1) = [live |-> l, ref |-> m, pool |-> NoPool]
    <3>1. n - 1 # 0
      BY <1>4
    <3> QED
      BY <1>1, <2>1, <3>1, Zenon DEF Cell
  <2>3. [h[x] EXCEPT !.ref = m] = [live |-> l, ref |-> m, pool |-> NoPool]
    BY <1>2
  <2>4. belle_sip_object_unref(h, x) = [h EXCEPT ![x].ref = m]
    BY <1>2, <1>4, <2>1 DEF belle_sip_object_unref
  <2>5. [h EXCEPT ![x].ref = m] = [h EXCEPT ![x] = [h[x] EXCEPT !.ref = m]]
    OBVIOUS
  <2> QED
    BY <2>2, <2>3, <2>4, <2>5
<1> QED
  BY <1>3, <1>4

-----------------------------------------------------------------------------
(***************************************************************************)
(* The main loop.                                                          *)
(***************************************************************************)
LoopTypeOK ==
    /\ memory = [o \in Sources \cup Floating |-> memory[o]]
    /\ src \in [Sources -> SourceFields]
    /\ sources \in Seq(Sources) /\ held \subseteq Sources
    /\ DOMAIN toNotify \subseteq Nat /\ toNotify \in [DOMAIN toNotify -> Sources]
    /\ running \in Sources \cup {Idle, "notify"}
    /\ pools \in Seq({"ml", "tmp", "lost"})

\* A source is once in each list; while a turn is under way there is a pool, and the source
\* whose callback runs is the first of those to be notified.
ListsInv ==
    /\ \A i, j \in 1..Len(sources) : sources[i] = sources[j] => i = j
    /\ \A i, j \in DOMAIN toNotify : toNotify[i] = toNotify[j] => i = j
    /\ running = Idle => Pending = {}
    /\ running # Idle => pools # <<>>
    /\ running \in Sources => Pending # {} /\ running = FirstToNotify

\* Each source has as many references as holders; a floating object is in the pool of the turn.
MemoryInv ==
    /\ \A s \in Sources : memory[s] = Cell(Holders(s))
    /\ \A o \in Floating :
         \/ memory[o] = Unallocated
         \/ running # Idle /\ memory[o] = [live |-> TRUE, ref |-> 0, pool |-> Head(pools)]

\* A source that was selected and is not in the main loop any more is marked as cancelled.
MarkedInv == \A s \in Pending : src[s].cancelled \/ s \in Linked

LoopInv == LoopTypeOK /\ ListsInv /\ MemoryInv /\ MarkedInv

\* The list of sources without one of them.
LEMMA WithoutSource ==
    ASSUME LoopInv, NEW s \in Linked
    PROVE  /\ Without(sources, s) \in Seq(Sources)
           /\ {Without(sources, s)[i] : i \in DOMAIN Without(sources, s)} = Linked \ {s}
           /\ \A i, j \in 1..Len(Without(sources, s)) :
                Without(sources, s)[i] = Without(sources, s)[j] => i = j
<1> DEFINE at == CHOOSE i \in DOMAIN sources : sources[i] = s
<1>1. sources \in Seq(Sources) /\ DOMAIN sources = 1..Len(sources)
  BY DEF LoopInv, LoopTypeOK
<1>2. at \in DOMAIN sources /\ sources[at] = s
  <2>1. \E i \in DOMAIN sources : sources[i] = s
    BY DEF Linked
  <2> QED
    BY <2>1, Zenon
<1>3. \A i, j \in 1..Len(sources) : sources[i] = sources[j] => i = j
  BY DEF LoopInv, ListsInv
<1>4. Without(sources, s) = RemoveAt(sources, at)
  BY DEF Without
<1> HIDE DEF at
<1>5. at \in 1..Len(sources)
  BY <1>1, <1>2
<1>6. RemoveAt(sources, at) \in Seq(Sources)
  BY <1>1, <1>5, RemoveAtProperties
<1>7. /\ {RemoveAt(sources, at)[j] : j \in DOMAIN RemoveAt(sources, at)}
           = {sources[j] : j \in DOMAIN sources} \ {sources[at]}
      /\ \A j, k \in 1..Len(RemoveAt(sources, at)) :
           RemoveAt(sources, at)[j] = RemoveAt(sources, at)[k] => j = k
  BY <1>1, <1>3, <1>5, RemoveAtElements
<1> QED
  BY <1>2, <1>4, <1>6, <1>7 DEF Linked

\* The first of the sources to be notified, and the others.
LEMMA FirstAndOthers ==
    ASSUME LoopInv, Pending # {}
    PROVE  /\ FirstToNotify \in Pending
           /\ DOMAIN OthersToNotify \subseteq Nat
           /\ OthersToNotify \in [DOMAIN OthersToNotify -> Sources]
           /\ {OthersToNotify[i] : i \in DOMAIN OthersToNotify} = Pending \ {FirstToNotify}
           /\ \A i, j \in DOMAIN OthersToNotify : OthersToNotify[i] = OthersToNotify[j] => i = j
<1> DEFINE first == Min(DOMAIN toNotify)
<1>1. DOMAIN toNotify \subseteq Nat /\ DOMAIN toNotify # {}
  BY DEF LoopInv, LoopTypeOK, Pending
<1>2. first \in DOMAIN toNotify
  BY <1>1, MinIsLeast
<1> HIDE DEF first
<1>3. /\ toNotify \in [DOMAIN toNotify -> Sources]
      /\ \A i, j \in DOMAIN toNotify : toNotify[i] = toNotify[j] => i = j
  BY DEF LoopInv, LoopTypeOK, ListsInv
<1>4. /\ FirstToNotify = toNotify[first]
      /\ OthersToNotify = [i \in DOMAIN toNotify \ {first} |-> toNotify[i]]
  BY DEF FirstToNotify, OthersToNotify, first
<1> QED
  BY <1>1, <1>2, <1>3, <1>4 DEF Pending

\* The holders of a source are the application and the two lists.
LEMMA HoldersNat == \A s \in Sources : Holders(s) \in 0..3
  BY DEF Holders

\* A source that is not allocated has no holder.
LEMMA LiveIsHeld ==
    ASSUME LoopInv, NEW s \in Sources
    PROVE  /\ memory[s].live <=> Holders(s) # 0
           /\ memory[s].live <=> s \in held \/ s \in Linked \/ s \in Pending
<1>1. memory[s] = Cell(Holders(s))
  BY DEF LoopInv, MemoryInv
<1>2. memory[s].live <=> Holders(s) # 0
  BY <1>1 DEF Cell, Unallocated
<1> QED
  BY <1>2 DEF Holders

\* Only the fields of sources change, and none is taken back its mark.
LEMMA FieldsOnly ==
    ASSUME LoopInv, UNCHANGED <<memory, sources, toNotify, running, pools, held>>,
           src' \in [Sources -> SourceFields],
           \A s \in Pending : src[s].cancelled => src'[s].cancelled
    PROVE  LoopInv'
<1>1. Linked' = Linked /\ Pending' = Pending /\ FirstToNotify' = FirstToNotify
  BY DEF Linked, Pending, FirstToNotify
<1>2. \A s \in Sources : Holders(s)' = Holders(s)
  BY <1>1 DEF Holders
<1>3. LoopTypeOK'
  BY DEF LoopInv, LoopTypeOK
<1>4. ListsInv'
  BY <1>1 DEF LoopInv, ListsInv
<1>5. MemoryInv'
  BY <1>2 DEF LoopInv, MemoryInv
<1>6. MarkedInv'
  BY <1>1 DEF LoopInv, MarkedInv
<1> QED
  BY <1>3, <1>4, <1>5, <1>6 DEF LoopInv

\* One source changes, with its holders; the turn goes on.
LEMMA OneChanges ==
    ASSUME LoopInv, NEW s \in Sources, UNCHANGED <<toNotify, running, pools>>,
           memory' = [memory EXCEPT ![s] = Cell(Holders(s)')],
           sources' \in Seq(Sources), held' \subseteq Sources,
           \A i, j \in 1..Len(sources') : sources'[i] = sources'[j] => i = j,
           \A o \in Sources \ {s} :
             /\ (o \in Linked' <=> o \in Linked) /\ (o \in held' <=> o \in held)
             /\ o \in Pending => (src'[o].cancelled <=> src[o].cancelled),
           src' \in [Sources -> SourceFields],
           s \in Pending => src'[s].cancelled \/ s \in Linked'
    PROVE  LoopInv'
<1>1. Pending' = Pending /\ FirstToNotify' = FirstToNotify
  BY DEF Pending, FirstToNotify
<1>2. \A o \in Sources \ {s} : Holders(o)' = Holders(o)
  BY <1>1 DEF Holders
<1>3. LoopTypeOK'
  BY DEF LoopInv, LoopTypeOK
<1>4. ListsInv'
  BY <1>1 DEF LoopInv, ListsInv
<1>5. \A o \in (Sources \cup Floating) \ {s} : memory'[o] = memory[o]
  BY DEF LoopInv, LoopTypeOK
<1>6. memory'[s] = Cell(Holders(s)')
  BY DEF LoopInv, LoopTypeOK
<1>7. MemoryInv'
  <2>1. ASSUME NEW o \in Sources PROVE memory'[o] = Cell(Holders(o)')
    BY <1>2, <1>5, <1>6 DEF LoopInv, MemoryInv
  <2>2. ASSUME NEW o \in Floating
        PROVE  \/ memory'[o] = Unallocated
               \/ running' # Idle /\ memory'[o] = [live |-> TRUE, ref |-> 0, pool |-> Head(pools')]
    BY <1>5, MainLoopAssumption DEF LoopInv, MemoryInv
  <2> QED
    BY <2>1, <2>2 DEF MemoryInv
<1>8. MarkedInv'
  <2>1. ASSUME NEW o \in Pending PROVE src'[o].cancelled \/ o \in Linked'
    <3>1. CASE o = s
      BY <2>1, <3>1
    <3>2. CASE o # s
      <4>1. o \in Sources \ {s}
        BY <2>1, <3>2 DEF Pending, LoopInv, LoopTypeOK
      <4>2. src[o].cancelled \/ o \in Linked
        BY <2>1 DEF LoopInv, MarkedInv
      <4> HIDE DEF Linked
      <4> QED
        BY <2>1, <4>1, <4>2, Zenon
    <3> QED
      BY <3>1, <3>2
  <2> QED
    BY <1>1, <2>1, Zenon DEF MarkedInv
<1> QED
  BY <1>3, <1>4, <1>7, <1>8 DEF LoopInv

\* What is forgotten of the fields of the sources is not the mark of one that is allocated.
LEMMA FieldsTyped ==
    ASSUME NEW h, NEW f \in [Sources -> SourceFields], NEW list
    PROVE  /\ Fields(h, f, list) \in [Sources -> SourceFields]
           /\ \A s \in Sources : h[s].live => (Fields(h, f, list)[s].cancelled <=> f[s].cancelled)
<1>1. belle_sip_source_init(FALSE, NoTimeout) \in SourceFields
  BY DEF belle_sip_source_init, NoTimeout, SourceFields
<1> DEFINE kept(s) == [f[s] EXCEPT !.left = IF \E i \in DOMAIN list : list[i] = s THEN @ ELSE 0]
<1>2. ASSUME NEW s \in Sources
      PROVE  kept(s) \in SourceFields /\ (kept(s).cancelled <=> f[s].cancelled)
  <2>1. f[s] \in SourceFields
    OBVIOUS
  <2> DEFINE left == IF \E i \in DOMAIN list : list[i] = s THEN f[s].left ELSE 0
  <2>2. PICK n \in Int : kept(s) = [f[s] EXCEPT !.left = n]
    <3>1. left \in Int
      BY <2>1 DEF SourceFields
    <3>2. kept(s) = [f[s] EXCEPT !.left = left]
      OBVIOUS
    <3> QED
      BY <3>1, <3>2
  <2>3. [f[s] EXCEPT !.left = n] \in SourceFields
    BY <2>1 DEF SourceFields
  <2>4. [f[s] EXCEPT !.left = n].cancelled = f[s].cancelled
    BY <2>1 DEF SourceFields
  <2> QED
    BY <2>2, <2>3, <2>4
<1>3. Fields(h, f, list) = [s \in Sources |->
        IF ~h[s].live THEN belle_sip_source_init(FALSE, NoTimeout) ELSE kept(s)]
  BY DEF Fields
<1> HIDE DEF kept
<1> QED
  BY <1>1, <1>2, <1>3

\* A source that is put in the list.
LEMMA ArmedTyped ==
    ASSUME NEW f \in SourceFields
    PROVE  Armed(f) \in SourceFields
<1>1. PICK n \in Int : Armed(f) = [f EXCEPT !.left = n, !.cancelled = FALSE]
  BY DEF Armed, SourceFields
<1> QED
  BY <1>1 DEF SourceFields

\* A new source, with the application's reference.
LEMMA NewSourceKeeps ==
    ASSUME LoopInv, NEW s \in Sources, NEW fd \in BOOLEAN, NEW timeout \in Timeouts,
           NewSource(s, fd, timeout)
    PROVE  LoopInv'
<1>1. s \notin held /\ s \notin Linked /\ s \notin Pending
  BY LiveIsHeld DEF NewSource
<1>2. /\ memory' = belle_sip_object_new(memory, s, FALSE, pools)
      /\ src' = [src EXCEPT ![s] = belle_sip_source_init(fd, timeout)]
      /\ held' = held \cup {s}
      /\ UNCHANGED <<sources, toNotify, running, pools, run>>
  BY DEF NewSource
<1>3. Linked' = Linked /\ Pending' = Pending
  BY <1>2 DEF Linked, Pending
<1>4. Holders(s)' = 1
  BY <1>1, <1>2, <1>3 DEF Holders
<1>5. memory' = [memory EXCEPT ![s] = Cell(Holders(s)')]
  BY <1>2, <1>4 DEF belle_sip_object_new, Cell
<1>6. src' \in [Sources -> SourceFields]
  <2>1. timeout \in Int
    BY MainLoopAssumption DEF NoTimeout
  <2>2. belle_sip_source_init(fd, timeout) \in SourceFields
    BY <2>1 DEF belle_sip_source_init, SourceFields
  <2> QED
    BY <1>2, <2>2 DEF LoopInv, LoopTypeOK
<1>7. \A o \in Sources \ {s} : src'[o] = src[o]
  BY <1>2 DEF LoopInv, LoopTypeOK
<1>8. sources' \in Seq(Sources) /\ \A i, j \in 1..Len(sources') : sources'[i] = sources'[j] => i = j
  BY <1>2 DEF LoopInv, LoopTypeOK, ListsInv
<1>9. held' \subseteq Sources
  BY <1>2 DEF LoopInv, LoopTypeOK
<1> QED
  BY <1>1, <1>2, <1>3, <1>5, <1>6, <1>7, <1>8, <1>9, OneChanges

\* The list of sources with one more.
LEMMA AppendedSource ==
    ASSUME LoopInv, NEW s \in Sources, s \notin Linked, sources' = Append(sources, s)
    PROVE  /\ sources' \in Seq(Sources) /\ Linked' = Linked \cup {s}
           /\ \A i, j \in 1..Len(sources') : sources'[i] = sources'[j] => i = j
<1> DEFINE n == Len(sources)
<1>1. sources \in Seq(Sources) /\ n \in Nat /\ DOMAIN sources = 1..n
  BY DEF LoopInv, LoopTypeOK
<1>2. /\ sources' \in Seq(Sources) /\ Len(sources') = n + 1 /\ DOMAIN sources' = 1..(n + 1)
      /\ \A i \in 1..n : sources'[i] = sources[i]
      /\ sources'[n + 1] = s
  BY <1>1, AppendProperties
<1> HIDE DEF n
<1>3. \A i \in 1..n : sources[i] # s
  BY <1>1 DEF Linked
<1>4. \A i, j \in 1..n : sources[i] = sources[j] => i = j
  BY DEF LoopInv, ListsInv, n
<1>5. \A i \in 1..(n + 1) : i \in 1..n \/ i = n + 1
  BY <1>1
<1>6. \A i, j \in 1..(n + 1) : sources'[i] = sources'[j] => i = j
  BY <1>2, <1>3, <1>4, <1>5
<1>7. Linked' = Linked \cup {s}
  <2>1. ASSUME NEW i \in 1..(n + 1) PROVE sources'[i] \in Linked \cup {s}
    BY <1>1, <1>2, <1>5 DEF Linked
  <2>2. ASSUME NEW i \in 1..n PROVE \E j \in 1..(n + 1) : sources'[j] = sources[i]
    BY <1>1, <1>2
  <2>3. \E j \in 1..(n + 1) : sources'[j] = s
    BY <1>1, <1>2
  <2>4. Linked' = {sources'[i] : i \in 1..(n + 1)} /\ Linked = {sources[i] : i \in 1..n}
    BY <1>1, <1>2 DEF Linked
  <2>5. Linked' \subseteq Linked \cup {s}
    BY <2>1, <2>4
  <2>6. Linked \cup {s} \subseteq Linked'
    BY <2>2, <2>3, <2>4
  <2> QED
    BY <2>5, <2>6
<1> QED
  BY <1>2, <1>6, <1>7

\* The main loop has a reference to a source that is added.
LEMMA AddSourceKeeps ==
    ASSUME LoopInv, NEW s \in Sources, belle_sip_main_loop_add_source(s)
    PROVE  LoopInv'
<1>1. /\ s \in held /\ s \notin Linked
      /\ memory' = belle_sip_object_ref(memory, s)
      /\ src' = [src EXCEPT ![s] = Armed(src[s])]
      /\ sources' = Append(sources, s)
      /\ UNCHANGED <<toNotify, running, pools, run, held>>
  BY DEF belle_sip_main_loop_add_source
<1>2. /\ sources' \in Seq(Sources) /\ Linked' = Linked \cup {s}
      /\ \A i, j \in 1..Len(sources') : sources'[i] = sources'[j] => i = j
  BY <1>1, AppendedSource
<1>3. Pending' = Pending
  BY <1>1 DEF Pending
<1>4. Holders(s) \in Nat \ {0} /\ Holders(s)' = Holders(s) + 1
  BY <1>1, <1>2, <1>3 DEF Holders
<1>5. memory' = [memory EXCEPT ![s] = Cell(Holders(s)')]
  <2>1. s \in DOMAIN memory /\ memory[s] = Cell(Holders(s))
    BY DEF LoopInv, LoopTypeOK, MemoryInv
  <2> HIDE DEF Holders
  <2> QED
    BY <1>1, <1>4, <2>1, RefCell
<1>6. src' \in [Sources -> SourceFields]
  BY <1>1, ArmedTyped DEF LoopInv, LoopTypeOK
<1>7. \A o \in Sources \ {s} : src'[o] = src[o]
  BY <1>1 DEF LoopInv, LoopTypeOK
<1>8. held' \subseteq Sources
  BY <1>1 DEF LoopInv, LoopTypeOK
<1> QED
  BY <1>1, <1>2, <1>3, <1>5, <1>6, <1>7, <1>8, OneChanges

\* The main loop alone has a reference to what is done later.
LEMMA DoLaterKeeps ==
    ASSUME LoopInv, NEW s \in Sources, belle_sip_main_loop_do_later(s)
    PROVE  LoopInv'
<1> DEFINE made == belle_sip_object_new(memory, s, FALSE, pools)
           kept == belle_sip_object_ref(made, s)
<1>1. /\ ~memory[s].live
      /\ memory' = belle_sip_object_unref(kept, s)
      /\ src' = [src EXCEPT ![s] =
                   [Armed(belle_sip_source_init(FALSE, 0)) EXCEPT !.oneshot = TRUE]]
      /\ sources' = Append(sources, s)
      /\ UNCHANGED <<toNotify, running, pools, run, held>>
  BY DEF belle_sip_main_loop_do_later
<1>2. s \notin held /\ s \notin Linked /\ s \notin Pending
  BY <1>1, LiveIsHeld
<1>3. /\ sources' \in Seq(Sources) /\ Linked' = Linked \cup {s}
      /\ \A i, j \in 1..Len(sources') : sources'[i] = sources'[j] => i = j
  BY <1>1, <1>2, AppendedSource
<1>4. Pending' = Pending
  BY <1>1 DEF Pending
<1>5. Holders(s)' = 1
  BY <1>1, <1>2, <1>3, <1>4 DEF Holders
<1>6. s \in DOMAIN memory
  BY DEF LoopInv, LoopTypeOK
<1>7. made = [memory EXCEPT ![s] = Cell(1)]
  BY DEF belle_sip_object_new, Cell
<1> HIDE DEF made
<1>8. kept = [made EXCEPT ![s] = Cell(2)]
  <2>1. s \in DOMAIN made /\ made[s] = Cell(1) /\ 1 \in Nat \ {0} /\ 1 + 1 = 2
    BY <1>6, <1>7
  <2> QED
    BY <2>1, RefCell
<1> HIDE DEF kept
<1>9. memory' = [kept EXCEPT ![s] = Cell(1)]
  <2>1. s \in DOMAIN kept /\ kept[s] = Cell(2) /\ 2 \in Nat \ {0} /\ 2 - 1 = 1
    BY <1>6, <1>7, <1>8
  <2>2. belle_sip_object_unref(kept, s) = [kept EXCEPT ![s] = Cell(2 - 1)]
    BY <2>1, UnrefCell
  <2> QED
    BY <1>1, <2>1, <2>2
<1>10. memory' = [memory EXCEPT ![s] = Cell(Holders(s)')]
  BY <1>5, <1>6, <1>7, <1>8, <1>9
<1>11. src' \in [Sources -> SourceFields]
  <2>1. belle_sip_source_init(FALSE, 0) \in SourceFields
    BY DEF belle_sip_source_init, SourceFields
  <2>2. Armed(belle_sip_source_init(FALSE, 0)) \in SourceFields
    BY <2>1, ArmedTyped
  <2> DEFINE a == Armed(belle_sip_source_init(FALSE, 0))
  <2> HIDE DEF a
  <2>3. [a EXCEPT !.oneshot = TRUE] \in SourceFields
    BY <2>2 DEF SourceFields, a
  <2> QED
    BY <1>1, <2>3 DEF LoopInv, LoopTypeOK, a
<1>12. \A o \in Sources \ {s} : src'[o] = src[o]
  BY <1>1 DEF LoopInv, LoopTypeOK
<1>13. held' \subseteq Sources
  BY <1>1 DEF LoopInv, LoopTypeOK
<1> QED
  BY <1>1, <1>3, <1>10, <1>11, <1>12, <1>13, OneChanges

\* How many hold a source, if the list does not.
OthersHolding(s) == Holders(s) - (IF s \in Linked THEN 1 ELSE 0)

\* The heap, the fields and the list without a source.
SourceRemoved(x, s) ==
    /\ x.list \in Seq(Sources)
    /\ {x.list[i] : i \in DOMAIN x.list} = Linked \ {s}
    /\ \A i, j \in 1..Len(x.list) : x.list[i] = x.list[j] => i = j
    /\ x.memory = [memory EXCEPT ![s] = Cell(OthersHolding(s))]
    /\ x.f \in [Sources -> SourceFields]
    /\ \A o \in Sources \ {s} : x.f[o] = src[o]
    /\ s \in Pending => x.f[s].cancelled

\* The main loop without a source, when somebody else has a reference to it.
LEMMA RemovedSource ==
    ASSUME LoopInv, NEW s \in Sources, s \in held \/ s \in Pending,
           NEW x, x = remove_source(memory, src, sources, s)
    PROVE  SourceRemoved(x, s)
<1>1. /\ sources \in Seq(Sources) /\ src \in [Sources -> SourceFields]
      /\ memory = [o \in Sources \cup Floating |-> memory[o]] /\ s \in DOMAIN memory
  BY DEF LoopInv, LoopTypeOK
<1>2. memory[s] = Cell(Holders(s))
  BY DEF LoopInv, MemoryInv
<1>3. CASE s \in Linked
  <2>1. /\ x.memory = belle_sip_object_unref(memory, s)
        /\ x.f = [src EXCEPT ![s].cancelled = TRUE]
        /\ x.list = Without(sources, s)
    BY <1>3 DEF remove_source
  <2>2. Holders(s) \in Nat \ {0}
    BY <1>3 DEF Holders
  <2>3. x.memory = [memory EXCEPT ![s] = Cell(Holders(s) - 1)]
    <3> HIDE DEF Holders
    <3>1. belle_sip_object_unref(memory, s) = [memory EXCEPT ![s] = Cell(Holders(s) - 1)]
      BY <1>1, <1>2, <2>2, UnrefCell
    <3> QED
      BY <2>1, <3>1
  <2>4. /\ x.f \in [Sources -> SourceFields] /\ x.f[s].cancelled
        /\ \A o \in Sources \ {s} : x.f[o] = src[o]
    <3>1. src[s] \in SourceFields
      BY <1>1
    <3>2. [src[s] EXCEPT !.cancelled = TRUE] \in SourceFields
      BY <3>1 DEF SourceFields
    <3>3. [src[s] EXCEPT !.cancelled = TRUE].cancelled
      BY <3>1 DEF SourceFields
    <3>4. x.f = [src EXCEPT ![s] = [src[s] EXCEPT !.cancelled = TRUE]]
      BY <2>1
    <3> QED
      BY <1>1, <3>2, <3>3, <3>4
  <2>5. OthersHolding(s) = Holders(s) - 1
    BY <1>3 DEF OthersHolding
  <2>6. /\ Without(sources, s) \in Seq(Sources)
        /\ {Without(sources, s)[i] : i \in DOMAIN Without(sources, s)} = Linked \ {s}
        /\ \A i, j \in 1..Len(Without(sources, s)) :
             Without(sources, s)[i] = Without(sources, s)[j] => i = j
    BY <1>3, WithoutSource
  <2> QED
    BY <2>1, <2>3, <2>4, <2>5, <2>6 DEF SourceRemoved
<1>4. CASE s \notin Linked
  <2>1. x.memory = memory /\ x.f = src /\ x.list = sources
    BY <1>4 DEF remove_source
  <2>2. OthersHolding(s) = Holders(s)
    BY <1>4 DEF Holders, OthersHolding
  <2>3. x.memory = [memory EXCEPT ![s] = Cell(OthersHolding(s))]
    BY <1>1, <1>2, <2>1, <2>2
  <2>4. s \in Pending => x.f[s].cancelled
    BY <1>4, <2>1 DEF LoopInv, MarkedInv
  <2>5. \A i, j \in 1..Len(sources) : sources[i] = sources[j] => i = j
    BY DEF LoopInv, ListsInv
  <2>6. {x.list[i] : i \in DOMAIN x.list} = Linked \ {s}
    BY <1>4, <2>1, Zenon DEF Linked
  <2>7. x.list \in Seq(Sources)
    BY <1>1, <2>1
  <2>8. \A i, j \in 1..Len(x.list) : x.list[i] = x.list[j] => i = j
    BY <2>1, <2>5
  <2>9. x.f \in [Sources -> SourceFields] /\ \A o \in Sources \ {s} : x.f[o] = src[o]
    BY <1>1, <2>1
  <2> QED
    BY <2>3, <2>4, <2>6, <2>7, <2>8, <2>9 DEF SourceRemoved
<1> QED
  BY <1>3, <1>4

\* The application removes a source.
LEMMA RemoveSourceKeeps ==
    ASSUME LoopInv, NEW s \in Sources, belle_sip_main_loop_remove_source(s)
    PROVE  LoopInv'
<1>1. PICK x : x = remove_source(memory, src, sources, s)
  OBVIOUS
<1>2. /\ s \in held /\ memory' = x.memory /\ src' = Fields(memory', x.f, x.list)
      /\ sources' = x.list
      /\ UNCHANGED <<toNotify, running, pools, run, held>>
  BY <1>1 DEF belle_sip_main_loop_remove_source
<1>3. /\ x.list \in Seq(Sources)
      /\ {x.list[i] : i \in DOMAIN x.list} = Linked \ {s}
      /\ \A i, j \in 1..Len(x.list) : x.list[i] = x.list[j] => i = j
      /\ x.memory = [memory EXCEPT ![s] = Cell(OthersHolding(s))]
      /\ x.f \in [Sources -> SourceFields]
      /\ \A o \in Sources \ {s} : x.f[o] = src[o]
      /\ s \in Pending => x.f[s].cancelled
  <2>1. SourceRemoved(x, s)
    BY <1>1, <1>2, RemovedSource
  <2> QED
    BY <2>1 DEF SourceRemoved
<1>4. Linked' = Linked \ {s} /\ Pending' = Pending
  <2>1. Linked' = {x.list[i] : i \in DOMAIN x.list}
    BY <1>2 DEF Linked
  <2> QED
    BY <1>2, <1>3, <2>1 DEF Pending
<1>5. Holders(s)' = OthersHolding(s)
  BY <1>2, <1>4 DEF Holders, OthersHolding
<1>6. memory' = [memory EXCEPT ![s] = Cell(Holders(s)')]
  BY <1>2, <1>3, <1>5
<1>7. \A o \in Pending : memory'[o].live
  <2> TAKE o \in Pending
  <2>1. o \in Sources /\ memory[o].live
    BY LiveIsHeld DEF LoopInv, LoopTypeOK, Pending
  <2>2. CASE o = s
    <3>1. Holders(s)' # 0
      BY <1>2, <1>4 DEF Holders
    <3>2. memory'[s] = Cell(Holders(s)')
      BY <1>6 DEF LoopInv, LoopTypeOK
    <3> QED
      BY <2>2, <3>1, <3>2 DEF Cell
  <2>3. CASE o # s
    BY <1>6, <2>1, <2>3 DEF LoopInv, LoopTypeOK
  <2> QED
    BY <2>2, <2>3
<1>8. /\ src' \in [Sources -> SourceFields]
      /\ \A o \in Sources : o \in Pending => (src'[o].cancelled <=> x.f[o].cancelled)
  BY <1>2, <1>3, <1>7, FieldsTyped
<1>9. held' \subseteq Sources
  BY <1>2 DEF LoopInv, LoopTypeOK
<1> QED
  BY <1>2, <1>3, <1>4, <1>6, <1>8, <1>9, OneChanges

\* The application drops its reference.
LEMMA ReleaseKeeps ==
    ASSUME LoopInv, NEW s \in Sources, Release(s)
    PROVE  LoopInv'
<1>1. /\ s \in held /\ memory' = belle_sip_object_unref(memory, s)
      /\ src' = Fields(memory', src, sources) /\ held' = held \ {s}
      /\ UNCHANGED <<sources, toNotify, running, pools, run>>
  BY DEF Release
<1>2. Linked' = Linked /\ Pending' = Pending
  BY <1>1 DEF Linked, Pending
<1>3. Holders(s) \in Nat \ {0} /\ Holders(s)' = Holders(s) - 1
  BY <1>1, <1>2 DEF Holders
<1>4. memory' = [memory EXCEPT ![s] = Cell(Holders(s)')]
  <2>1. s \in DOMAIN memory /\ memory[s] = Cell(Holders(s))
    BY DEF LoopInv, LoopTypeOK, MemoryInv
  <2> HIDE DEF Holders
  <2> QED
    BY <1>1, <1>3, <2>1, UnrefCell
<1>5. \A o \in Pending : memory'[o].live
  <2> TAKE o \in Pending
  <2>1. o \in Sources /\ memory[o].live
    BY LiveIsHeld DEF LoopInv, LoopTypeOK, Pending
  <2>2. CASE o = s
    <3>1. Holders(s)' # 0
      BY <1>1, <1>2, <2>2 DEF Holders
    <3>2. memory'[s] = Cell(Holders(s)')
      BY <1>4 DEF LoopInv, LoopTypeOK
    <3> QED
      BY <2>2, <3>1, <3>2 DEF Cell
  <2>3. CASE o # s
    BY <1>4, <2>1, <2>3 DEF LoopInv, LoopTypeOK
  <2> QED
    BY <2>2, <2>3
<1>6. /\ src' \in [Sources -> SourceFields]
      /\ \A o \in Sources : o \in Pending => (src'[o].cancelled <=> src[o].cancelled)
  BY <1>1, <1>5, FieldsTyped DEF LoopInv, LoopTypeOK
<1>7. held' \subseteq Sources
  BY <1>1 DEF LoopInv, LoopTypeOK
<1>8. sources' \in Seq(Sources) /\ \A i, j \in 1..Len(sources') : sources'[i] = sources'[j] => i = j
  BY <1>1 DEF LoopInv, LoopTypeOK, ListsInv
<1>9. s \in Pending => src'[s].cancelled \/ s \in Linked'
  BY <1>2, <1>6 DEF LoopInv, MarkedInv
<1> QED
  BY <1>1, <1>2, <1>4, <1>6, <1>7, <1>8, <1>9, OneChanges

\* A callback makes a floating object, in the pool of the turn.
LEMMA NewFloatingKeeps ==
    ASSUME LoopInv, NEW o \in Floating, NewFloating(o)
    PROVE  LoopInv'
<1>1. /\ running \in Sources
      /\ memory' = belle_sip_object_new(memory, o, TRUE, pools)
      /\ UNCHANGED <<src, sources, toNotify, running, pools, run, held>>
  BY DEF NewFloating
<1>2. Linked' = Linked /\ Pending' = Pending /\ FirstToNotify' = FirstToNotify
  BY <1>1 DEF Linked, Pending, FirstToNotify
<1>3. running # Idle /\ pools # <<>>
  BY <1>1, MainLoopAssumption DEF LoopInv, ListsInv
<1>4. memory' = [memory EXCEPT ![o] = [live |-> TRUE, ref |-> 0, pool |-> Head(pools)]]
  BY <1>1, <1>3 DEF belle_sip_object_new, belle_sip_object_pool_get_current
<1>5. \A s \in Sources : Holders(s)' = Holders(s) /\ memory'[s] = memory[s]
  <2> TAKE s \in Sources
  <2>1. s # o /\ s \in DOMAIN memory
    BY MainLoopAssumption DEF LoopInv, LoopTypeOK
  <2>2. memory'[s] = memory[s]
    BY <1>4, <2>1
  <2> QED
    BY <1>1, <1>2, <2>2 DEF Holders
<1>6. LoopTypeOK'
  BY <1>1, <1>4 DEF LoopInv, LoopTypeOK
<1>7. MemoryInv'
  <2>1. memory'[o] = [live |-> TRUE, ref |-> 0, pool |-> Head(pools)]
    BY <1>4 DEF LoopInv, LoopTypeOK
  <2>2. \A f \in Floating : f # o => memory'[f] = memory[f]
    BY <1>4 DEF LoopInv, LoopTypeOK
  <2> QED
    BY <1>1, <1>3, <1>5, <2>1, <2>2 DEF LoopInv, MemoryInv
<1>8. ListsInv' /\ MarkedInv'
  BY <1>1, <1>2 DEF LoopInv, ListsInv, MarkedInv
<1> QED
  BY <1>6, <1>7, <1>8 DEF LoopInv

\* A source of the turn is done: the list of the turn lets go of it.
LEMMA OneDone ==
    ASSUME LoopInv, Pending # {}, running # Idle, NEW s, s = FirstToNotify,
           toNotify' = OthersToNotify, running' = "notify", UNCHANGED <<pools, held>>,
           memory' = [memory EXCEPT ![s] = Cell(Holders(s)')],
           sources' \in Seq(Sources),
           \A i, j \in 1..Len(sources') : sources'[i] = sources'[j] => i = j,
           \A o \in Sources \ {s} :
             /\ o \in Linked' <=> o \in Linked
             /\ o \in Pending => (src'[o].cancelled <=> src[o].cancelled),
           src' \in [Sources -> SourceFields]
    PROVE  LoopInv'
<1>1. /\ s \in Pending /\ s \in Sources
      /\ DOMAIN toNotify' \subseteq Nat /\ toNotify' \in [DOMAIN toNotify' -> Sources]
      /\ Pending' = Pending \ {s}
      /\ \A i, j \in DOMAIN toNotify' : toNotify'[i] = toNotify'[j] => i = j
  <2>1. s \in Pending
    BY FirstAndOthers
  <2>2. Pending' = {OthersToNotify[i] : i \in DOMAIN OthersToNotify}
    BY DEF Pending
  <2>3. Pending \subseteq Sources
    BY DEF LoopInv, LoopTypeOK, Pending
  <2>4. Pending' = Pending \ {s}
    BY <2>2, FirstAndOthers
  <2> QED
    BY <2>1, <2>3, <2>4, FirstAndOthers
<1>2. \A o \in Sources \ {s} : Holders(o)' = Holders(o)
  BY <1>1 DEF Holders
<1>3. running' # Idle /\ running' \notin Sources
  BY MainLoopAssumption DEF Idle
<1>4. LoopTypeOK'
  BY <1>1 DEF LoopInv, LoopTypeOK
<1>5. ListsInv'
  BY <1>1, <1>3 DEF LoopInv, ListsInv
<1>6. \A o \in (Sources \cup Floating) \ {s} : memory'[o] = memory[o]
  BY DEF LoopInv, LoopTypeOK
<1>7. memory'[s] = Cell(Holders(s)')
  BY <1>1 DEF LoopInv, LoopTypeOK
<1>8. MemoryInv'
  <2>1. ASSUME NEW o \in Sources PROVE memory'[o] = Cell(Holders(o)')
    BY <1>2, <1>6, <1>7 DEF LoopInv, MemoryInv
  <2>2. ASSUME NEW o \in Floating
        PROVE  \/ memory'[o] = Unallocated
               \/ running' # Idle /\ memory'[o] = [live |-> TRUE, ref |-> 0, pool |-> Head(pools')]
    BY <1>1, <1>3, <1>6, MainLoopAssumption DEF LoopInv, MemoryInv
  <2> QED
    BY <2>1, <2>2 DEF MemoryInv
<1>9. MarkedInv'
  <2>1. Pending \subseteq Sources
    BY DEF LoopInv, LoopTypeOK, Pending
  <2> QED
    BY <1>1, <2>1 DEF LoopInv, MarkedInv
<1> QED
  BY <1>4, <1>5, <1>8, <1>9 DEF LoopInv

\* How many hold a source of the turn, once the list is as given.
TurnHolds(s, list) ==
    (IF s \in held THEN 1 ELSE 0) + (IF \E i \in DOMAIN list : list[i] = s THEN 1 ELSE 0) + 1

\* The heap, the fields and the list after the callback of a source: it is still in the list or not.
TurnedTo(h, f, list, s) ==
    /\ list \in Seq(Sources)
    /\ {list[i] : i \in DOMAIN list} = Linked \/ {list[i] : i \in DOMAIN list} = Linked \ {s}
    /\ \A i, j \in 1..Len(list) : list[i] = list[j] => i = j
    /\ h = [memory EXCEPT ![s] = Cell(TurnHolds(s, list))]
    /\ f \in [Sources -> SourceFields]
    /\ \A o \in Sources \ {s} : f[o] = src[o]

\* Without a source in the list or with it, and without the reference of the turn.
LEMMA TurnDropsSource ==
    ASSUME LoopInv, Pending # {}, running # Idle, NEW s, s = FirstToNotify,
           NEW h, NEW f, NEW list, TurnedTo(h, f, list, s),
           toNotify' = OthersToNotify, running' = "notify", UNCHANGED <<pools, held>>,
           memory' = belle_sip_object_unref(h, s), sources' = list,
           src' = Fields(memory', f, list)
    PROVE  LoopInv'
<1>1. /\ s \in Pending /\ s \in Sources /\ Pending' = Pending \ {s}
  <2>1. s \in Pending
    BY FirstAndOthers
  <2>2. Pending' = {OthersToNotify[i] : i \in DOMAIN OthersToNotify}
    BY DEF Pending
  <2>3. Pending \subseteq Sources
    BY DEF LoopInv, LoopTypeOK, Pending
  <2>4. Pending' = Pending \ {s}
    BY <2>2, FirstAndOthers
  <2> QED
    BY <2>1, <2>3, <2>4
<1> DEFINE n == TurnHolds(s, list)
<1>0. /\ list \in Seq(Sources)
      /\ {list[i] : i \in DOMAIN list} = Linked \/ {list[i] : i \in DOMAIN list} = Linked \ {s}
      /\ \A i, j \in 1..Len(list) : list[i] = list[j] => i = j
      /\ h = [memory EXCEPT ![s] = Cell(n)]
      /\ f \in [Sources -> SourceFields] /\ \A o \in Sources \ {s} : f[o] = src[o]
  BY DEF TurnedTo
<1>2. Linked' = {list[i] : i \in DOMAIN list}
  BY DEF Linked
<1>3. n \in Nat \ {0} /\ Holders(s)' = n - 1
  BY <1>1, <1>2 DEF Holders, TurnHolds
<1> HIDE DEF n
<1>4. s \in DOMAIN memory /\ memory = [o \in Sources \cup Floating |-> memory[o]]
  BY <1>1 DEF LoopInv, LoopTypeOK
<1>5. memory' = [memory EXCEPT ![s] = Cell(Holders(s)')]
  <2>1. s \in DOMAIN h /\ h[s] = Cell(n)
    BY <1>0, <1>4
  <2>2. belle_sip_object_unref(h, s) = [h EXCEPT ![s] = Cell(n - 1)]
    BY <1>3, <2>1, UnrefCell
  <2> QED
    BY <1>0, <1>3, <1>4, <2>2
<1>6. \A o \in Sources \ {s} : (o \in Linked' <=> o \in Linked)
  BY <1>0, <1>2
<1>7. ASSUME NEW o \in Sources \ {s}, o \in Pending PROVE src'[o].cancelled <=> src[o].cancelled
  <2>1. memory'[o] = memory[o]
    BY <1>4, <1>5
  <2>2. memory'[o].live
    BY <1>7, <2>1, LiveIsHeld
  <2> QED
    BY <1>0, <1>7, <2>2, FieldsTyped
<1>8. src' \in [Sources -> SourceFields]
  BY <1>0, FieldsTyped
<1> QED
  BY <1>0, <1>5, <1>6, <1>7, <1>8, OneDone

\* A source of the turn that is removed.
LEMMA RemovedInTurn ==
    ASSUME NEW s \in Pending, NEW x, SourceRemoved(x, s)
    PROVE  TurnedTo(x.memory, x.f, x.list, s)
<1>1. {x.list[i] : i \in DOMAIN x.list} = Linked \ {s}
  BY DEF SourceRemoved
<1>2. ~\E i \in DOMAIN x.list : x.list[i] = s
  BY <1>1
<1>3. OthersHolding(s) = TurnHolds(s, x.list)
  BY <1>2 DEF OthersHolding, Holders, TurnHolds
<1> QED
  BY <1>1, <1>3 DEF SourceRemoved, TurnedTo

\* A cancelled source is skipped.
LEMMA SkipCancelledKeeps ==
    ASSUME LoopInv, SkipCancelled
    PROVE  LoopInv'
<1>1. PICK s : s = FirstToNotify
  OBVIOUS
<1>2. PICK x : x = remove_source(memory, src, sources, s)
  OBVIOUS
<1>3. /\ running = "notify" /\ Pending # {}
      /\ memory' = belle_sip_object_unref(x.memory, s)
      /\ src' = Fields(memory', x.f, x.list) /\ sources' = x.list
      /\ toNotify' = OthersToNotify /\ UNCHANGED <<running, pools, run, held>>
  BY <1>2, <1>1 DEF SkipCancelled
<1>4. s \in Pending /\ s \in Sources
  BY <1>3, <1>1, FirstAndOthers DEF LoopInv, LoopTypeOK, Pending
<1>5. running # Idle
  BY <1>3 DEF Idle
<1>6. TurnedTo(x.memory, x.f, x.list, s)
  BY <1>2, <1>4, RemovedSource, RemovedInTurn
<1> QED
  BY <1>3, <1>5, <1>6, <1>1, TurnDropsSource

\* A timeout that is started again.
LEMMA RestartedTyped ==
    ASSUME NEW f \in SourceFields, NEW ret
    PROVE  Restarted(f, ret) \in SourceFields
<1>1. \/ Restarted(f, ret) = f
      \/ \E n \in Int : Restarted(f, ret) = [f EXCEPT !.left = n, !.expired = FALSE]
  <2>1. f.timeout \in Int /\ f.left \in Int
    BY DEF SourceFields
  <2> DEFINE n == IF ret = "CONTINUE_WITHOUT_CATCHUP" THEN f.timeout ELSE f.left + f.timeout
  <2>2. n \in Int
    BY <2>1
  <2>3. \/ Restarted(f, ret) = f
        \/ Restarted(f, ret) = [f EXCEPT !.left = n, !.expired = FALSE]
    BY DEF Restarted
  <2> QED
    BY <2>2, <2>3
<1> QED
  BY <1>1 DEF SourceFields

\* A callback returns: the source is removed or goes on.
LEMMA ReturnKeeps ==
    ASSUME LoopInv, NEW ret, Return(ret)
    PROVE  LoopInv'
<1>1. PICK s : s = FirstToNotify
  OBVIOUS
<1>2. PICK x : x = IF ret = "STOP" \/ src[s].oneshot
                     THEN remove_source(memory, src, sources, s)
                     ELSE [memory |-> memory,
                           f |-> [src EXCEPT ![s] = Restarted(src[s], ret)], list |-> sources]
  OBVIOUS
<1> DEFINE f == [x.f EXCEPT ![s].revents = "none"]
<1>3. running = s /\ Pending # {} /\ running # Idle /\ s \in Sources /\ s \in Pending
  <2>1. running \in Sources
    BY DEF Return
  <2>2. running = s /\ Pending # {} /\ running # Idle
    BY <1>1, <2>1, MainLoopAssumption DEF LoopInv, ListsInv
  <2> QED
    BY <1>1, <2>1, <2>2, FirstAndOthers
<1>4. /\ memory' = belle_sip_object_unref(x.memory, s)
      /\ src' = Fields(memory', f, x.list) /\ sources' = x.list
      /\ running' = "notify" /\ toNotify' = OthersToNotify /\ UNCHANGED <<pools, run, held>>
  BY <1>3, <1>2 DEF Return
<1>5. /\ sources \in Seq(Sources) /\ src \in [Sources -> SourceFields]
      /\ memory = [o \in Sources \cup Floating |-> memory[o]]
      /\ \A i, j \in 1..Len(sources) : sources[i] = sources[j] => i = j
  BY DEF LoopInv, LoopTypeOK, ListsInv
<1>6. TurnedTo(x.memory, x.f, x.list, s)
  <2>1. CASE ret = "STOP" \/ src[s].oneshot
    <3>1. x = remove_source(memory, src, sources, s)
      BY <1>2, <2>1
    <3> QED
      BY <1>3, <3>1, RemovedSource, RemovedInTurn
  <2>2. CASE ~(ret = "STOP" \/ src[s].oneshot)
    <3>1. /\ x.memory = memory /\ x.list = sources
          /\ x.f = [src EXCEPT ![s] = Restarted(src[s], ret)]
      BY <1>2, <2>2
    <3>2. x.f \in [Sources -> SourceFields] /\ \A o \in Sources \ {s} : x.f[o] = src[o]
      BY <1>3, <1>5, <3>1, RestartedTyped
    <3>3. memory[s] = Cell(Holders(s))
      BY <1>3 DEF LoopInv, MemoryInv
    <3>4. {x.list[i] : i \in DOMAIN x.list} = Linked
      BY <3>1 DEF Linked
    <3>5. s \in Linked <=> \E i \in DOMAIN x.list : x.list[i] = s
      BY <3>4
    <3>6. Holders(s) = TurnHolds(s, x.list)
      BY <1>3, <3>5 DEF Holders, TurnHolds
    <3>7. x.memory = [memory EXCEPT ![s] = Cell(TurnHolds(s, x.list))]
      BY <1>5, <3>1, <3>3, <3>6
    <3> QED
      BY <1>5, <3>1, <3>2, <3>4, <3>7 DEF TurnedTo
  <2> QED
    BY <2>1, <2>2
<1>7. TurnedTo(x.memory, f, x.list, s)
  <2>1. x.f \in [Sources -> SourceFields]
    BY <1>6 DEF TurnedTo
  <2>2. [x.f[s] EXCEPT !.revents = "none"] \in SourceFields
    <3>1. x.f[s] \in SourceFields
      BY <1>3, <2>1
    <3> QED
      BY <3>1 DEF SourceFields
  <2>3. f = [x.f EXCEPT ![s] = [x.f[s] EXCEPT !.revents = "none"]]
    OBVIOUS
  <2> HIDE DEF f
  <2>4. f \in [Sources -> SourceFields] /\ \A o \in Sources \ {s} : f[o] = x.f[o]
    BY <1>3, <2>1, <2>2, <2>3
  <2> QED
    BY <1>6, <2>4 DEF TurnedTo
<1> HIDE DEF f
<1> QED
  BY <1>1, <1>3, <1>4, <1>7, TurnDropsSource

\* What poll() and the deadlines leave in a source.
LEMMA PollResultTyped ==
    ASSUME LoopInv, NEW s \in Sources, NEW events
    PROVE  PollResult(s, events) \in SourceFields
<1>1. src[s] \in SourceFields
  BY DEF LoopInv, LoopTypeOK
<1>2. \E r \in {"none", "READ", "TIMEOUT"} :
        \/ PollResult(s, events) = [src[s] EXCEPT !.revents = r]
        \/ PollResult(s, events) = [src[s] EXCEPT !.revents = r, !.expired = TRUE]
  <2>1. src[s].revents \in {"none", "READ", "TIMEOUT"}
    BY <1>1 DEF SourceFields
  <2> DEFINE idle == IF src[s].fd /\ ~src[s].cancelled THEN "none" ELSE src[s].revents
             told == IF s \in events THEN "READ" ELSE "TIMEOUT"
  <2>2. \/ PollResult(s, events) = [src[s] EXCEPT !.revents = idle]
        \/ PollResult(s, events) = [src[s] EXCEPT !.revents = told, !.expired = TRUE]
    BY DEF PollResult
  <2>3. idle \in {"none", "READ", "TIMEOUT"} /\ told \in {"none", "READ", "TIMEOUT"}
    BY <2>1
  <2> HIDE DEF idle, told
  <2> QED
    BY <2>2, <2>3
<1> QED
  BY <1>1, <1>2 DEF SourceFields

\* The turn has a reference to each source it is going to notify.
LEMMA PollAndCollectKeeps ==
    ASSUME LoopInv, NEW events, PollAndCollect(events)
    PROVE  LoopInv'
<1>1. /\ running = Idle
      /\ toNotify' = [i \in {j \in DOMAIN sources : Notified(sources[j], events)} |-> sources[i]]
      /\ src' = [s \in Sources |-> IF s \in Linked THEN PollResult(s, events) ELSE src[s]]
      /\ memory' = [o \in DOMAIN memory |->
                    IF o \in Linked /\ Notified(o, events)
                      THEN belle_sip_object_ref(memory, o)[o] ELSE memory[o]]
      /\ pools' = (IF OwnThread THEN pools ELSE <<"tmp">> \o pools)
      /\ running' = "notify" /\ UNCHANGED <<sources, run, held>>
  BY DEF PollAndCollect
<1>2. /\ memory = [o \in Sources \cup Floating |-> memory[o]]
      /\ sources \in Seq(Sources) /\ held \subseteq Sources
      /\ pools \in Seq({"ml", "tmp", "lost"})
      /\ \A i, j \in 1..Len(sources) : sources[i] = sources[j] => i = j
      /\ Pending = {}
  BY <1>1 DEF LoopInv, LoopTypeOK, ListsInv
<1>3. DOMAIN sources = 1..Len(sources) /\ Len(sources) \in Nat /\ Linked \subseteq Sources
  BY <1>2 DEF Linked
<1>4. Linked' = Linked /\ Pending' = {s \in Linked : Notified(s, events)}
  <2> DEFINE places == {j \in DOMAIN sources : Notified(sources[j], events)}
  <2>1. Pending' = {sources[i] : i \in places}
    BY <1>1 DEF Pending
  <2>2. {sources[i] : i \in places} = {s \in Linked : Notified(s, events)}
    BY DEF Linked
  <2> QED
    BY <1>1, <2>1, <2>2 DEF Linked
<1>5. /\ DOMAIN toNotify' \subseteq Nat /\ toNotify' \in [DOMAIN toNotify' -> Sources]
      /\ \A i, j \in DOMAIN toNotify' : toNotify'[i] = toNotify'[j] => i = j
  <2> DEFINE places == {j \in DOMAIN sources : Notified(sources[j], events)}
  <2>1. places \subseteq 1..Len(sources)
    BY <1>3
  <2>2. toNotify' = [i \in places |-> sources[i]]
    BY <1>1
  <2> HIDE DEF places
  <2> QED
    BY <1>2, <1>3, <2>1, <2>2
<1>6. src' \in [Sources -> SourceFields]
  <2>1. src \in [Sources -> SourceFields]
    BY DEF LoopInv, LoopTypeOK
  <2> QED
    BY <1>1, <2>1, PollResultTyped
<1>7. pools' \in Seq({"ml", "tmp", "lost"}) /\ pools' # <<>>
  <2>1. CASE OwnThread
    BY <1>1, <1>2, <2>1 DEF OwnThread
  <2>2. CASE ~OwnThread
    <3>1. <<"tmp">> \in Seq({"ml", "tmp", "lost"})
      OBVIOUS
    <3> QED
      BY <1>1, <1>2, <2>2, <3>1
  <2> QED
    BY <2>1, <2>2
<1>8. running' # Idle /\ running' \notin Sources
  BY <1>1, MainLoopAssumption DEF Idle
<1>9. LoopTypeOK'
  BY <1>1, <1>2, <1>5, <1>6, <1>7 DEF LoopTypeOK
<1>10. ListsInv'
  BY <1>1, <1>2, <1>5, <1>7, <1>8 DEF ListsInv
<1>11. MemoryInv'
  <2>1. ASSUME NEW s \in Sources PROVE memory'[s] = Cell(Holders(s)')
    <3>1. memory[s] = Cell(Holders(s)) /\ s \in DOMAIN memory
      BY <1>2 DEF LoopInv, MemoryInv
    <3>2. CASE s \in Linked /\ Notified(s, events)
      <4>1. Holders(s) \in Nat \ {0} /\ Holders(s)' = Holders(s) + 1
        BY <1>1, <1>2, <1>4, <3>2 DEF Holders
      <4>2. belle_sip_object_ref(memory, s) = [memory EXCEPT ![s] = Cell(Holders(s) + 1)]
        <5> HIDE DEF Holders
        <5> QED
          BY <3>1, <4>1, RefCell
      <4>3. memory'[s] = belle_sip_object_ref(memory, s)[s]
        BY <1>1, <3>1, <3>2
      <4> QED
        BY <3>1, <4>1, <4>2, <4>3
    <3>3. CASE ~(s \in Linked /\ Notified(s, events))
      <4>1. Holders(s)' = Holders(s)
        BY <1>1, <1>2, <1>4, <3>3 DEF Holders
      <4>2. memory'[s] = memory[s]
        BY <1>1, <3>1, <3>3
      <4> QED
        BY <3>1, <4>1, <4>2
    <3> QED
      BY <3>2, <3>3
  <2>2. ASSUME NEW o \in Floating PROVE memory'[o] = Unallocated
    <3>1. o \notin Linked /\ o \in DOMAIN memory
      BY <1>2, <1>3, MainLoopAssumption
    <3>2. memory[o] = Unallocated
      BY <1>1 DEF LoopInv, MemoryInv
    <3> QED
      BY <1>1, <3>1, <3>2
  <2> QED
    BY <2>1, <2>2 DEF MemoryInv
<1>12. MarkedInv'
  BY <1>4 DEF MarkedInv
<1> QED
  BY <1>9, <1>10, <1>11, <1>12 DEF LoopInv

\* An interrupted turn leaves its pool in the stack.
LEMMA PollInterruptedKeeps ==
    ASSUME LoopInv, PollInterrupted
    PROVE  LoopInv'
<1>1. /\ running = Idle /\ pools' = <<"lost">> \o pools
      /\ UNCHANGED <<memory, src, sources, toNotify, running, run, held>>
  BY DEF PollInterrupted
<1>2. Linked' = Linked /\ Pending' = Pending /\ FirstToNotify' = FirstToNotify
  BY <1>1 DEF Linked, Pending, FirstToNotify
<1>3. \A s \in Sources : Holders(s)' = Holders(s)
  BY <1>1, <1>2 DEF Holders
<1>4. pools' \in Seq({"ml", "tmp", "lost"})
  BY <1>1 DEF LoopInv, LoopTypeOK
<1>5. LoopTypeOK'
  BY <1>1, <1>4 DEF LoopInv, LoopTypeOK
<1>6. ListsInv' /\ MarkedInv'
  BY <1>1, <1>2, MainLoopAssumption DEF LoopInv, ListsInv, MarkedInv
<1>7. MemoryInv'
  BY <1>1, <1>3 DEF LoopInv, MemoryInv
<1> QED
  BY <1>5, <1>6, <1>7 DEF LoopInv

\* A callback is entered, for the first of the sources to be notified.
LEMMA NotifyKeeps ==
    ASSUME LoopInv, Notify
    PROVE  LoopInv'
<1>1. /\ running = "notify" /\ Pending # {} /\ running' = FirstToNotify
      /\ UNCHANGED <<memory, src, sources, toNotify, pools, run, held>>
  BY DEF Notify
<1>2. Linked' = Linked /\ Pending' = Pending /\ FirstToNotify' = FirstToNotify
  BY <1>1 DEF Linked, Pending, FirstToNotify
<1>3. \A s \in Sources : Holders(s)' = Holders(s)
  BY <1>1, <1>2 DEF Holders
<1>4. running' \in Sources /\ running' # Idle /\ running # Idle
  BY <1>1, FirstAndOthers, MainLoopAssumption DEF LoopInv, LoopTypeOK, Pending, Idle
<1>5. LoopTypeOK'
  BY <1>1, <1>4 DEF LoopInv, LoopTypeOK
<1>6. ListsInv' /\ MarkedInv'
  BY <1>1, <1>2, <1>4 DEF LoopInv, ListsInv, MarkedInv
<1>7. MemoryInv'
  BY <1>1, <1>3, <1>4 DEF LoopInv, MemoryInv
<1> QED
  BY <1>5, <1>6, <1>7 DEF LoopInv

\* At the end of the turn the floating objects of its pool go.
LEMMA EndTurnKeeps ==
    ASSUME LoopInv, EndTurn
    PROVE  LoopInv'
<1>1. /\ running = "notify" /\ Pending = {}
      /\ memory' = [o \in DOMAIN memory |->
                    IF memory[o].pool = Head(pools) THEN Unallocated ELSE memory[o]]
      /\ pools' = (IF OwnThread THEN pools ELSE Tail(pools))
      /\ running' = Idle /\ UNCHANGED <<src, sources, toNotify, run, held>>
  BY DEF EndTurn, CleanPool, belle_sip_object_pool_clean
<1>2. /\ memory = [o \in Sources \cup Floating |-> memory[o]]
      /\ pools \in Seq({"ml", "tmp", "lost"}) /\ pools # <<>>
  BY <1>1 DEF LoopInv, LoopTypeOK, ListsInv, Idle
<1>3. Head(pools) # NoPool
  <2>1. Head(pools) \in {"ml", "tmp", "lost"}
    BY <1>2
  <2> QED
    BY <2>1 DEF NoPool
<1>4. Linked' = Linked /\ Pending' = Pending /\ FirstToNotify' = FirstToNotify
  BY <1>1 DEF Linked, Pending, FirstToNotify
<1>5. \A s \in Sources : Holders(s)' = Holders(s)
  BY <1>1, <1>4 DEF Holders
<1>6. pools' \in Seq({"ml", "tmp", "lost"})
  BY <1>1, <1>2
<1>7. LoopTypeOK'
  BY <1>1, <1>2, <1>6 DEF LoopInv, LoopTypeOK
<1>8. ListsInv' /\ MarkedInv'
  BY <1>1, <1>4, MainLoopAssumption DEF LoopInv, ListsInv, MarkedInv
<1>9. MemoryInv'
  <2>1. ASSUME NEW s \in Sources PROVE memory'[s] = Cell(Holders(s)')
    <3>1. memory[s] = Cell(Holders(s)) /\ s \in DOMAIN memory
      BY <1>2 DEF LoopInv, MemoryInv
    <3>2. memory[s].pool = NoPool
      BY <3>1 DEF Cell, Unallocated
    <3> QED
      BY <1>1, <1>3, <1>5, <3>1, <3>2
  <2>2. ASSUME NEW o \in Floating PROVE memory'[o] = Unallocated
    <3>1. o \in DOMAIN memory
      BY <1>2
    <3>2. CASE memory[o] = Unallocated
      BY <1>1, <3>1, <3>2
    <3>3. CASE memory[o] = [live |-> TRUE, ref |-> 0, pool |-> Head(pools)]
      BY <1>1, <3>1, <3>3
    <3> QED
      BY <3>2, <3>3 DEF LoopInv, MemoryInv
  <2> QED
    BY <2>1, <2>2 DEF MemoryInv
<1> QED
  BY <1>7, <1>8, <1>9 DEF LoopInv

\* When the main loop goes, so do its references.
LEMMA DestroyKeeps ==
    ASSUME LoopInv, belle_sip_main_loop_destroy
    PROVE  LoopInv'
<1> DEFINE f == [s \in Sources |-> [src[s] EXCEPT !.cancelled = @ \/ s \in Linked]]
<1>1. /\ running = Idle
      /\ memory' = [o \in DOMAIN memory |->
                    IF o \in Linked THEN belle_sip_object_unref(memory, o)[o] ELSE memory[o]]
      /\ src' = Fields(memory', f, <<>>) /\ sources' = <<>>
      /\ UNCHANGED <<toNotify, running, pools, run, held>>
  BY DEF belle_sip_main_loop_destroy
<1>2. /\ memory = [o \in Sources \cup Floating |-> memory[o]]
      /\ src \in [Sources -> SourceFields] /\ Pending = {} /\ Linked \subseteq Sources
  BY <1>1 DEF LoopInv, LoopTypeOK, ListsInv, Linked
<1>3. Linked' = {} /\ Pending' = {}
  BY <1>1, <1>2 DEF Linked, Pending
<1>4. f \in [Sources -> SourceFields]
  <2>1. ASSUME NEW s \in Sources
        PROVE  [src[s] EXCEPT !.cancelled = @ \/ s \in Linked] \in SourceFields
    BY <1>2 DEF SourceFields
  <2> QED
    BY <2>1
<1> HIDE DEF f
<1>5. src' \in [Sources -> SourceFields]
  BY <1>1, <1>4, FieldsTyped
<1>6. LoopTypeOK'
  <2>1. DOMAIN memory = Sources \cup Floating
    BY <1>2
  <2>2. memory' = [o \in Sources \cup Floating |-> memory'[o]]
    BY <1>1, <2>1
  <2>3. sources' \in Seq(Sources)
    BY <1>1
  <2>4. /\ held' \subseteq Sources /\ running' \in Sources \cup {Idle, "notify"}
        /\ DOMAIN toNotify' \subseteq Nat /\ toNotify' \in [DOMAIN toNotify' -> Sources]
        /\ pools' \in Seq({"ml", "tmp", "lost"})
    BY <1>1 DEF LoopInv, LoopTypeOK
  <2> QED
    BY <1>5, <2>2, <2>3, <2>4 DEF LoopTypeOK
<1>7. ListsInv' /\ MarkedInv'
  BY <1>1, <1>3, MainLoopAssumption DEF LoopInv, ListsInv, MarkedInv
<1>8. MemoryInv'
  <2>1. ASSUME NEW s \in Sources PROVE memory'[s] = Cell(Holders(s)')
    <3>1. memory[s] = Cell(Holders(s)) /\ s \in DOMAIN memory
      BY <1>2 DEF LoopInv, MemoryInv
    <3>2. CASE s \in Linked
      <4>1. Holders(s) \in Nat \ {0} /\ Holders(s)' = Holders(s) - 1
        BY <1>1, <1>2, <1>3, <3>2 DEF Holders
      <4>2. belle_sip_object_unref(memory, s) = [memory EXCEPT ![s] = Cell(Holders(s) - 1)]
        <5> HIDE DEF Holders
        <5> QED
          BY <3>1, <4>1, UnrefCell
      <4>3. memory'[s] = belle_sip_object_unref(memory, s)[s]
        BY <1>1, <3>1, <3>2
      <4> QED
        BY <3>1, <4>1, <4>2, <4>3
    <3>3. CASE s \notin Linked
      <4>1. Holders(s)' = Holders(s)
        BY <1>1, <1>2, <1>3, <3>3 DEF Holders
      <4>2. memory'[s] = memory[s]
        BY <1>1, <3>1, <3>3
      <4> QED
        BY <3>1, <4>1, <4>2
    <3> QED
      BY <3>2, <3>3
  <2>2. ASSUME NEW o \in Floating PROVE memory'[o] = Unallocated
    <3>1. o \notin Linked /\ o \in DOMAIN memory
      BY <1>2, MainLoopAssumption
    <3>2. memory[o] = Unallocated
      BY <1>1 DEF LoopInv, MemoryInv
    <3> QED
      BY <1>1, <3>1, <3>2
  <2> QED
    BY <2>1, <2>2 DEF MemoryInv
<1> QED
  BY <1>6, <1>7, <1>8 DEF LoopInv

\* The mark of a source, its timeout or its deadline.
LEMMA CancelSourceKeeps ==
    ASSUME LoopInv, NEW s \in Sources, belle_sip_main_loop_cancel_source(s)
    PROVE  LoopInv'
<1>1. /\ src' = [src EXCEPT ![s].cancelled = TRUE]
      /\ UNCHANGED <<memory, sources, toNotify, running, pools, held>>
  BY DEF belle_sip_main_loop_cancel_source
<1>2. src[s] \in SourceFields /\ src \in [Sources -> SourceFields]
  BY DEF LoopInv, LoopTypeOK
<1>3. PICK f : f = [src[s] EXCEPT !.cancelled = TRUE]
  OBVIOUS
<1>4. f \in SourceFields /\ f.cancelled
  BY <1>2, <1>3 DEF SourceFields
<1>5. src' = [src EXCEPT ![s] = f]
  BY <1>1, <1>3
<1>6. /\ src' \in [Sources -> SourceFields]
      /\ \A o \in Sources : src[o].cancelled => src'[o].cancelled
  BY <1>2, <1>4, <1>5
<1> QED
  BY <1>1, <1>6, FieldsOnly DEF LoopInv, LoopTypeOK, Pending

LEMMA SetTimeoutKeeps ==
    ASSUME LoopInv, NEW s \in Sources, NEW timeout \in Timeouts \ {NoTimeout},
           belle_sip_source_set_timeout(s, timeout)
    PROVE  LoopInv'
<1>1. UNCHANGED <<memory, sources, toNotify, running, pools, held>>
  BY DEF belle_sip_source_set_timeout
<1>2. src[s] \in SourceFields /\ src \in [Sources -> SourceFields]
  BY DEF LoopInv, LoopTypeOK
<1>3. PICK n \in Int, t \in Int :
        src' = [src EXCEPT ![s].left = n, ![s].timeout = t]
  <2>1. timeout \in Int /\ src[s].left \in Int
    BY <1>2, MainLoopAssumption DEF SourceFields, NoTimeout
  <2> DEFINE left == IF src[s].expired \/ s \notin Linked THEN src[s].left ELSE timeout
  <2>2. src' = [src EXCEPT ![s].left = left, ![s].timeout = timeout]
    BY DEF belle_sip_source_set_timeout
  <2>3. left \in Int
    BY <2>1
  <2> HIDE DEF left
  <2> QED
    BY <2>1, <2>2, <2>3
<1>4. PICK f : f = [src[s] EXCEPT !.left = n, !.timeout = t]
  OBVIOUS
<1>5. f \in SourceFields /\ (f.cancelled <=> src[s].cancelled)
  BY <1>2, <1>4 DEF SourceFields
<1>6. src' = [src EXCEPT ![s] = f]
  BY <1>2, <1>3, <1>4
<1>7. /\ src' \in [Sources -> SourceFields]
      /\ \A o \in Sources : src[o].cancelled => src'[o].cancelled
  BY <1>2, <1>5, <1>6
<1> QED
  BY <1>1, <1>7, FieldsOnly DEF LoopInv, LoopTypeOK, Pending

LEMMA TickKeeps ==
    ASSUME LoopInv, Tick
    PROVE  LoopInv'
<1>1. /\ src' = [s \in Sources |-> IF s \in Timed THEN [src[s] EXCEPT !.left = @ - 1] ELSE src[s]]
      /\ UNCHANGED <<memory, sources, toNotify, running, pools, held>>
  BY DEF Tick
<1>2. src \in [Sources -> SourceFields]
  BY DEF LoopInv, LoopTypeOK
<1>3. ASSUME NEW s \in Sources
      PROVE  src'[s] \in SourceFields /\ (src[s].cancelled => src'[s].cancelled)
  <2>1. src[s] \in SourceFields
    BY <1>2
  <2>2. PICK n \in Int : n = src[s].left - 1
    BY <2>1 DEF SourceFields
  <2>3. src'[s] = src[s] \/ src'[s] = [src[s] EXCEPT !.left = n]
    BY <1>1, <2>2
  <2> QED
    BY <2>1, <2>3 DEF SourceFields
<1>4. src' \in [Sources -> SourceFields]
  BY <1>1, <1>3
<1> QED
  BY <1>1, <1>3, <1>4, FieldsOnly DEF LoopInv, LoopTypeOK, Pending

\* Every step of the main loop.
LEMMA LoopStep ==
    ASSUME LoopInv, LoopNext
    PROVE  LoopInv'
<1>1. ASSUME NEW s \in Sources,
             \/ \E fd \in BOOLEAN, timeout \in Timeouts : NewSource(s, fd, timeout)
             \/ \E timeout \in Timeouts \ {NoTimeout} : belle_sip_source_set_timeout(s, timeout)
             \/ belle_sip_main_loop_add_source(s)
             \/ belle_sip_main_loop_do_later(s)
             \/ belle_sip_main_loop_remove_source(s)
             \/ belle_sip_main_loop_cancel_source(s)
             \/ Release(s)
      PROVE  LoopInv'
  BY <1>1, NewSourceKeeps, SetTimeoutKeeps, AddSourceKeeps, DoLaterKeeps, RemoveSourceKeeps,
     CancelSourceKeeps, ReleaseKeeps
<1>2. ASSUME belle_sip_main_loop_run \/ belle_sip_main_loop_quit \/ SleepInCallback
      PROVE  LoopInv'
  <2>1. UNCHANGED <<memory, src, sources, toNotify, running, pools, held>>
    BY <1>2 DEF belle_sip_main_loop_run, belle_sip_main_loop_quit, SleepInCallback
  <2>2. src' \in [Sources -> SourceFields]
    BY <2>1 DEF LoopInv, LoopTypeOK
  <2> QED
    BY <2>1, <2>2, FieldsOnly
<1>3. ASSUME Turn PROVE LoopInv'
  BY <1>3, PollAndCollectKeeps, SkipCancelledKeeps, NotifyKeeps, ReturnKeeps, EndTurnKeeps
     DEF Turn
<1> QED
  BY <1>1, <1>2, <1>3, NewFloatingKeeps, DestroyKeeps, PollInterruptedKeeps, TickKeeps
     DEF LoopNext

\* In every behaviour, also those about objects, where the main loop is never started.
LEMMA LoopInvariant == Spec => []LoopInv
<1>1. Init => LoopInv
  <2> SUFFICES ASSUME Init PROVE LoopInv
    OBVIOUS
  <2>1. /\ memory = [o \in Sources \cup Floating |-> Unallocated]
        /\ src = [s \in Sources |-> belle_sip_source_init(FALSE, NoTimeout)]
        /\ sources = <<>> /\ toNotify = <<>> /\ running = Idle
        /\ pools \in {<<"ml">>, <<>>} /\ held = {}
    BY DEF Init, LoopInit
  <2>2. Linked = {} /\ Pending = {}
    BY <2>1 DEF Linked, Pending
  <2>3. LoopTypeOK
    <3>1. belle_sip_source_init(FALSE, NoTimeout) \in SourceFields
      BY DEF belle_sip_source_init, NoTimeout, SourceFields
    <3>2. src \in [Sources -> SourceFields]
      BY <2>1, <3>1
    <3>3. DOMAIN toNotify \subseteq Nat /\ toNotify \in [DOMAIN toNotify -> Sources]
      <4>1. <<>> \in Seq(Sources) /\ DOMAIN (<<>>) = {}
        OBVIOUS
      <4>2. <<>> \in [{} -> Sources]
        BY <4>1
      <4> QED
        BY <2>1, <4>1, <4>2
    <3>4. sources \in Seq(Sources) /\ pools \in Seq({"ml", "tmp", "lost"})
      <4>1. <<"ml">> \in Seq({"ml", "tmp", "lost"}) /\ <<>> \in Seq({"ml", "tmp", "lost"})
        OBVIOUS
      <4>2. <<>> \in Seq(Sources)
        OBVIOUS
      <4> QED
        BY <2>1, <4>1, <4>2
    <3> QED
      BY <2>1, <3>2, <3>3, <3>4 DEF LoopTypeOK
  <2>4. ListsInv /\ MarkedInv
    BY <2>1, <2>2, MainLoopAssumption DEF ListsInv, MarkedInv
  <2>5. MemoryInv
    BY <2>1, <2>2 DEF MemoryInv, Holders, Cell
  <2> QED
    BY <2>3, <2>4, <2>5 DEF LoopInv
<1>2. LoopInv /\ [Next]_vars => LoopInv'
  <2> SUFFICES ASSUME LoopInv, [Next]_vars PROVE LoopInv'
    OBVIOUS
  <2>1. CASE UNCHANGED loopVars
    <3>1. src' \in [Sources -> SourceFields]
      BY <2>1 DEF loopVars, LoopInv, LoopTypeOK
    <3> QED
      BY <2>1, <3>1, FieldsOnly DEF loopVars
  <2>2. CASE LoopNext
    BY <2>2, LoopStep
  <2> QED
    BY <2>1, <2>2 DEF Next, vars
<1> QED
  BY <1>1, <1>2, PTL DEF Spec

\* Whatever callbacks remove, cancel, add again or release, a source is freed exactly when the
\* application, the list of sources and the list of the turn have let go of it, and the floating
\* objects of a turn are gone when it is over (belle_sip_object_ref() and unref() in add_source,
\* remove_source and iterate).
THEOREM RefsBalancedHolds == Spec => []RefsBalanced
<1>1. LoopInv => RefsBalanced
  <2> SUFFICES ASSUME LoopInv PROVE RefsBalanced
    OBVIOUS
  <2>1. \A s \in Sources : memory[s] = Cell(Holders(s))
    BY DEF LoopInv, MemoryInv
  <2>2. running = Idle => \A o \in Floating : memory[o] = Unallocated
    BY DEF LoopInv, MemoryInv
  <2>3. ~Unallocated.live
    BY DEF Unallocated
  <2> HIDE DEF Holders
  <2> QED
    BY <2>1, <2>2, <2>3, Zenon DEF RefsBalanced, Cell
<1> QED
  BY <1>1, LoopInvariant, PTL

\* A callback is entered only for a source that is in the main loop at that time, although others
\* may have been selected in the same turn.
THEOREM RemovedIsSilentHolds == Spec => RemovedIsSilent
<1> DEFINE Silent == \A s \in Sources : (running' = s /\ running # s) => s \in Linked
<1>1. LoopInv /\ [Next]_vars => [Silent]_loopVars
  <2> SUFFICES ASSUME LoopInv, [Next]_vars, loopVars' # loopVars,
                      NEW s \in Sources, running' = s, running # s
               PROVE  s \in Linked
    BY DEF Silent
  <2>1. LoopNext /\ running' # running /\ running' # Idle /\ running' # "notify"
    BY MainLoopAssumption DEF Next, vars
  <2>2. Notify
    BY <2>1 DEF LoopNext, Turn, NewSource, belle_sip_source_set_timeout,
       belle_sip_main_loop_add_source, belle_sip_main_loop_do_later,
       belle_sip_main_loop_remove_source, belle_sip_main_loop_cancel_source, Release, NewFloating,
       belle_sip_main_loop_run, belle_sip_main_loop_quit, belle_sip_main_loop_destroy,
       SleepInCallback, PollInterrupted, Tick, PollAndCollect, SkipCancelled, Return, EndTurn
  <2>3. s = FirstToNotify /\ Pending # {} /\ ~src[s].cancelled
    BY <2>2 DEF Notify
  <2> QED
    BY <2>3, FirstAndOthers DEF LoopInv, MarkedInv
<1> QED
  BY <1>1, LoopInvariant, PTL DEF Spec, RemovedIsSilent, Silent

-----------------------------------------------------------------------------
(***************************************************************************)
(* The object system.                                                      *)
(***************************************************************************)
ObjectTypeOK ==
    /\ heap = [o \in Objects |-> heap[o]]
    /\ child \in [Objects -> Objects \cup {Nil}]
    /\ holds \in [Objects -> Nat] /\ dying.todo \in [Objects -> Nat]
    /\ stack \in [Threads -> Seq(Pools)]
    /\ poolOf \in [Pools -> Threads \cup {Nil, NoThread}]
    /\ watch \in [Threads -> Objects \cup {Nil}]
    /\ store \in [Objects -> [Names -> Data \cup {Nil}]] /\ freed = [d \in Data |-> freed[d]]

\* How many hold an object: the application, objects that own it, destructors.
HeldBy(o) == holds[o] + Owners(o)

\* An object has as many references as are held; one without a reference is in a pool of the
\* stack of a thread, or gone.
CountedInv ==
    \A o \in Objects :
        IF HeldBy(o) > 0 THEN heap[o] = Cell(HeldBy(o))
        ELSE \/ heap[o] = Unallocated
             \/ \E t \in Threads : \E i \in 1..Len(stack[t]) :
                  heap[o] = [live |-> TRUE, ref |-> 0, pool |-> stack[t][i]]

\* A pool is once in the stack of its thread, and in no other.
PoolsInv ==
    \A t \in Threads :
        /\ \A i \in 1..Len(stack[t]) : poolOf[stack[t][i]] = t
        /\ \A i, j \in 1..Len(stack[t]) : stack[t][i] = stack[t][j] => i = j

\* What is gone owns nothing, stores nothing and is watched by nobody.
ChildInv == \A o \in Objects : child[o] # Nil => heap[o].live

\* A datum that no merge shared is under one name of one object, or destroyed once.
StoreInv ==
    /\ shared \subseteq Data /\ \A d \in Data \ shared : freed[d] \in {0, 1}
    /\ \A o \in Objects, n \in Names : store[o][n] # Nil => heap[o].live
    /\ \A o \in Objects, n \in Names :
         store[o][n] \notin shared \cup {Nil} => freed[store[o][n]] = 0
    /\ \A o, x \in Objects, n, m \in Names :
         store[o][n] \notin shared \cup {Nil} /\ store[o][n] = store[x][m] => o = x /\ n = m

ObjectInv ==
    ObjectTypeOK /\ CountedInv /\ PoolsInv /\ ChildInv /\ StoreInv /\ WeakNeverDangles

\* The objects that own another one.
Parents(o) == {x \in Objects : child[x] = o}

LEMMA OwnersCounted ==
    ASSUME ObjectInv, NEW o \in Objects
    PROVE  /\ IsFiniteSet(Parents(o)) /\ Cardinality(Parents(o)) \in Nat
           /\ Owners(o) = Cardinality(Parents(o)) + dying.todo[o]
           /\ Owners(o) \in Nat /\ HeldBy(o) \in Nat
<1>1. IsFiniteSet(Parents(o))
  BY ObjectSystemAssumption, FS_Subset DEF Parents
<1>2. Cardinality(Parents(o)) \in Nat
  BY <1>1, FS_CardinalityType
<1>3. Owners(o) = Cardinality(Parents(o)) + dying.todo[o]
  BY DEF Owners, Parents
<1>4. dying.todo[o] \in Nat /\ holds[o] \in Nat
  BY DEF ObjectInv, ObjectTypeOK
<1> QED
  BY <1>1, <1>2, <1>3, <1>4 DEF HeldBy

\* An object exists if it is held or in a pool, with no reference in the latter case.
LEMMA HeldIsLive ==
    ASSUME ObjectInv, NEW o \in Objects
    PROVE  /\ HeldBy(o) > 0 => heap[o] = Cell(HeldBy(o)) /\ heap[o].live
                               /\ heap[o].ref # 0 /\ heap[o].pool = NoPool
           /\ heap[o].live /\ HeldBy(o) = 0 =>
                \E t \in Threads : \E i \in 1..Len(stack[t]) :
                  heap[o] = [live |-> TRUE, ref |-> 0, pool |-> stack[t][i]]
<1> HIDE DEF HeldBy
<1>1. CASE HeldBy(o) > 0
  <2>1. heap[o] = Cell(HeldBy(o))
    BY <1>1 DEF ObjectInv, CountedInv
  <2>2. HeldBy(o) \in Nat /\ HeldBy(o) # 0
    BY <1>1, OwnersCounted
  <2>3. Cell(HeldBy(o)) = [live |-> TRUE, ref |-> HeldBy(o), pool |-> NoPool]
    BY <2>2, Zenon DEF Cell
  <2>4. heap[o].live /\ heap[o].ref # 0 /\ heap[o].pool = NoPool
    BY <2>1, <2>2, <2>3
  <2> QED
    BY <1>1, <2>1, <2>4
<1>2. CASE ~(HeldBy(o) > 0)
  <2>1. \/ heap[o] = Unallocated
        \/ \E t \in Threads : \E i \in 1..Len(stack[t]) :
             heap[o] = [live |-> TRUE, ref |-> 0, pool |-> stack[t][i]]
    BY <1>2 DEF ObjectInv, CountedInv
  <2>2. ~Unallocated.live
    BY DEF Unallocated
  <2> QED
    BY <1>2, <2>1, <2>2, Zenon
<1> QED
  BY <1>1, <1>2

\* What a deletion leaves, when the objects in h are left and rest is what destructors have
\* still to unref without what the deleted objects own.
AfterDelete(h, rest) ==
    /\ heap' = h
    /\ child' \in [Objects -> Objects \cup {Nil}] /\ dying'.todo \in [Objects -> Nat]
    /\ watch' \in [Threads -> Objects \cup {Nil}]
    /\ store' \in [Objects -> [Names -> Data \cup {Nil}]] /\ freed' = [d \in Data |-> freed'[d]]
    /\ \A o \in Objects : Owners(o)' = Cardinality(Parents(o)) + rest[o]
    /\ ChildInv' /\ StoreInv' /\ WeakNeverDangles'

\* What is gone is no owner any more, but a destructor makes up for it.
LEMMA OwnersKept ==
    ASSUME ObjectInv, NEW gone \in SUBSET Objects, NEW rest \in [Objects -> Nat],
           child' = [o \in Objects |-> IF o \in gone THEN Nil ELSE child[o]],
           dying'.todo = [o \in Objects |->
                            rest[o] + Cardinality({g \in gone : child[g] = o})]
    PROVE  /\ dying'.todo \in [Objects -> Nat]
           /\ \A o \in Objects : Owners(o)' = Cardinality(Parents(o)) + rest[o]
<1> DEFINE owned(o) == {g \in gone : child[g] = o}
<1>1. ASSUME NEW o \in Objects
      PROVE  /\ rest[o] + Cardinality(owned(o)) \in Nat
             /\ Owners(o)' = Cardinality(Parents(o)) + rest[o]
  <2>1. IsFiniteSet(Parents(o)) /\ Cardinality(Parents(o)) \in Nat
    BY OwnersCounted
  <2>2. Parents(o) \cap gone = owned(o)
    BY DEF Parents
  <2>3. {x \in Objects : child'[x] = o} = Parents(o) \ gone
    BY ObjectSystemAssumption DEF Parents
  <2>4. /\ IsFiniteSet(owned(o)) /\ Cardinality(owned(o)) \in Nat
        /\ Cardinality(Parents(o) \ gone) = Cardinality(Parents(o)) - Cardinality(owned(o))
    <3>1. IsFiniteSet(owned(o))
      BY <2>1, <2>2, FS_Subset
    <3>2. Cardinality(Parents(o) \ gone)
            = Cardinality(Parents(o)) - Cardinality(Parents(o) \cap gone)
      BY <2>1, FS_Difference
    <3> QED
      BY <2>2, <3>1, <3>2, FS_CardinalityType
  <2>5. dying'.todo[o] = rest[o] + Cardinality(owned(o))
    OBVIOUS
  <2>6. Owners(o)' = Cardinality(Parents(o) \ gone) + dying'.todo[o]
    BY <2>3 DEF Owners
  <2>7. rest[o] \in Nat
    OBVIOUS
  <2> HIDE DEF owned, Parents
  <2> QED
    BY <2>1, <2>4, <2>5, <2>6, <2>7
<1>2. dying'.todo = [o \in Objects |-> rest[o] + Cardinality(owned(o))]
  OBVIOUS
<1> HIDE DEF owned
<1>3. \A o \in Objects : rest[o] + Cardinality(owned(o)) \in Nat
  BY <1>1, Zenon
<1>4. dying'.todo \in [Objects -> Nat]
  BY <1>2, <1>3
<1>5. \A o \in Objects : Owners(o)' = Cardinality(Parents(o)) + rest[o]
  BY <1>1
<1> QED
  BY <1>4, <1>5

\* Entries call their destroy function: a datum that was not shared is destroyed if one of them
\* has it, for the first time.
LEMMA FreedOnce ==
    ASSUME ObjectInv, NEW entries
    PROVE  /\ Freed(entries) = [d \in Data |-> Freed(entries)[d]]
           /\ \A d \in Data \ shared :
                /\ Freed(entries)[d] \in {0, 1}
                /\ Places(d) \cap entries = {} => Freed(entries)[d] = freed[d]
<1>1. Freed(entries) = [d \in Data |-> freed[d] + Cardinality(Places(d) \cap entries)]
  BY DEF Freed
<1>2. ASSUME NEW d \in Data \ shared
      PROVE  /\ Freed(entries)[d] \in {0, 1}
             /\ Places(d) \cap entries = {} => Freed(entries)[d] = freed[d]
  <2>1. freed[d] \in {0, 1} /\ d # Nil
    BY ObjectSystemAssumption DEF ObjectInv, StoreInv
  <2>2. \A x, y \in Places(d) : x = y /\ freed[d] = 0
    BY <2>1 DEF ObjectInv, StoreInv, Places
  <2>3. CASE Places(d) \cap entries = {}
    BY <1>1, <2>1, <2>3, FS_EmptySet
  <2>4. CASE Places(d) \cap entries # {}
    <3>1. PICK x : Places(d) \cap entries = {x} /\ freed[d] = 0
      BY <2>2, <2>4
    <3>2. Cardinality({x}) = 1
      BY FS_Singleton
    <3> QED
      BY <1>1, <2>4, <3>1, <3>2
  <2> QED
    BY <2>3, <2>4
<1>3. Freed(entries) = [d \in Data |-> Freed(entries)[d]]
  BY <1>1
<1> QED
  BY <1>2, <1>3

LEMMA DeleteKeeps ==
    ASSUME ObjectInv, NEW t, NEW h, NEW rest \in [Objects -> Nat], Delete(t, h, Gone(h), rest),
           shared' = shared
    PROVE  AfterDelete(h, rest)
<1> DEFINE gone == Gone(h)
<1>1. gone \subseteq Objects /\ \A o \in Objects : heap[o].live /\ o \notin gone => h[o].live
  BY DEF Gone
<1>2. /\ heap' = h
      /\ watch' = [w \in Threads |-> IF watch[w] \in gone THEN Nil ELSE watch[w]]
      /\ store' = [o \in Objects |-> IF o \in gone THEN NoDatum ELSE store[o]]
      /\ freed' = Freed(gone \X Names)
      /\ child' = [o \in Objects |-> IF o \in gone THEN Nil ELSE child[o]]
      /\ dying'.todo = [o \in Objects |->
                          rest[o] + Cardinality({g \in gone : child[g] = o})]
  BY DEF Delete, data_clear, loose_weak_refs
<1> HIDE DEF gone
<1>3. /\ child \in [Objects -> Objects \cup {Nil}]
      /\ watch \in [Threads -> Objects \cup {Nil}]
      /\ store \in [Objects -> [Names -> Data \cup {Nil}]] /\ freed = [d \in Data |-> freed[d]]
  BY DEF ObjectInv, ObjectTypeOK
<1>4. child' \in [Objects -> Objects \cup {Nil}] /\ watch' \in [Threads -> Objects \cup {Nil}]
  BY <1>2, <1>3
<1>5. NoDatum \in [Names -> Data \cup {Nil}] /\ \A n \in Names : NoDatum[n] = Nil
  BY DEF NoDatum
<1>6. store' \in [Objects -> [Names -> Data \cup {Nil}]]
  BY <1>2, <1>3, <1>5
<1>7. /\ dying'.todo \in [Objects -> Nat]
      /\ \A o \in Objects : Owners(o)' = Cardinality(Parents(o)) + rest[o]
  BY <1>1, <1>2, OwnersKept
<1>8. \A o \in Objects, n \in Names :
        store'[o][n] # Nil =>
          /\ o \notin gone /\ store'[o][n] = store[o][n] /\ store[o][n] \in Data
  BY <1>2, <1>3, <1>5
<1>9. StoreInv
  BY DEF ObjectInv
<1>10. freed' = [d \in Data |-> freed'[d]] /\ \A d \in Data \ shared : freed'[d] \in {0, 1}
  BY <1>2, FreedOnce
<1>11. \A d \in Data \ shared : Places(d) \cap (gone \X Names) = {} => freed'[d] = freed[d]
  BY <1>2, FreedOnce
<1>12. StoreInv'
  <2>1. ASSUME NEW o \in Objects, NEW n \in Names, store'[o][n] \notin shared \cup {Nil}
        PROVE  freed'[store'[o][n]] = 0
    <3>1. o \notin gone /\ store'[o][n] = store[o][n] /\ store[o][n] \in Data \ shared
      BY <1>8, <2>1
    <3>2. freed[store[o][n]] = 0
      BY <1>9, <2>1, <3>1 DEF StoreInv
    <3>3. Places(store[o][n]) \cap (gone \X Names) = {}
      BY <1>1, <1>9, <2>1, <3>1 DEF StoreInv, Places
    <3> QED
      BY <1>11, <3>1, <3>2, <3>3
  <2>2. \A o, x \in Objects, n, m \in Names :
          store'[o][n] \notin shared \cup {Nil} /\ store'[o][n] = store'[x][m] => o = x /\ n = m
    BY <1>8, <1>9 DEF StoreInv
  <2>3. \A o \in Objects, n \in Names : store'[o][n] # Nil => heap'[o].live
    BY <1>1, <1>2, <1>8, <1>9 DEF StoreInv
  <2>4. shared \subseteq Data
    BY <1>9 DEF StoreInv
  <2> QED
    BY <1>10, <2>1, <2>2, <2>3, <2>4 DEF StoreInv
<1>13. ChildInv'
  BY <1>1, <1>2 DEF ObjectInv, ChildInv
<1>14. WeakNeverDangles'
  BY <1>1, <1>2, <1>3 DEF ObjectInv, WeakNeverDangles
<1> QED
  BY <1>2, <1>4, <1>6, <1>7, <1>10, <1>12, <1>13, <1>14 DEF AfterDelete

\* The pools in the stack of a thread.
LEMMA StackedPools ==
    ASSUME ObjectInv, NEW t \in Threads
    PROVE  /\ stack[t] \in Seq(Pools) /\ DOMAIN stack[t] = 1..Len(stack[t]) /\ Len(stack[t]) \in Nat
           /\ \A i \in 1..Len(stack[t]) : stack[t][i] \in Pools /\ stack[t][i] # NoPool
<1>1. stack[t] \in Seq(Pools)
  BY DEF ObjectInv, ObjectTypeOK
<1> QED
  BY <1>1, ObjectSystemAssumption

\* The references of one object change with those who hold it.
LEMMA OneCounted ==
    ASSUME ObjectInv, NEW o \in Objects, HeldBy(o)' \in Nat,
           heap' = [heap EXCEPT ![o] = Cell(HeldBy(o)')],
           \A x \in Objects \ {o} : HeldBy(x)' = HeldBy(x),
           UNCHANGED stack
    PROVE  heap' = [x \in Objects |-> heap'[x]] /\ CountedInv'
<1>1. heap = [x \in Objects |-> heap[x]]
  BY DEF ObjectInv, ObjectTypeOK
<1>2. heap' = [x \in Objects |-> heap'[x]] /\ heap'[o] = Cell(HeldBy(o)')
  BY <1>1
<1>3. ASSUME NEW x \in Objects
      PROVE  IF HeldBy(x)' > 0 THEN heap'[x] = Cell(HeldBy(x)')
             ELSE \/ heap'[x] = Unallocated
                  \/ \E t \in Threads : \E i \in 1..Len(stack'[t]) :
                       heap'[x] = [live |-> TRUE, ref |-> 0, pool |-> stack'[t][i]]
  <2>1. CASE x = o
    <3>1. ~(HeldBy(o)' > 0) => HeldBy(o)' = 0
      OBVIOUS
    <3>2. Cell(0) = Unallocated
      BY DEF Cell
    <3> QED
      BY <1>2, <2>1, <3>1, <3>2
  <2>2. CASE x # o
    <3>1. heap'[x] = heap[x] /\ HeldBy(x)' = HeldBy(x) /\ stack' = stack
      BY <1>1, <2>2
    <3>2. IF HeldBy(x) > 0 THEN heap[x] = Cell(HeldBy(x))
          ELSE \/ heap[x] = Unallocated
               \/ \E t \in Threads : \E i \in 1..Len(stack[t]) :
                    heap[x] = [live |-> TRUE, ref |-> 0, pool |-> stack[t][i]]
      BY DEF ObjectInv, CountedInv
    <3> QED
      BY <3>1, <3>2, Zenon
  <2> QED
    BY <2>1, <2>2
<1> QED
  BY <1>2, <1>3 DEF CountedInv

\* The pools stay.
LEMMA PoolsKept ==
    ASSUME ObjectInv, UNCHANGED <<stack, poolOf>>
    PROVE  /\ PoolsInv' /\ stack' \in [Threads -> Seq(Pools)]
           /\ poolOf' \in [Pools -> Threads \cup {Nil, NoThread}]
BY DEF ObjectInv, ObjectTypeOK, PoolsInv

\* What one holder gives to another makes no difference to the sum.
LEMMA SameSum ==
    ASSUME NEW a \in Nat, NEW b \in Nat, NEW c \in Nat, NEW d \in Nat, NEW e \in Nat
    PROVE  /\ a + b = d + e => a + c + b = d + c + e
           /\ a + b = d + e - 1 => a + c + b = (d + c + e) - 1
OBVIOUS

\* One reference less, with what a deletion leads to.
LEMMA UnrefKeeps ==
    ASSUME ObjectInv, NEW t, NEW o \in Objects, NEW rest \in [Objects -> Nat], unref(t, o, rest),
           UNCHANGED <<stack, poolOf, shared>>, holds' \in [Objects -> Nat],
           \A x \in Objects \ {o} : holds'[x] + rest[x] = holds[x] + dying.todo[x],
           \/ HeldBy(o) > 0 /\ holds'[o] + rest[o] = holds[o] + dying.todo[o] - 1
           \/ HeldBy(o) = 0 /\ heap[o].live /\ holds'[o] + rest[o] = holds[o] + dying.todo[o]
    PROVE  ObjectInv'
<1>1. PICK h : h = belle_sip_object_unref(heap, o)
  OBVIOUS
<1>2. AfterDelete(h, rest)
  <2>1. Delete(t, h, Gone(h), rest)
    BY <1>1 DEF unref
  <2> QED
    BY <2>1, DeleteKeeps
<1>3. \A x \in Objects : HeldBy(x)' = holds'[x] + Cardinality(Parents(x)) + rest[x]
  <2>1. ASSUME NEW x \in Objects
        PROVE  HeldBy(x)' = holds'[x] + Cardinality(Parents(x)) + rest[x]
    <3>1. Owners(x)' = Cardinality(Parents(x)) + rest[x]
      BY <1>2 DEF AfterDelete
    <3>2. Cardinality(Parents(x)) \in Nat /\ rest[x] \in Nat /\ holds'[x] \in Nat
      BY OwnersCounted
    <3> QED
      BY <3>1, <3>2 DEF HeldBy
  <2> QED
    BY <2>1
<1>4. \A x \in Objects :
        /\ HeldBy(x) = holds[x] + Cardinality(Parents(x)) + dying.todo[x]
        /\ Cardinality(Parents(x)) \in Nat /\ holds[x] \in Nat /\ dying.todo[x] \in Nat
        /\ holds'[x] \in Nat /\ rest[x] \in Nat
  <2>1. ASSUME NEW x \in Objects
        PROVE  /\ Cardinality(Parents(x)) \in Nat /\ Owners(x) = Cardinality(Parents(x)) + dying.todo[x]
               /\ holds[x] \in Nat /\ dying.todo[x] \in Nat /\ holds'[x] \in Nat /\ rest[x] \in Nat
    BY OwnersCounted DEF ObjectInv, ObjectTypeOK
  <2>2. ASSUME NEW x \in Objects
        PROVE  HeldBy(x) = holds[x] + Cardinality(Parents(x)) + dying.todo[x]
    BY <2>1 DEF HeldBy
  <2> QED
    BY <2>1, <2>2
<1>5. \A x \in Objects \ {o} : HeldBy(x)' = HeldBy(x)
  <2>1. ASSUME NEW x \in Objects \ {o} PROVE HeldBy(x)' = HeldBy(x)
    <3>1. PICK a \in Nat, b \in Nat, c \in Nat, d \in Nat, e \in Nat :
            /\ holds'[x] = a /\ rest[x] = b /\ Cardinality(Parents(x)) = c
            /\ holds[x] = d /\ dying.todo[x] = e
      BY <1>4
    <3>2. HeldBy(x)' = a + c + b /\ HeldBy(x) = d + c + e
      BY <1>3, <1>4, <3>1
    <3>3. a + b = d + e
      BY <3>1
    <3>4. a + c + b = d + c + e
      BY <3>3, SameSum
    <3> HIDE DEF HeldBy
    <3> QED
      BY <3>2, <3>4, Zenon
  <2> QED
    BY <2>1
<1>6. HeldBy(o) \in Nat /\ HeldBy(o)' \in Nat /\ heap' = [heap EXCEPT ![o] = Cell(HeldBy(o)')]
  <2> DEFINE c == Cardinality(Parents(o))
  <2>1. /\ HeldBy(o)' = holds'[o] + c + rest[o] /\ HeldBy(o) = holds[o] + c + dying.todo[o]
        /\ c \in Nat /\ holds[o] \in Nat /\ dying.todo[o] \in Nat
        /\ holds'[o] \in Nat /\ rest[o] \in Nat
    BY <1>3, <1>4
  <2>2. o \in DOMAIN heap /\ heap' = belle_sip_object_unref(heap, o)
    BY <1>1, <1>2 DEF ObjectInv, ObjectTypeOK, AfterDelete
  <2> HIDE DEF c, HeldBy
  <2>3. CASE HeldBy(o) > 0 /\ holds'[o] + rest[o] = holds[o] + dying.todo[o] - 1
    <3>1. HeldBy(o)' = HeldBy(o) - 1 /\ HeldBy(o) \in Nat \ {0}
      <4>1. holds'[o] + c + rest[o] = (holds[o] + c + dying.todo[o]) - 1
        BY <2>1, <2>3, SameSum
      <4>2. HeldBy(o)' = HeldBy(o) - 1
        BY <2>1, <4>1, Zenon
      <4> QED
        BY <2>3, <4>2, OwnersCounted
    <3>2. heap[o] = Cell(HeldBy(o))
      BY <2>3, HeldIsLive
    <3>3. belle_sip_object_unref(heap, o) = [heap EXCEPT ![o] = Cell(HeldBy(o) - 1)]
      BY <2>2, <3>1, <3>2, UnrefCell
    <3> QED
      BY <2>2, <3>1, <3>3
  <2>4. CASE HeldBy(o) = 0 /\ heap[o].live /\ holds'[o] + rest[o] = holds[o] + dying.todo[o]
    <3>1. HeldBy(o)' = 0
      BY <2>1, <2>4
    <3>2. heap[o].ref = 0 /\ heap[o].pool # NoPool
      <4>1. PICK w \in Threads : \E i \in 1..Len(stack[w]) :
              heap[o] = [live |-> TRUE, ref |-> 0, pool |-> stack[w][i]]
        BY <2>4, HeldIsLive
      <4>2. PICK i \in 1..Len(stack[w]) :
              heap[o] = [live |-> TRUE, ref |-> 0, pool |-> stack[w][i]]
        BY <4>1
      <4>3. stack[w][i] # NoPool
        BY StackedPools
      <4> QED
        BY <4>2, <4>3
    <3>3. belle_sip_object_unref(heap, o) = [heap EXCEPT ![o] = Unallocated]
      BY <3>2 DEF belle_sip_object_unref, belle_sip_object_delete
    <3> QED
      BY <2>2, <2>4, <3>1, <3>3 DEF Cell
  <2> QED
    BY <2>3, <2>4
<1>7. heap' = [x \in Objects |-> heap'[x]] /\ CountedInv'
  BY <1>5, <1>6, OneCounted
<1>8. /\ PoolsInv' /\ stack' \in [Threads -> Seq(Pools)]
      /\ poolOf' \in [Pools -> Threads \cup {Nil, NoThread}]
  BY PoolsKept
<1> QED
  BY <1>2, <1>7, <1>8 DEF AfterDelete, ObjectInv, ObjectTypeOK

\* A destructor, or the application, calls unref().
LEMMA DestructorKeeps ==
    ASSUME ObjectInv, Destructor
    PROVE  ObjectInv'
<1>1. PICK o \in Objects :
        dying.todo[o] > 0 /\ unref(dying.thread, o, [dying.todo EXCEPT ![o] = @ - 1])
  BY DEF Destructor
<1>2. UNCHANGED <<holds, stack, poolOf, shared>>
  BY DEF Destructor
<1>3. holds \in [Objects -> Nat] /\ dying.todo \in [Objects -> Nat]
  BY DEF ObjectInv, ObjectTypeOK
<1>4. PICK rest : rest = [dying.todo EXCEPT ![o] = @ - 1]
  OBVIOUS
<1>5. PICK t : t = dying.thread
  OBVIOUS
<1>6. rest \in [Objects -> Nat] /\ rest[o] = dying.todo[o] - 1
  <2>1. dying.todo[o] - 1 \in Nat
    BY <1>1, <1>3
  <2> QED
    BY <1>3, <1>4, <2>1
<1>7. \A x \in Objects \ {o} : holds'[x] + rest[x] = holds[x] + dying.todo[x]
  BY <1>2, <1>3, <1>4
<1>8. holds'[o] + rest[o] = holds[o] + dying.todo[o] - 1
  BY <1>2, <1>3, <1>6
<1>9. HeldBy(o) > 0
  <2>1. /\ Cardinality(Parents(o)) \in Nat /\ holds[o] \in Nat /\ dying.todo[o] \in Nat
        /\ Owners(o) = Cardinality(Parents(o)) + dying.todo[o]
    BY <1>3, OwnersCounted
  <2> HIDE DEF Parents
  <2> QED
    BY <1>1, <2>1 DEF HeldBy
<1>10. unref(t, o, rest)
  BY <1>1, <1>4, <1>5
<1>11. holds' \in [Objects -> Nat]
  BY <1>2, <1>3
<1> QED
  BY <1>2, <1>6, <1>7, <1>8, <1>9, <1>10, <1>11, UnrefKeeps

LEMMA UnrefByThreadKeeps ==
    ASSUME ObjectInv, NEW t \in Threads, NEW o \in Objects, Unref(t, o)
    PROVE  ObjectInv'
<1>1. /\ heap[o].live /\ (holds[o] > 0 \/ heap[o].ref = 0)
      /\ unref(t, o, dying.todo) /\ UNCHANGED <<stack, poolOf, shared>>
      /\ holds' = [holds EXCEPT ![o] = IF @ > 0 THEN @ - 1 ELSE 0]
  BY DEF Unref, MayUse
<1>2. holds \in [Objects -> Nat] /\ dying.todo \in [Objects -> Nat]
  BY DEF ObjectInv, ObjectTypeOK
<1>3. PICK rest : rest = dying.todo
  OBVIOUS
<1>4. rest \in [Objects -> Nat] /\ unref(t, o, rest)
  BY <1>1, <1>2, <1>3
<1>5. holds' \in [Objects -> Nat] /\ holds'[o] = (IF holds[o] > 0 THEN holds[o] - 1 ELSE 0)
  <2>1. (IF holds[o] > 0 THEN holds[o] - 1 ELSE 0) \in Nat
    BY <1>2
  <2> QED
    BY <1>1, <1>2, <2>1
<1>6. \A x \in Objects \ {o} : holds'[x] + rest[x] = holds[x] + dying.todo[x]
  BY <1>1, <1>2, <1>3
<1>7. /\ Cardinality(Parents(o)) \in Nat /\ holds[o] \in Nat /\ dying.todo[o] \in Nat
      /\ Owners(o) = Cardinality(Parents(o)) + dying.todo[o] /\ HeldBy(o) \in Nat
  BY <1>2, OwnersCounted
<1>8. CASE holds[o] > 0
  <2>1. HeldBy(o) > 0
    <3> HIDE DEF Parents
    <3> QED
      BY <1>7, <1>8 DEF HeldBy
  <2>2. holds'[o] + rest[o] = holds[o] + dying.todo[o] - 1
    BY <1>3, <1>5, <1>7, <1>8
  <2> QED
    BY <1>1, <1>4, <1>5, <1>6, <2>1, <2>2, UnrefKeeps
<1>9. CASE ~(holds[o] > 0)
  <2>1. HeldBy(o) = 0
    BY <1>1, <1>7, <1>9, HeldIsLive
  <2>2. holds'[o] + rest[o] = holds[o] + dying.todo[o]
    BY <1>3, <1>5, <1>7, <1>9
  <2> QED
    BY <1>1, <1>4, <1>5, <1>6, <2>1, <2>2, UnrefKeeps
<1> QED
  BY <1>8, <1>9

\* Who owns what, and what destructors have to do, is as before.
LEMMA OwnersSame ==
    ASSUME UNCHANGED <<child, dying>>
    PROVE  \A o \in Objects : Owners(o)' = Owners(o)
BY DEF Owners

\* No object goes, and neither the stores nor the pointers of weak references change.
LEMMA LivesOn ==
    ASSUME ObjectInv, UNCHANGED <<watch, store, freed, shared>>,
           \A o \in Objects : heap[o].live => heap'[o].live
    PROVE  /\ StoreInv' /\ WeakNeverDangles'
           /\ watch' \in [Threads -> Objects \cup {Nil}]
           /\ store' \in [Objects -> [Names -> Data \cup {Nil}]] /\ freed' = [d \in Data |-> freed'[d]]
<1>1. StoreInv'
  BY DEF ObjectInv, StoreInv
<1>2. WeakNeverDangles'
  BY DEF ObjectInv, ObjectTypeOK, WeakNeverDangles
<1> QED
  BY <1>1, <1>2 DEF ObjectInv, ObjectTypeOK

\* A new object, held by the application or in the current pool of the thread.
LEMMA NewKeeps ==
    ASSUME ObjectInv, NEW t \in Threads, NEW o \in Objects, NEW unowned \in BOOLEAN,
           New(t, o, unowned)
    PROVE  ObjectInv'
<1>1. /\ ~heap[o].live /\ (unowned => stack[t] # <<>>)
      /\ heap' = belle_sip_object_new(heap, o, unowned, stack[t])
      /\ holds' = [holds EXCEPT ![o] = IF unowned THEN 0 ELSE 1]
      /\ UNCHANGED <<child, stack, poolOf, watch, store, freed, shared, dying>>
  BY DEF New
<1>2. heap = [x \in Objects |-> heap[x]] /\ holds \in [Objects -> Nat]
  BY DEF ObjectInv, ObjectTypeOK
<1>3. holds[o] = 0 /\ Owners(o) = 0
  <2>1. ~(HeldBy(o) > 0)
    BY <1>1, HeldIsLive
  <2>2. holds[o] \in Nat /\ Owners(o) \in Nat
    BY <1>2, OwnersCounted
  <2> QED
    BY <2>1, <2>2 DEF HeldBy
<1>4. \A x \in Objects : Owners(x)' = Owners(x)
  BY <1>1, OwnersSame
<1>5. \A x \in Objects \ {o} : heap'[x] = heap[x] /\ HeldBy(x)' = HeldBy(x)
  BY <1>1, <1>2, <1>4 DEF HeldBy, belle_sip_object_new
<1>6. heap' = [x \in Objects |-> heap'[x]] /\ CountedInv' /\ heap'[o].live
      /\ holds' \in [Objects -> Nat]
  <2>1. CASE ~unowned
    <3>1. HeldBy(o)' = 1
      BY <1>1, <1>2, <1>3, <1>4, <2>1 DEF HeldBy
    <3>2. heap' = [heap EXCEPT ![o] = Cell(HeldBy(o)')]
      BY <1>1, <2>1, <3>1 DEF belle_sip_object_new, Cell
    <3>3. heap' = [x \in Objects |-> heap'[x]] /\ CountedInv'
      <4>1. HeldBy(o)' \in Nat /\ (\A x \in Objects \ {o} : HeldBy(x)' = HeldBy(x))
            /\ UNCHANGED stack
        BY <1>1, <1>5, <3>1
      <4> QED
        BY <3>2, <4>1, OneCounted
    <3>4. heap'[o].live
      BY <1>2, <3>1, <3>2 DEF Cell
    <3>5. holds' \in [Objects -> Nat]
      BY <1>1, <1>2, <2>1
    <3> QED
      BY <3>3, <3>4, <3>5
  <2>2. CASE unowned
    <3>1. holds' = holds
      BY <1>1, <1>2, <1>3, <2>2
    <3>2. HeldBy(o)' = 0
      BY <1>3, <1>4, <3>1 DEF HeldBy
    <3>3. 1 \in 1..Len(stack[t]) /\ Head(stack[t]) = stack[t][1]
      BY <1>1, <2>2, StackedPools
    <3>4. heap'[o] = [live |-> TRUE, ref |-> 0, pool |-> stack'[t][1]] /\ stack' = stack
      BY <1>1, <1>2, <2>2, <3>3 DEF belle_sip_object_new, belle_sip_object_pool_get_current
    <3>5. ASSUME NEW x \in Objects
          PROVE  IF HeldBy(x)' > 0 THEN heap'[x] = Cell(HeldBy(x)')
                 ELSE \/ heap'[x] = Unallocated
                      \/ \E w \in Threads : \E i \in 1..Len(stack'[w]) :
                           heap'[x] = [live |-> TRUE, ref |-> 0, pool |-> stack'[w][i]]
      <4>1. CASE x = o
        <5>1. ~(HeldBy(o)' > 0)
          BY <3>2
        <5>2. \E i \in 1..Len(stack'[t]) :
                heap'[o] = [live |-> TRUE, ref |-> 0, pool |-> stack'[t][i]]
          BY <3>3, <3>4, Zenon
        <5> QED
          BY <4>1, <5>1, <5>2
      <4>2. CASE x # o
        <5>1. IF HeldBy(x) > 0 THEN heap[x] = Cell(HeldBy(x))
              ELSE \/ heap[x] = Unallocated
                   \/ \E w \in Threads : \E i \in 1..Len(stack[w]) :
                        heap[x] = [live |-> TRUE, ref |-> 0, pool |-> stack[w][i]]
          BY DEF ObjectInv, CountedInv
        <5>2. heap'[x] = heap[x] /\ HeldBy(x)' = HeldBy(x) /\ stack' = stack
          BY <1>5, <3>4, <4>2
        <5> QED
          BY <5>1, <5>2, Zenon
      <4> QED
        BY <4>1, <4>2
    <3>6. heap' = [x \in Objects |-> heap'[x]] /\ heap'[o].live
      BY <1>1, <1>2, <3>4 DEF belle_sip_object_new
    <3> QED
      BY <1>2, <3>1, <3>5, <3>6 DEF CountedInv
  <2> QED
    BY <2>1, <2>2
<1>7. \A x \in Objects : heap[x].live => heap'[x].live
  BY <1>5, <1>6
<1>8. ChildInv'
  BY <1>1, <1>7 DEF ObjectInv, ChildInv
<1>9. child' \in [Objects -> Objects \cup {Nil}] /\ dying'.todo \in [Objects -> Nat]
  BY <1>1 DEF ObjectInv, ObjectTypeOK
<1> QED
  BY <1>1, <1>6, <1>7, <1>8, <1>9, LivesOn, PoolsKept DEF ObjectInv, ObjectTypeOK

\* One more reference to an object that exists.
LEMMA RefLive ==
    ASSUME ObjectInv, NEW o \in Objects, heap[o].live
    PROVE  belle_sip_object_ref(heap, o) = [heap EXCEPT ![o] = Cell(HeldBy(o) + 1)]
<1>1. o \in DOMAIN heap /\ HeldBy(o) \in Nat
  BY OwnersCounted DEF ObjectInv, ObjectTypeOK
<1> HIDE DEF HeldBy
<1>2. CASE HeldBy(o) > 0
  <2>1. heap[o] = Cell(HeldBy(o)) /\ HeldBy(o) \in Nat \ {0}
    BY <1>1, <1>2, HeldIsLive
  <2> QED
    BY <1>1, <2>1, RefCell
<1>3. CASE HeldBy(o) = 0
  <2>1. PICK w \in Threads : \E i \in 1..Len(stack[w]) :
          heap[o] = [live |-> TRUE, ref |-> 0, pool |-> stack[w][i]]
    BY <1>3, HeldIsLive
  <2>2. PICK q : heap[o] = [live |-> TRUE, ref |-> 0, pool |-> q]
    BY <2>1
  <2>3. belle_sip_object_ref(heap, o)
          = [heap EXCEPT ![o] = [live |-> TRUE, ref |-> 1, pool |-> NoPool]]
    <3>1. PICK l : l = TRUE /\ heap[o] = [live |-> l, ref |-> 0, pool |-> q]
      BY <2>2, Zenon
    <3>2. heap[o] = [live |-> l, ref |-> 0, pool |-> q]
      BY <3>1
    <3>3. belle_sip_object_ref(heap, o) = [heap EXCEPT ![o].ref = 1, ![o].pool = NoPool]
      BY <3>2 DEF belle_sip_object_ref
    <3>4. PICK r : r = [heap[o] EXCEPT !.ref = 1]
      OBVIOUS
    <3>5. r = [live |-> l, ref |-> 1, pool |-> q]
      <4>1. [[live |-> l, ref |-> 0, pool |-> q] EXCEPT !.ref = 1]
              = [live |-> l, ref |-> 1, pool |-> q]
        OBVIOUS
      <4> QED
        BY <3>2, <3>4, <4>1
    <3>6. [r EXCEPT !.pool = NoPool] = [live |-> l, ref |-> 1, pool |-> NoPool]
      BY <3>5
    <3>7. [heap EXCEPT ![o].ref = 1, ![o].pool = NoPool]
            = [heap EXCEPT ![o] = [r EXCEPT !.pool = NoPool]]
      BY <3>4
    <3>8. belle_sip_object_ref(heap, o)
            = [heap EXCEPT ![o] = [live |-> l, ref |-> 1, pool |-> NoPool]]
      BY <3>3, <3>6, <3>7
    <3> QED
      BY <3>1, <3>8, Zenon
  <2>4. Cell(1) = [live |-> TRUE, ref |-> 1, pool |-> NoPool]
    BY DEF Cell
  <2>5. HeldBy(o) + 1 = 1
    BY <1>3
  <2> QED
    BY <2>3, <2>4, <2>5
<1> QED
  BY <1>1, <1>2, <1>3

LEMMA RefKeeps ==
    ASSUME ObjectInv, NEW t \in Threads, NEW o \in Objects, Ref(t, o)
    PROVE  ObjectInv'
<1>1. /\ heap[o].live /\ heap' = belle_sip_object_ref(heap, o)
      /\ holds' = [holds EXCEPT ![o] = @ + 1]
      /\ UNCHANGED <<child, stack, poolOf, watch, store, freed, shared, dying>>
  BY DEF Ref, MayUse
<1>2. /\ holds \in [Objects -> Nat] /\ heap = [x \in Objects |-> heap[x]]
      /\ HeldBy(o) \in Nat /\ Owners(o) \in Nat
  BY OwnersCounted DEF ObjectInv, ObjectTypeOK
<1>3. \A x \in Objects : Owners(x)' = Owners(x)
  BY <1>1, OwnersSame
<1>4. \A x \in Objects \ {o} : HeldBy(x)' = HeldBy(x)
  BY <1>1, <1>2, <1>3 DEF HeldBy
<1>5. HeldBy(o)' = HeldBy(o) + 1 /\ HeldBy(o)' \in Nat \ {0}
  <2>1. HeldBy(o)' = holds'[o] + Owners(o) /\ holds'[o] = holds[o] + 1 /\ holds[o] \in Nat
    BY <1>1, <1>2, <1>3 DEF HeldBy
  <2> QED
    BY <1>2, <2>1 DEF HeldBy
<1>6. heap' = [heap EXCEPT ![o] = Cell(HeldBy(o)')]
  BY <1>1, <1>5, RefLive
<1>7. heap' = [x \in Objects |-> heap'[x]] /\ CountedInv'
  BY <1>1, <1>4, <1>5, <1>6, OneCounted
<1>8. \A x \in Objects : heap[x].live => heap'[x].live
  BY <1>2, <1>5, <1>6 DEF Cell
<1>9. ChildInv'
  BY <1>1, <1>8 DEF ObjectInv, ChildInv
<1>10. /\ child' \in [Objects -> Objects \cup {Nil}] /\ dying'.todo \in [Objects -> Nat]
       /\ holds' \in [Objects -> Nat]
  BY <1>1, <1>2 DEF ObjectInv, ObjectTypeOK
<1> QED
  BY <1>1, <1>7, <1>8, <1>9, <1>10, LivesOn, PoolsKept DEF ObjectInv, ObjectTypeOK

\* A setter gives an object one owner more, and takes the owner of what was there before until
\* the destructor is done with it.
LEMMA OwnCounted ==
    ASSUME ObjectInv, NEW o \in Objects, NEW c \in Objects, Calm, NEW t,
           child' = [child EXCEPT ![o] = c],
           dying' = IF child[o] = Nil THEN dying
                    ELSE [thread |-> t, todo |-> [dying.todo EXCEPT ![child[o]] = 1]]
    PROVE  /\ dying'.todo \in [Objects -> Nat]
           /\ Owners(c)' = Owners(c) + 1
           /\ \A x \in Objects \ {c} : Owners(x)' = Owners(x)
<1>1. /\ child \in [Objects -> Objects \cup {Nil}] /\ dying.todo \in [Objects -> Nat]
      /\ Nil \notin Objects /\ \A x \in Objects : dying.todo[x] = 0
  BY ObjectSystemAssumption DEF ObjectInv, ObjectTypeOK, Calm
<1>2. \A x \in Objects :
        {y \in Objects : child'[y] = x} = IF x = c THEN Parents(x) \cup {o} ELSE Parents(x) \ {o}
  BY <1>1 DEF Parents
<1>3. \A x \in Objects : o \in Parents(x) <=> child[o] = x
  BY DEF Parents
<1>4. \A x \in Objects : dying'.todo[x] = IF x = child[o] THEN 1 ELSE 0
  <2>1. CASE child[o] = Nil
    BY <1>1, <2>1
  <2>2. CASE child[o] # Nil
    <3>1. dying'.todo = [dying.todo EXCEPT ![child[o]] = 1]
      BY <2>2
    <3> QED
      BY <1>1, <3>1
  <2> QED
    BY <2>1, <2>2
<1>5. dying'.todo \in [Objects -> Nat]
  <2>1. CASE child[o] = Nil
    BY <1>1, <2>1
  <2>2. CASE child[o] # Nil
    <3>1. dying'.todo = [dying.todo EXCEPT ![child[o]] = 1]
      BY <2>2
    <3> QED
      BY <1>1, <3>1
  <2> QED
    BY <2>1, <2>2
<1>6. ASSUME NEW x \in Objects
      PROVE  /\ Owners(x) = Cardinality(Parents(x)) /\ IsFiniteSet(Parents(x))
             /\ Cardinality(Parents(x)) \in Nat
             /\ Owners(x)' = Cardinality(IF x = c THEN Parents(x) \cup {o} ELSE Parents(x) \ {o})
                              + (IF o \in Parents(x) THEN 1 ELSE 0)
  <2>1. /\ IsFiniteSet(Parents(x)) /\ Cardinality(Parents(x)) \in Nat
        /\ Owners(x) = Cardinality(Parents(x)) + dying.todo[x]
    BY OwnersCounted
  <2>2. dying'.todo[x] = (IF o \in Parents(x) THEN 1 ELSE 0)
    BY <1>3, <1>4
  <2>3. Owners(x)' = Cardinality({y \in Objects : child'[y] = x}) + dying'.todo[x]
    BY DEF Owners
  <2>4. Owners(x) = Cardinality(Parents(x))
    <3> HIDE DEF Parents
    <3> QED
      BY <1>1, <2>1
  <2> QED
    BY <1>2, <2>1, <2>2, <2>3, <2>4, Zenon
<1>7. Owners(c)' = Owners(c) + 1
  <2>1. Cardinality(Parents(c) \cup {o})
          = IF o \in Parents(c) THEN Cardinality(Parents(c)) ELSE Cardinality(Parents(c)) + 1
    BY <1>6, FS_AddElement
  <2>2. /\ Owners(c) = Cardinality(Parents(c)) /\ Cardinality(Parents(c)) \in Nat
        /\ Owners(c)' = Cardinality(Parents(c) \cup {o}) + (IF o \in Parents(c) THEN 1 ELSE 0)
    BY <1>6
  <2> HIDE DEF Parents
  <2> QED
    BY <2>1, <2>2
<1>8. ASSUME NEW x \in Objects \ {c} PROVE Owners(x)' = Owners(x)
  <2>1. /\ Owners(x) = Cardinality(Parents(x)) /\ Cardinality(Parents(x)) \in Nat
        /\ Owners(x)' = Cardinality(Parents(x) \ {o}) + (IF o \in Parents(x) THEN 1 ELSE 0)
        /\ IsFiniteSet(Parents(x))
    BY <1>6
  <2>2. Cardinality(Parents(x) \ {o})
          = IF o \in Parents(x) THEN Cardinality(Parents(x)) - 1 ELSE Cardinality(Parents(x))
    BY <2>1, FS_RemoveElement
  <2> HIDE DEF Parents
  <2> QED
    BY <2>1, <2>2
<1> QED
  BY <1>5, <1>7, <1>8

LEMMA OwnKeeps ==
    ASSUME ObjectInv, NEW t \in Threads, NEW o \in Objects, NEW c \in Objects, Own(t, o, c)
    PROVE  ObjectInv'
<1>1. /\ Calm /\ heap[o].live /\ heap[c].live
      /\ heap' = belle_sip_object_ref(heap, c)
      /\ dying' = (IF child[o] = Nil THEN dying
                   ELSE [thread |-> t, todo |-> [dying.todo EXCEPT ![child[o]] = 1]])
      /\ child' = [child EXCEPT ![o] = c]
      /\ UNCHANGED <<holds, stack, poolOf, watch, store, freed, shared>>
  BY DEF Own, MayUse
<1>2. /\ dying'.todo \in [Objects -> Nat]
      /\ Owners(c)' = Owners(c) + 1 /\ \A x \in Objects \ {c} : Owners(x)' = Owners(x)
  BY <1>1, OwnCounted
<1>3. /\ holds \in [Objects -> Nat] /\ heap = [x \in Objects |-> heap[x]]
      /\ HeldBy(c) \in Nat /\ Owners(c) \in Nat /\ child \in [Objects -> Objects \cup {Nil}]
  BY OwnersCounted DEF ObjectInv, ObjectTypeOK
<1>4. \A x \in Objects \ {c} : HeldBy(x)' = HeldBy(x)
  BY <1>1, <1>2 DEF HeldBy
<1>5. HeldBy(c)' = HeldBy(c) + 1 /\ HeldBy(c)' \in Nat \ {0}
  <2>1. HeldBy(c)' = holds[c] + (Owners(c) + 1) /\ holds[c] \in Nat
    BY <1>1, <1>2, <1>3 DEF HeldBy
  <2> QED
    BY <1>3, <2>1 DEF HeldBy
<1>6. heap' = [heap EXCEPT ![c] = Cell(HeldBy(c)')]
  BY <1>1, <1>5, RefLive
<1>7. heap' = [x \in Objects |-> heap'[x]] /\ CountedInv'
  BY <1>1, <1>4, <1>5, <1>6, OneCounted
<1>8. \A x \in Objects : heap[x].live => heap'[x].live
  BY <1>3, <1>5, <1>6 DEF Cell
<1>9. ChildInv' /\ child' \in [Objects -> Objects \cup {Nil}] /\ holds' \in [Objects -> Nat]
  BY <1>1, <1>3, <1>8 DEF ObjectInv, ChildInv
<1> QED
  BY <1>1, <1>2, <1>7, <1>8, <1>9, LivesOn, PoolsKept DEF ObjectInv, ObjectTypeOK

\* Neither references nor pools change.
LEMMA SameObjects ==
    ASSUME ObjectInv, UNCHANGED <<heap, holds, child, stack, poolOf, dying>>
    PROVE  /\ CountedInv' /\ PoolsInv' /\ ChildInv'
           /\ heap' = [o \in Objects |-> heap'[o]]
           /\ child' \in [Objects -> Objects \cup {Nil}] /\ holds' \in [Objects -> Nat]
           /\ dying'.todo \in [Objects -> Nat] /\ stack' \in [Threads -> Seq(Pools)]
           /\ poolOf' \in [Pools -> Threads \cup {Nil, NoThread}]
<1>1. CountedInv'
  <2>1. \A o \in Objects : HeldBy(o)' = HeldBy(o)
    BY OwnersSame DEF HeldBy
  <2>2. ASSUME NEW o \in Objects
        PROVE  IF HeldBy(o)' > 0 THEN heap'[o] = Cell(HeldBy(o)')
               ELSE \/ heap'[o] = Unallocated
                    \/ \E t \in Threads : \E i \in 1..Len(stack'[t]) :
                         heap'[o] = [live |-> TRUE, ref |-> 0, pool |-> stack'[t][i]]
    <3>1. IF HeldBy(o) > 0 THEN heap[o] = Cell(HeldBy(o))
          ELSE \/ heap[o] = Unallocated
               \/ \E t \in Threads : \E i \in 1..Len(stack[t]) :
                    heap[o] = [live |-> TRUE, ref |-> 0, pool |-> stack[t][i]]
      BY DEF ObjectInv, CountedInv
    <3>2. HeldBy(o)' = HeldBy(o) /\ heap' = heap /\ stack' = stack
      BY <2>1
    <3> QED
      BY <3>1, <3>2, Zenon
  <2> QED
    BY <2>2 DEF CountedInv
<1>2. ChildInv'
  BY DEF ObjectInv, ChildInv
<1> QED
  BY <1>1, <1>2, PoolsKept DEF ObjectInv, ObjectTypeOK

\* A weak reference is registered, or given up.
LEMMA WeakRefKeeps ==
    ASSUME ObjectInv, NEW t \in Threads,
           \/ \E o \in Objects : belle_sip_object_weak_ref(t, o)
           \/ belle_sip_object_weak_unref(t)
    PROVE  ObjectInv'
<1>1. UNCHANGED <<heap, holds, child, stack, poolOf, store, freed, shared, dying>>
  BY DEF belle_sip_object_weak_ref, belle_sip_object_weak_unref
<1>2. PICK w \in Objects \cup {Nil} :
        watch' = [watch EXCEPT ![t] = w] /\ (w # Nil => heap[w].live)
  BY DEF belle_sip_object_weak_ref, belle_sip_object_weak_unref, MayUse
<1>3. watch \in [Threads -> Objects \cup {Nil}]
  BY DEF ObjectInv, ObjectTypeOK
<1>4. watch' \in [Threads -> Objects \cup {Nil}]
  BY <1>2, <1>3
<1>5. WeakNeverDangles'
  BY <1>1, <1>2, <1>3 DEF ObjectInv, WeakNeverDangles
<1>6. StoreInv' /\ store' \in [Objects -> [Names -> Data \cup {Nil}]] /\ freed' = [d \in Data |-> freed'[d]]
  BY <1>1 DEF ObjectInv, ObjectTypeOK, StoreInv
<1> QED
  BY <1>1, <1>4, <1>5, <1>6, SameObjects DEF ObjectInv, ObjectTypeOK

\* The entries of o in names are destroyed, or grabbed, and its data store becomes row; what is put into it is
\* in no store yet, or is shared from now on.
StorePut(o, row, names) ==
    /\ row \in [Names -> Data \cup {Nil}] /\ shared' \subseteq Data /\ shared \subseteq shared'
    /\ \A n \in Names : row[n] \notin shared' \cup {Nil} =>
         Fresh(row[n]) \/ (row[n] = store[o][n] /\ n \notin names)
    /\ \A m, n \in Names : row[m] \notin shared' \cup {Nil} /\ row[m] = row[n] => m = n
    /\ store' = [store EXCEPT ![o] = row] /\ freed' \in {freed, Freed({o} \X names)}

\* No store has a datum that is put into one.
LEMMA FreshNowhere ==
    ASSUME NEW d, Fresh(d)
    PROVE  /\ freed[d] = 0 /\ Places(d) = {}
           /\ \A o \in Objects, n \in Names : store[o][n] # d
<1>1. ASSUME NEW o \in Objects, NEW n \in Names, store[o][n] = d
      PROVE  FALSE
  <2>1. <<o, n>> \in Places(d)
    BY <1>1 DEF Places
  <2> QED
    BY <2>1 DEF Fresh
<1> QED
  BY <1>1 DEF Fresh

LEMMA OneStore ==
    ASSUME ObjectInv, UNCHANGED <<heap, holds, child, stack, poolOf, watch, dying>>,
           NEW o \in Objects, heap[o].live, NEW row, NEW names \in SUBSET Names,
           StorePut(o, row, names)
    PROVE  ObjectInv'
<1>0. /\ row \in [Names -> Data \cup {Nil}] /\ shared' \subseteq Data /\ shared \subseteq shared'
      /\ \A n \in Names : row[n] \notin shared' \cup {Nil} =>
           Fresh(row[n]) \/ (row[n] = store[o][n] /\ n \notin names)
      /\ \A m, n \in Names : row[m] \notin shared' \cup {Nil} /\ row[m] = row[n] => m = n
      /\ store' = [store EXCEPT ![o] = row] /\ freed' \in {freed, Freed({o} \X names)}
  BY DEF StorePut
<1>1. /\ store \in [Objects -> [Names -> Data \cup {Nil}]]
      /\ \A d \in Data \ shared : freed[d] \in {0, 1}
      /\ Nil \notin Data
  BY ObjectSystemAssumption DEF ObjectInv, ObjectTypeOK, StoreInv
<1>2. /\ \A x \in Objects, n \in Names : store[x][n] # Nil => heap[x].live
      /\ \A x \in Objects, n \in Names :
           store[x][n] \notin shared \cup {Nil} => freed[store[x][n]] = 0
      /\ \A x, y \in Objects, n, m \in Names :
           store[x][n] \notin shared \cup {Nil} /\ store[x][n] = store[y][m] => x = y /\ n = m
  BY DEF ObjectInv, StoreInv
<1>3. store' \in [Objects -> [Names -> Data \cup {Nil}]]
  BY <1>0, <1>1
<1>4. /\ freed' = [d \in Data |-> freed'[d]]
      /\ \A d \in Data \ shared' :
           /\ freed'[d] \in {0, 1}
           /\ Places(d) \cap ({o} \X names) = {} => freed'[d] = freed[d]
  BY <1>0, <1>1, FreedOnce DEF ObjectInv, ObjectTypeOK
<1>5. \A n \in Names :
        row[n] \notin shared' \cup {Nil} =>
          /\ row[n] \in Data /\ freed[row[n]] = 0 /\ Places(row[n]) \cap ({o} \X names) = {}
          /\ \A x \in Objects \ {o}, m \in Names : store[x][m] # row[n]
  <2>1. ASSUME NEW n \in Names, row[n] \notin shared' \cup {Nil}
        PROVE  /\ row[n] \in Data /\ freed[row[n]] = 0
               /\ Places(row[n]) \cap ({o} \X names) = {}
               /\ \A x \in Objects \ {o}, m \in Names : store[x][m] # row[n]
    <3>1. row[n] \in Data \ shared
      BY <1>0, <2>1
    <3>2. CASE Fresh(row[n])
      BY <1>0, <3>1, <3>2, FreshNowhere
    <3>3. CASE row[n] = store[o][n] /\ n \notin names
      BY <1>1, <1>2, <2>1, <3>1, <3>3 DEF Places
    <3> QED
      BY <1>0, <2>1, <3>2, <3>3
  <2> QED
    BY <2>1
<1>6. store'[o] = row /\ \A x \in Objects \ {o} : store'[x] = store[x]
  BY <1>0, <1>1
<1>7. ASSUME NEW x \in Objects, NEW n \in Names, store'[x][n] # Nil
      PROVE  heap'[x].live
  BY <1>2, <1>6, <1>7
<1>8. ASSUME NEW x \in Objects, NEW n \in Names, store'[x][n] \notin shared' \cup {Nil}
      PROVE  freed'[store'[x][n]] = 0
  <2>1. store'[x][n] \in Data \ shared'
    BY <1>3, <1>8
  <2>2. freed[store'[x][n]] = 0 /\ Places(store'[x][n]) \cap ({o} \X names) = {}
    <3>1. CASE x = o
      BY <1>5, <1>6, <1>8, <3>1
    <3>2. CASE x # o
      <4>1. store'[x][n] = store[x][n] /\ store[x][n] \notin shared \cup {Nil}
        BY <1>0, <1>6, <1>8, <3>2
      <4> QED
        BY <1>2, <3>2, <4>1 DEF Places
    <3> QED
      BY <3>1, <3>2
  <2> QED
    BY <1>4, <2>1, <2>2
<1>9. ASSUME NEW x \in Objects, NEW y \in Objects, NEW n \in Names, NEW m \in Names,
             store'[x][n] \notin shared' \cup {Nil}, store'[x][n] = store'[y][m]
      PROVE  x = y /\ n = m
  <2>1. CASE x = o /\ y = o
    BY <1>0, <1>6, <1>9, <2>1
  <2>2. CASE x # o /\ y # o
    BY <1>0, <1>2, <1>6, <1>9, <2>2
  <2>3. CASE x = o /\ y # o
    BY <1>5, <1>6, <1>9, <2>3
  <2>4. CASE x # o /\ y = o
    BY <1>5, <1>6, <1>9, <2>4
  <2> QED
    BY <2>1, <2>2, <2>3, <2>4
<1>10. StoreInv'
  BY <1>0, <1>4, <1>7, <1>8, <1>9 DEF StoreInv
<1>11. WeakNeverDangles' /\ watch' \in [Threads -> Objects \cup {Nil}]
  BY DEF ObjectInv, ObjectTypeOK, WeakNeverDangles
<1> QED
  BY <1>3, <1>4, <1>10, <1>11, SameObjects DEF ObjectInv, ObjectTypeOK

LEMMA StoreTyped ==
    ASSUME ObjectInv, NEW o \in Objects
    PROVE  /\ store \in [Objects -> [Names -> Data \cup {Nil}]]
           /\ store[o] \in [Names -> Data \cup {Nil}] /\ Nil \notin Data /\ shared \subseteq Data
           /\ \A n, m \in Names :
                store[o][n] \notin shared \cup {Nil} /\ store[o][n] = store[o][m] => n = m
BY ObjectSystemAssumption DEF ObjectInv, ObjectTypeOK, StoreInv

LEMMA DataSetKeeps ==
    ASSUME ObjectInv, NEW t \in Threads, NEW o \in Objects, NEW n \in Names, NEW d \in Data,
           belle_sip_object_data_set(t, o, n, d)
    PROVE  ObjectInv'
<1>1. /\ heap[o].live /\ Fresh(d) /\ store' = [store EXCEPT ![o][n] = d]
      /\ freed' = Freed({<<o, n>>}) /\ {<<o, n>>} = {o} \X {n}
      /\ UNCHANGED <<heap, holds, child, stack, poolOf, watch, shared, dying>>
  BY DEF belle_sip_object_data_set, data_set, MayUse
<1>2. PICK row : row = [store[o] EXCEPT ![n] = d]
  OBVIOUS
<1>3. row \in [Names -> Data \cup {Nil}] /\ row[n] = d /\ \A m \in Names \ {n} : row[m] = store[o][m]
  BY <1>2, StoreTyped
<1>4. store' = [store EXCEPT ![o] = row]
  BY <1>1, <1>2, StoreTyped
<1>5. \A m \in Names \ {n} : row[m] # d
  BY <1>1, <1>3, FreshNowhere
<1>6. \A m, k \in Names : row[m] \notin shared \cup {Nil} /\ row[m] = row[k] => m = k
  BY <1>3, <1>5, StoreTyped
<1>7. StorePut(o, row, {n})
  BY <1>1, <1>3, <1>4, <1>6, StoreTyped DEF StorePut
<1> QED
  BY <1>1, <1>7, OneStore

\* A datum is removed and destroyed, or grabbed by the caller.
LEMMA DataGoesKeeps ==
    ASSUME ObjectInv, NEW t \in Threads, NEW o \in Objects, NEW n \in Names,
           belle_sip_object_data_remove(t, o, n) \/ belle_sip_object_data_grab(t, o, n)
    PROVE  ObjectInv'
<1>1. /\ heap[o].live /\ store' = [store EXCEPT ![o][n] = Nil]
      /\ freed' = Freed({<<o, n>>}) \/ freed' = freed
      /\ UNCHANGED <<heap, holds, child, stack, poolOf, watch, shared, dying>>
  BY DEF belle_sip_object_data_remove, belle_sip_object_data_grab, MayUse
<1>2. PICK row : row = [store[o] EXCEPT ![n] = Nil]
  OBVIOUS
<1>3. row \in [Names -> Data \cup {Nil}] /\ row[n] = Nil /\ \A m \in Names \ {n} : row[m] = store[o][m]
  BY <1>2, StoreTyped
<1>4. store' = [store EXCEPT ![o] = row]
  BY <1>1, <1>2, StoreTyped
<1>5. \A m, k \in Names : row[m] \notin shared \cup {Nil} /\ row[m] = row[k] => m = k
  BY <1>3, StoreTyped
<1>6. {<<o, n>>} = {o} \X {n}
  OBVIOUS
<1>7. StorePut(o, row, {n})
  BY <1>1, <1>3, <1>4, <1>5, <1>6, StoreTyped DEF StorePut
<1> QED
  BY <1>1, <1>7, OneStore

\* What a merge puts into the store of dst.
MergedRow(o, dst, given, clear) ==
    [n \in Names |-> IF store[o][n] # Nil THEN given[n] ELSE IF clear THEN Nil ELSE store[dst][n]]

LEMMA MergeKeeps ==
    ASSUME ObjectInv, UNCHANGED <<heap, holds, child, stack, poolOf, watch, dying>>,
           NEW o \in Objects, NEW dst \in Objects, heap[dst].live,
           NEW given \in [Names -> Data \cup {Nil}], NEW clear \in BOOLEAN,
           Merge(o, dst, given, clear),
           shared' \subseteq Data, shared \subseteq shared',
           \A n \in Names : store[o][n] # Nil => given[n] \in shared' \/ Fresh(given[n]),
           \A m, n \in Names :
             store[o][m] # Nil /\ store[o][n] # Nil /\ given[m] \notin shared' /\ given[m] = given[n]
               => m = n
    PROVE  ObjectInv'
<1> DEFINE names == {n \in Names : store[o][n] # Nil}
           replaced == IF clear THEN Names ELSE names
<1>1. PICK row : row = MergedRow(o, dst, given, clear)
  OBVIOUS
<1>2. store' = [store EXCEPT ![dst] = row] /\ freed' = Freed({dst} \X replaced)
  <2>1. /\ freed' = Freed({dst} \X replaced)
        /\ store' = [store EXCEPT ![dst] =
                       [n \in Names |-> IF n \in names THEN given[n]
                                        ELSE IF clear THEN Nil ELSE store[dst][n]]]
    BY DEF Merge
  <2>2. row = [n \in Names |-> IF n \in names THEN given[n]
                               ELSE IF clear THEN Nil ELSE store[dst][n]]
    BY <1>1 DEF MergedRow
  <2> QED
    BY <2>1, <2>2
<1>3. replaced \subseteq Names
  OBVIOUS
<1>4. \A n \in Names : ~clear /\ store[o][n] = Nil => n \notin replaced
  OBVIOUS
<1> HIDE DEF names, replaced
<1>5. row \in [Names -> Data \cup {Nil}]
  BY <1>1, StoreTyped DEF MergedRow
<1>6. \A n \in Names : row[n] # Nil =>
        \/ store[o][n] # Nil /\ row[n] = given[n]
        \/ store[o][n] = Nil /\ ~clear /\ row[n] = store[dst][n]
  BY <1>1 DEF MergedRow
<1>7. \A n \in Names : row[n] \notin shared' \cup {Nil} =>
        Fresh(row[n]) \/ (row[n] = store[dst][n] /\ n \notin replaced)
  BY <1>4, <1>6
<1>8. \A n, m \in Names : Fresh(row[n]) => store[dst][m] # row[n]
  BY FreshNowhere
<1>9. ASSUME NEW m \in Names, NEW n \in Names, row[m] \notin shared' \cup {Nil}, row[m] = row[n]
      PROVE  m = n
  <2>1. CASE store[o][m] # Nil /\ store[o][n] # Nil
    BY <1>6, <1>9, <2>1
  <2>2. CASE store[o][m] = Nil /\ store[o][n] = Nil
    BY <1>6, <1>9, <2>2, StoreTyped
  <2>3. CASE store[o][m] # Nil /\ store[o][n] = Nil
    BY <1>6, <1>8, <1>9, <2>3
  <2>4. CASE store[o][m] = Nil /\ store[o][n] # Nil
    BY <1>6, <1>8, <1>9, <2>4
  <2> QED
    BY <2>1, <2>2, <2>3, <2>4
<1>10. StorePut(dst, row, replaced)
  BY <1>2, <1>5, <1>7, <1>9 DEF StorePut
<1> QED
  BY <1>3, <1>10, OneStore

LEMMA DataMergeKeeps ==
    ASSUME ObjectInv, NEW t \in Threads, NEW o \in Objects, NEW dst \in Objects,
           NEW fresh \in [Names -> Data], NEW clear \in BOOLEAN,
           belle_sip_object_data_merge(t, o, dst, fresh, clear)
    PROVE  ObjectInv'
<1>1. /\ heap[dst].live /\ Merge(o, dst, fresh, clear)
      /\ \A n \in Names : store[o][n] # Nil => Fresh(fresh[n])
      /\ \A m, n \in Names :
           store[o][m] # Nil /\ store[o][n] # Nil /\ fresh[m] = fresh[n] => m = n
      /\ UNCHANGED <<heap, holds, child, stack, poolOf, watch, shared, dying>>
  BY DEF belle_sip_object_data_merge, MayUse
<1>2. fresh \in [Names -> Data \cup {Nil}] /\ shared' \subseteq Data /\ shared \subseteq shared'
  BY <1>1, StoreTyped
<1> QED
  BY <1>1, <1>2, MergeKeeps

\* The data of o are then shared, and nothing is said of them any more.
LEMMA MergeWithoutCloneKeeps ==
    ASSUME ObjectInv, NEW t \in Threads, NEW o \in Objects, NEW dst \in Objects,
           NEW clear \in BOOLEAN, MergeWithoutClone(t, o, dst, clear)
    PROVE  ObjectInv'
<1>1. /\ heap[dst].live /\ Merge(o, dst, store[o], clear)
      /\ shared' = shared \cup ({store[o][n] : n \in Names} \ {Nil})
      /\ UNCHANGED <<heap, holds, child, stack, poolOf, watch, dying>>
  BY DEF MergeWithoutClone, MayUse
<1>2. store[o] \in [Names -> Data \cup {Nil}] /\ shared' \subseteq Data /\ shared \subseteq shared'
  BY <1>1, StoreTyped
<1>3. \A n \in Names : store[o][n] # Nil => store[o][n] \in shared'
  BY <1>1
<1> QED
  BY <1>1, <1>2, <1>3, MergeKeeps

-----------------------------------------------------------------------------
\* A pool is pushed on the stack of the thread.
LEMMA PoolPushKeeps ==
    ASSUME ObjectInv, NEW t \in Threads, NEW p \in Pools, belle_sip_object_pool_push(t, p)
    PROVE  ObjectInv'
<1>1. /\ poolOf[p] = Nil /\ poolOf' = [poolOf EXCEPT ![p] = t]
      /\ stack' = [stack EXCEPT ![t] = <<p>> \o @]
      /\ UNCHANGED <<heap, holds, child, watch, store, freed, shared, dying>>
  BY DEF belle_sip_object_pool_push
<1>2. /\ stack \in [Threads -> Seq(Pools)] /\ poolOf \in [Pools -> Threads \cup {Nil, NoThread}]
  BY DEF ObjectInv, ObjectTypeOK
<1>3. PICK n \in Nat : n = Len(stack[t])
  BY <1>2
<1>4. /\ stack'[t] \in Seq(Pools) /\ Len(stack'[t]) = n + 1 /\ stack'[t][1] = p
      /\ \A i \in 1..n : stack'[t][i + 1] = stack[t][i]
  <2>1. <<p>> \in Seq(Pools) /\ Len(<<p>>) = 1 /\ <<p>>[1] = p /\ stack[t] \in Seq(Pools)
    BY <1>2
  <2>2. PICK one : one = <<p>>
    OBVIOUS
  <2>3. stack'[t] = one \o stack[t]
    BY <1>1, <1>2, <2>2
  <2> QED
    BY <1>3, <2>1, <2>2, <2>3, ConcatProperties
<1>5. \A w \in Threads \ {t} : stack'[w] = stack[w]
  BY <1>1, <1>2
<1>6. stack' \in [Threads -> Seq(Pools)] /\ poolOf' \in [Pools -> Threads \cup {Nil, NoThread}]
  BY <1>1, <1>2, <1>4
<1>7. \A w \in Threads : \A i \in 1..Len(stack[w]) :
        stack[w][i] \in Pools /\ stack[w][i] # p /\ poolOf'[stack[w][i]] = w
  BY <1>1, <1>2, ObjectSystemAssumption, StackedPools DEF ObjectInv, PoolsInv
<1>8. \A i \in 1..(n + 1) : i = 1 \/ \E k \in 1..n : i = k + 1 /\ stack'[t][i] = stack[t][k]
  <2>1. \A i \in 1..(n + 1) : i = 1 \/ (i - 1 \in 1..n /\ i = (i - 1) + 1)
    BY <1>3
  <2> QED
    BY <1>4, <2>1
<1>9. PoolsInv'
  <2>1. ASSUME NEW w \in Threads
        PROVE  /\ \A i \in 1..Len(stack'[w]) : poolOf'[stack'[w][i]] = w
               /\ \A i, j \in 1..Len(stack'[w]) : stack'[w][i] = stack'[w][j] => i = j
    <3>1. CASE w = t
      <4>1. \A i \in 1..(n + 1) : poolOf'[stack'[t][i]] = t
        BY <1>1, <1>2, <1>3, <1>4, <1>7, <1>8
      <4>2. \A i, j \in 1..n : stack[t][i] = stack[t][j] => i = j
        BY <1>3 DEF ObjectInv, PoolsInv
      <4>3. \A i \in 1..n : stack[t][i] # p
        BY <1>3, <1>7
      <4>4. \A i, j \in 1..(n + 1) : stack'[t][i] = stack'[t][j] => i = j
        <5> SUFFICES ASSUME NEW i \in 1..(n + 1), NEW j \in 1..(n + 1),
                            stack'[t][i] = stack'[t][j]
                     PROVE  i = j
          OBVIOUS
        <5>1. CASE i = 1
          BY <1>4, <1>8, <4>3, <5>1
        <5>2. CASE j = 1
          BY <1>4, <1>8, <4>3, <5>2
        <5>3. CASE i # 1 /\ j # 1
          <6>1. PICK k \in 1..n : i = k + 1 /\ stack'[t][i] = stack[t][k]
            BY <1>8, <5>3
          <6>2. PICK l \in 1..n : j = l + 1 /\ stack'[t][j] = stack[t][l]
            BY <1>8, <5>3
          <6> QED
            BY <4>2, <6>1, <6>2
        <5> QED
          BY <5>1, <5>2, <5>3
      <4> QED
        BY <1>4, <3>1, <4>1, <4>4
    <3>2. CASE w # t
      BY <1>5, <1>7, <3>2 DEF ObjectInv, PoolsInv
    <3> QED
      BY <3>1, <3>2
  <2> QED
    BY <2>1 DEF PoolsInv
<1>10. \A o \in Objects : HeldBy(o)' = HeldBy(o)
  BY <1>1, OwnersSame DEF HeldBy
<1>11. CountedInv'
  <2>1. ASSUME NEW o \in Objects
        PROVE  IF HeldBy(o)' > 0 THEN heap'[o] = Cell(HeldBy(o)')
               ELSE \/ heap'[o] = Unallocated
                    \/ \E w \in Threads : \E i \in 1..Len(stack'[w]) :
                         heap'[o] = [live |-> TRUE, ref |-> 0, pool |-> stack'[w][i]]
    <3>1. IF HeldBy(o) > 0 THEN heap[o] = Cell(HeldBy(o))
          ELSE \/ heap[o] = Unallocated
               \/ \E w \in Threads : \E i \in 1..Len(stack[w]) :
                    heap[o] = [live |-> TRUE, ref |-> 0, pool |-> stack[w][i]]
      BY DEF ObjectInv, CountedInv
    <3>2. ASSUME NEW w \in Threads, NEW i \in 1..Len(stack[w])
          PROVE  \E k \in 1..Len(stack'[w]) : stack'[w][k] = stack[w][i]
      <4>1. CASE w = t
        <5>1. i \in 1..n /\ i + 1 \in 1..(n + 1)
          BY <1>3, <4>1
        <5> QED
          BY <1>4, <4>1, <5>1
      <4>2. CASE w # t
        BY <1>5, <4>2
      <4> QED
        BY <4>1, <4>2
    <3>3. HeldBy(o)' = HeldBy(o) /\ heap' = heap
      BY <1>1, <1>10
    <3>4. CASE HeldBy(o) > 0
      BY <3>1, <3>3, <3>4, Zenon
    <3>5. CASE ~(HeldBy(o) > 0) /\ heap[o] = Unallocated
      BY <3>3, <3>5, Zenon
    <3>6. CASE ~(HeldBy(o) > 0) /\ heap[o] # Unallocated
      <4>1. PICK w \in Threads :
              \E i \in 1..Len(stack[w]) :
                heap[o] = [live |-> TRUE, ref |-> 0, pool |-> stack[w][i]]
        BY <3>1, <3>6, Zenon
      <4>2. PICK i \in 1..Len(stack[w]) :
              heap[o] = [live |-> TRUE, ref |-> 0, pool |-> stack[w][i]]
        BY <4>1
      <4>3. PICK k \in 1..Len(stack'[w]) : stack'[w][k] = stack[w][i]
        BY <3>2
      <4>4. heap'[o] = [live |-> TRUE, ref |-> 0, pool |-> stack'[w][k]]
        BY <3>3, <4>2, <4>3, Zenon
      <4> QED
        BY <3>3, <3>6, <4>4, Zenon
    <3> QED
      BY <3>4, <3>5, <3>6, Zenon
  <2> QED
    BY <2>1 DEF CountedInv
<1>12. ChildInv' /\ heap' = [o \in Objects |-> heap'[o]]
       /\ child' \in [Objects -> Objects \cup {Nil}] /\ holds' \in [Objects -> Nat]
       /\ dying'.todo \in [Objects -> Nat]
  BY <1>1 DEF ObjectInv, ObjectTypeOK, ChildInv
<1>13. \A o \in Objects : heap[o].live => heap'[o].live
  BY <1>1
<1> QED
  BY <1>1, <1>6, <1>9, <1>11, <1>12, <1>13, LivesOn DEF ObjectInv, ObjectTypeOK

\* The pools left go from the stack of a thread, with the objects that are in them.
PoolsGo(t, left, h, list) ==
    /\ left \subseteq {stack[t][i] : i \in 1..Len(stack[t])}
    /\ h = [o \in Objects |-> IF heap[o].pool \in left THEN Unallocated ELSE heap[o]]
    /\ Delete(t, h, Gone(h), dying.todo)
    /\ list \in Seq(Pools)
    /\ {list[i] : i \in 1..Len(list)} = {stack[t][i] : i \in 1..Len(stack[t])} \ left
    /\ \A i, j \in 1..Len(list) : list[i] = list[j] => i = j
    /\ stack' = [stack EXCEPT ![t] = list]
    /\ poolOf' \in [Pools -> Threads \cup {Nil, NoThread}]
    /\ \A p \in Pools \ left : poolOf'[p] = poolOf[p]
    /\ UNCHANGED <<holds, shared>>

LEMMA PoolsGoKeeps ==
    ASSUME ObjectInv, NEW t \in Threads, NEW left, NEW h, NEW list, PoolsGo(t, left, h, list)
    PROVE  ObjectInv'
<1> DEFINE In(w) == {stack[w][i] : i \in 1..Len(stack[w])}
<1>1. /\ left \subseteq In(t)
      /\ h = [o \in Objects |-> IF heap[o].pool \in left THEN Unallocated ELSE heap[o]]
      /\ Delete(t, h, Gone(h), dying.todo)
      /\ list \in Seq(Pools) /\ {list[i] : i \in 1..Len(list)} = In(t) \ left
      /\ \A i, j \in 1..Len(list) : list[i] = list[j] => i = j
      /\ stack' = [stack EXCEPT ![t] = list]
      /\ poolOf' \in [Pools -> Threads \cup {Nil, NoThread}]
      /\ \A p \in Pools \ left : poolOf'[p] = poolOf[p]
      /\ holds' = holds /\ shared' = shared
  BY DEF PoolsGo
<1>2. /\ stack \in [Threads -> Seq(Pools)] /\ holds \in [Objects -> Nat]
      /\ dying.todo \in [Objects -> Nat]
  BY DEF ObjectInv, ObjectTypeOK
<1>3. AfterDelete(h, dying.todo)
  <2>1. PICK rest : rest = dying.todo
    OBVIOUS
  <2>2. rest \in [Objects -> Nat] /\ Delete(t, h, Gone(h), rest)
    BY <1>1, <1>2, <2>1
  <2>3. AfterDelete(h, rest)
    BY <1>1, <2>2, DeleteKeeps
  <2> QED
    BY <2>1, <2>3
<1>4. \A o \in Objects : HeldBy(o)' = HeldBy(o)
  <2>1. ASSUME NEW o \in Objects PROVE Owners(o)' = Owners(o)
    <3>1. Owners(o) = Cardinality(Parents(o)) + dying.todo[o]
      BY OwnersCounted
    <3>2. Owners(o)' = Cardinality(Parents(o)) + dying.todo[o]
      BY <1>3 DEF AfterDelete
    <3> QED
      BY <3>1, <3>2, Zenon
  <2> QED
    BY <1>1, <2>1 DEF HeldBy
<1>5. /\ stack'[t] = list /\ \A w \in Threads \ {t} : stack'[w] = stack[w]
      /\ stack' \in [Threads -> Seq(Pools)]
  BY <1>1, <1>2
<1>6. \A w \in Threads : \A p \in In(w) : p \in Pools /\ p # NoPool /\ poolOf[p] = w
  BY StackedPools DEF ObjectInv, PoolsInv
<1>7. \A w \in Threads \ {t} : \A p \in In(w) : p \notin left
  <2> HIDE DEF In
  <2> QED
    BY <1>1, <1>6
<1>8. PoolsInv'
  <2>1. ASSUME NEW w \in Threads
        PROVE  /\ \A i \in 1..Len(stack'[w]) : poolOf'[stack'[w][i]] = w
               /\ \A i, j \in 1..Len(stack'[w]) : stack'[w][i] = stack'[w][j] => i = j
    <3>1. CASE w = t
      <4>1. \A i \in 1..Len(list) : list[i] \in In(t) \ left
        BY <1>1
      <4> HIDE DEF In
      <4>2. \A i \in 1..Len(list) : poolOf'[list[i]] = t
        BY <1>1, <1>6, <4>1
      <4> QED
        BY <1>1, <1>5, <3>1, <4>2
    <3>2. CASE w # t
      <4>1. \A i \in 1..Len(stack[w]) : stack[w][i] \in In(w)
        OBVIOUS
      <4> HIDE DEF In
      <4>2. \A i \in 1..Len(stack[w]) : poolOf'[stack[w][i]] = w
        BY <1>1, <1>6, <1>7, <3>2, <4>1
      <4> QED
        BY <1>5, <3>2, <4>2 DEF ObjectInv, PoolsInv
    <3> QED
      BY <3>1, <3>2
  <2> QED
    BY <2>1 DEF PoolsInv
<1>9. heap' = [o \in Objects |-> heap'[o]] /\ heap' = h
  BY <1>1, <1>3 DEF AfterDelete
<1>10. CountedInv'
  <2>1. ASSUME NEW o \in Objects
        PROVE  IF HeldBy(o)' > 0 THEN heap'[o] = Cell(HeldBy(o)')
               ELSE \/ heap'[o] = Unallocated
                    \/ \E w \in Threads : \E i \in 1..Len(stack'[w]) :
                         heap'[o] = [live |-> TRUE, ref |-> 0, pool |-> stack'[w][i]]
    <3>1. heap'[o] = IF heap[o].pool \in left THEN Unallocated ELSE heap[o]
      BY <1>1, <1>9
    <3>2. HeldBy(o)' = HeldBy(o)
      BY <1>4
    <3>3. CASE HeldBy(o) > 0
      <4>1. heap[o] = Cell(HeldBy(o)) /\ heap[o].pool = NoPool
        BY <3>3, HeldIsLive
      <4>2. NoPool \notin left
        <5> HIDE DEF In
        <5> QED
          BY <1>1, <1>6
      <4>3. heap'[o] = Cell(HeldBy(o)')
        BY <3>1, <3>2, <4>1, <4>2, Zenon
      <4> QED
        BY <3>2, <3>3, <4>3, Zenon
    <3>4. CASE ~(HeldBy(o) > 0)
      <4>1. CASE heap'[o] = Unallocated
        BY <3>2, <3>4, <4>1
      <4>2. CASE heap'[o] # Unallocated
        <5>1. heap'[o] = heap[o] /\ heap[o].pool \notin left
          BY <3>1, <4>2
        <5>2. PICK w \in Threads : \E i \in 1..Len(stack[w]) :
                heap[o] = [live |-> TRUE, ref |-> 0, pool |-> stack[w][i]]
          BY <3>4, <4>2, <5>1 DEF ObjectInv, CountedInv
        <5>3. PICK p \in In(w) : heap[o] = [live |-> TRUE, ref |-> 0, pool |-> p]
          BY <5>2
        <5>4. p \notin left
          BY <5>1, <5>3
        <5>5. \E i \in 1..Len(stack'[w]) : stack'[w][i] = p
          <6>1. CASE w = t
            <7>1. p \in {list[i] : i \in 1..Len(list)}
              BY <1>1, <5>3, <5>4, <6>1
            <7> QED
              BY <1>5, <6>1, <7>1
          <6>2. CASE w # t
            BY <1>5, <5>3, <6>2
          <6> QED
            BY <6>1, <6>2
        <5> QED
          BY <3>2, <3>4, <5>1, <5>3, <5>5, Zenon
      <4> QED
        BY <4>1, <4>2
    <3> QED
      BY <3>3, <3>4
  <2> QED
    BY <2>1 DEF CountedInv
<1> QED
  BY <1>1, <1>2, <1>3, <1>5, <1>8, <1>9, <1>10 DEF AfterDelete, ObjectInv, ObjectTypeOK

\* The thread destroys one of its pools, or ends with pools left.
LEMMA PoolUnrefKeeps ==
    ASSUME ObjectInv, NEW t \in Threads, NEW p \in Pools, PoolUnref(t, p)
    PROVE  ObjectInv'
<1>1. PICK h : h = pool_destroy(p)
  OBVIOUS
<1>2. PICK i \in DOMAIN stack[t] :
        stack[t][i] = p /\ stack' = [stack EXCEPT ![t] = RemoveAt(@, i)]
  BY DEF PoolUnref
<1>3. /\ Delete(t, h, Gone(h), dying.todo) /\ UNCHANGED <<holds, shared>>
      /\ poolOf' = [poolOf EXCEPT ![p] = Nil]
  BY <1>1 DEF PoolUnref
<1>4. PICK list : list = RemoveAt(stack[t], i)
  OBVIOUS
<1>5. /\ stack[t] \in Seq(Pools) /\ DOMAIN stack[t] = 1..Len(stack[t]) /\ i \in 1..Len(stack[t])
      /\ \A j, k \in 1..Len(stack[t]) : stack[t][j] = stack[t][k] => j = k
  BY <1>2, StackedPools DEF ObjectInv, PoolsInv
<1>6. /\ list \in Seq(Pools) /\ DOMAIN list = 1..Len(list)
      /\ {list[j] : j \in DOMAIN list} = {stack[t][j] : j \in DOMAIN stack[t]} \ {p}
      /\ \A j, k \in 1..Len(list) : list[j] = list[k] => j = k
  <2>1. list \in Seq(Pools) /\ DOMAIN list = 1..Len(list)
    BY <1>4, <1>5, RemoveAtProperties
  <2>2. /\ {RemoveAt(stack[t], i)[j] : j \in DOMAIN RemoveAt(stack[t], i)}
             = {stack[t][j] : j \in DOMAIN stack[t]} \ {stack[t][i]}
        /\ \A j, k \in 1..Len(RemoveAt(stack[t], i)) :
             RemoveAt(stack[t], i)[j] = RemoveAt(stack[t], i)[k] => j = k
    BY <1>5, RemoveAtElements
  <2> QED
    BY <1>2, <1>4, <2>1, <2>2
<1>7. h = [o \in Objects |-> IF heap[o].pool \in {p} THEN Unallocated ELSE heap[o]]
  <2>1. DOMAIN heap = Objects
    BY DEF ObjectInv, ObjectTypeOK
  <2> QED
    BY <1>1, <2>1 DEF pool_destroy, belle_sip_object_pool_clean
<1>8. /\ poolOf' \in [Pools -> Threads \cup {Nil, NoThread}]
      /\ \A q \in Pools \ {p} : poolOf'[q] = poolOf[q]
  BY <1>3 DEF ObjectInv, ObjectTypeOK
<1>9. PoolsGo(t, {p}, h, list)
  <2>1. {p} \subseteq {stack[t][j] : j \in 1..Len(stack[t])}
    BY <1>2, <1>5
  <2>2. {list[j] : j \in 1..Len(list)} = {stack[t][j] : j \in 1..Len(stack[t])} \ {p}
    BY <1>5, <1>6
  <2>3. stack' = [stack EXCEPT ![t] = list]
    BY <1>2, <1>4
  <2> QED
    BY <1>3, <1>6, <1>7, <1>8, <2>1, <2>2, <2>3 DEF PoolsGo
<1> QED
  BY <1>9, PoolsGoKeeps

LEMMA ThreadExitKeeps ==
    ASSUME ObjectInv, NEW t \in Threads, ThreadExit(t)
    PROVE  ObjectInv'
<1>1. PICK left : left = {stack[t][i] : i \in DOMAIN stack[t]}
  OBVIOUS
<1>2. PICK h : h = [o \in Objects |-> IF heap[o].pool \in left THEN Unallocated ELSE heap[o]]
  OBVIOUS
<1>3. /\ Delete(t, h, Gone(h), dying.todo) /\ UNCHANGED <<holds, shared>>
      /\ stack' = [stack EXCEPT ![t] = <<>>]
      /\ poolOf' = [p \in Pools |-> IF p \in left THEN NoThread ELSE poolOf[p]]
  BY <1>1, <1>2 DEF ThreadExit
<1>4. left = {stack[t][i] : i \in 1..Len(stack[t])}
  BY <1>1, StackedPools
<1>5. poolOf \in [Pools -> Threads \cup {Nil, NoThread}]
  BY DEF ObjectInv, ObjectTypeOK
<1>6. PoolsGo(t, left, h, <<>>)
  <2>1. PICK list : list = <<>>
    OBVIOUS
  <2>2. /\ list \in Seq(Pools) /\ 1..Len(list) = {}
        /\ \A i, j \in 1..Len(list) : list[i] = list[j] => i = j
    BY <2>1
  <2>3. {list[i] : i \in 1..Len(list)} = {stack[t][i] : i \in 1..Len(stack[t])} \ left
    BY <1>4, <2>2
  <2>4. /\ poolOf' \in [Pools -> Threads \cup {Nil, NoThread}]
        /\ \A p \in Pools \ left : poolOf'[p] = poolOf[p]
    BY <1>3, <1>5
  <2>5. stack' = [stack EXCEPT ![t] = list]
    BY <1>3, <2>1
  <2>6. PoolsGo(t, left, h, list)
    BY <1>2, <1>3, <1>4, <2>2, <2>3, <2>4, <2>5 DEF PoolsGo
  <2> QED
    BY <2>1, <2>6
<1> QED
  BY <1>6, PoolsGoKeeps

\* Every step of the object system.
LEMMA ObjectStep ==
    ASSUME ObjectInv, ObjectsNext
    PROVE  ObjectInv'
<1>1. ASSUME NEW t \in Threads, NEW o \in Objects,
             \/ \E unowned \in BOOLEAN : New(t, o, unowned)
             \/ Ref(t, o) \/ Unref(t, o) \/ belle_sip_object_weak_ref(t, o)
             \/ \E c \in Objects : Own(t, o, c)
      PROVE  ObjectInv'
  BY <1>1, NewKeeps, RefKeeps, UnrefByThreadKeeps, WeakRefKeeps, OwnKeeps
<1>2. ASSUME NEW t \in Threads, NEW o \in Objects,
             \/ \E n \in Names, d \in Data : belle_sip_object_data_set(t, o, n, d)
             \/ \E n \in Names : belle_sip_object_data_remove(t, o, n)
             \/ \E n \in Names : belle_sip_object_data_grab(t, o, n)
             \/ \E dst \in Objects, fresh \in [Names -> Data], clear \in BOOLEAN :
                  belle_sip_object_data_merge(t, o, dst, fresh, clear)
             \/ \E dst \in Objects, clear \in BOOLEAN : MergeWithoutClone(t, o, dst, clear)
      PROVE  ObjectInv'
  BY <1>2, DataSetKeeps, DataGoesKeeps, DataMergeKeeps, MergeWithoutCloneKeeps
<1>3. ASSUME NEW t \in Threads,
             \/ belle_sip_object_weak_unref(t)
             \/ \E p \in Pools : belle_sip_object_pool_push(t, p) \/ PoolUnref(t, p)
             \/ ThreadExit(t)
      PROVE  ObjectInv'
  BY <1>3, WeakRefKeeps, PoolPushKeeps, PoolUnrefKeeps, ThreadExitKeeps
<1> QED
  BY <1>1, <1>2, <1>3, DestructorKeeps DEF ObjectsNext

\* In every behaviour, also those about the main loop, where no object is made.
LEMMA ObjectInvariant == Spec => []ObjectInv
<1>1. Init => ObjectInv
  <2> SUFFICES ASSUME Init PROVE ObjectInv
    OBVIOUS
  <2>1. /\ heap = [o \in Objects |-> Unallocated] /\ holds = [o \in Objects |-> 0]
        /\ child = [o \in Objects |-> Nil]
        /\ stack = [t \in Threads |-> <<>>] /\ poolOf = [p \in Pools |-> Nil]
        /\ watch = [t \in Threads |-> Nil]
        /\ store = [o \in Objects |-> NoDatum] /\ freed = [d \in Data |-> 0]
        /\ shared = {} /\ dying.todo = [o \in Objects |-> 0]
    BY DEF Init, ObjectsInit
  <2>2. store \in [Objects -> [Names -> Data \cup {Nil}]]
        /\ \A o \in Objects, n \in Names : store[o][n] = Nil
    BY <2>1 DEF NoDatum
  <2>3. stack \in [Threads -> Seq(Pools)] /\ \A t \in Threads : 1..Len(stack[t]) = {}
    <3>1. <<>> \in Seq(Pools) /\ 1..Len(<<>>) = {}
      OBVIOUS
    <3> QED
      BY <2>1, <3>1
  <2>4. ObjectTypeOK
    BY <2>1, <2>2, <2>3 DEF ObjectTypeOK
  <2>5. PoolsInv /\ ChildInv /\ StoreInv /\ WeakNeverDangles
    BY <2>1, <2>2, <2>3 DEF PoolsInv, ChildInv, StoreInv, WeakNeverDangles
  <2>6. CountedInv
    <3>1. ASSUME NEW o \in Objects PROVE heap[o] = Unallocated /\ ~(HeldBy(o) > 0)
      <4>1. {x \in Objects : child[x] = o} = {}
        BY <2>1, ObjectSystemAssumption
      <4>2. Cardinality({x \in Objects : child[x] = o}) = 0 /\ dying.todo[o] = 0
        BY <2>1, <4>1, FS_EmptySet
      <4>3. Owners(o) = 0 + 0
        BY <4>2, Zenon DEF Owners
      <4> QED
        BY <2>1, <4>3 DEF HeldBy
    <3> QED
      BY <3>1, Zenon DEF CountedInv
  <2> QED
    BY <2>4, <2>5, <2>6 DEF ObjectInv
<1>2. ObjectInv /\ [Next]_vars => ObjectInv'
  <2> SUFFICES ASSUME ObjectInv, [Next]_vars PROVE ObjectInv'
    OBVIOUS
  <2>1. CASE UNCHANGED objectVars
    <3>1. UNCHANGED <<heap, holds, child, stack, poolOf, watch, store, freed, shared, dying>>
      BY <2>1 DEF objectVars
    <3>2. \A o \in Objects : heap[o].live => heap'[o].live
      BY <3>1
    <3> QED
      BY <3>1, <3>2, SameObjects, LivesOn DEF ObjectInv, ObjectTypeOK
  <2>2. CASE ObjectsNext
    BY <2>2, ObjectStep
  <2> QED
    BY <2>1, <2>2 DEF Next, vars
<1> QED
  BY <1>1, <1>2, PTL DEF Spec

\* No object is leaked or freed early, whatever the order of ref(), unref(), setters, destructors,
\* pool destructions and thread ends, and a datum is destroyed once and not before it leaves its
\* store (belle_sip_object_unref(), belle_sip_object_pool_clean(), belle_sip_object_data_set()),
\* but for the data that a merge without clone function shared between two stores
\* (belle_sip_object_data_merge()): of these nothing is proved.
THEOREM ReclaimedHolds == Spec => []Reclaimed
<1>1. ObjectInv => Reclaimed
  <2> SUFFICES ASSUME ObjectInv PROVE ObjectsReclaimed /\ DataOnce
    BY DEF Reclaimed
  <2>1. ASSUME NEW o \in Objects
        PROVE  IF HeldBy(o) > 0 THEN heap[o] = [live |-> TRUE, ref |-> HeldBy(o), pool |-> NoPool]
               ELSE heap[o].live =>
                      /\ heap[o].ref = 0 /\ heap[o].pool # NoPool
                      /\ \E t \in Threads :
                           poolOf[heap[o].pool] = t /\ \E i \in DOMAIN stack[t] :
                                                         stack[t][i] = heap[o].pool
    <3>1. HeldBy(o) \in Nat
      BY OwnersCounted
    <3> HIDE DEF HeldBy
    <3>2. CASE HeldBy(o) > 0
      <4>1. heap[o] = Cell(HeldBy(o)) /\ HeldBy(o) # 0
        BY <3>1, <3>2, HeldIsLive
      <4> QED
        BY <3>2, <4>1, Zenon DEF Cell
    <3>3. CASE HeldBy(o) = 0
      <4>1. ASSUME heap[o].live
            PROVE  /\ heap[o].ref = 0 /\ heap[o].pool # NoPool
                   /\ \E t \in Threads :
                        poolOf[heap[o].pool] = t /\ \E i \in DOMAIN stack[t] :
                                                      stack[t][i] = heap[o].pool
        <5>1. PICK t \in Threads : \E i \in 1..Len(stack[t]) :
                heap[o] = [live |-> TRUE, ref |-> 0, pool |-> stack[t][i]]
          BY <3>3, <4>1, HeldIsLive
        <5>2. PICK i \in 1..Len(stack[t]) :
                heap[o] = [live |-> TRUE, ref |-> 0, pool |-> stack[t][i]]
          BY <5>1
        <5>3. heap[o].ref = 0 /\ heap[o].pool = stack[t][i]
          BY <5>2
        <5>4. stack[t][i] # NoPool /\ i \in DOMAIN stack[t] /\ poolOf[stack[t][i]] = t
          BY StackedPools DEF ObjectInv, PoolsInv
        <5> QED
          BY <5>3, <5>4
      <4> QED
        BY <3>3, <4>1
    <3> QED
      BY <3>1, <3>2, <3>3
  <2>2. ObjectsReclaimed
    BY <2>1, Zenon DEF ObjectsReclaimed, HeldBy
  <2>3. ASSUME NEW d \in Data \ shared
        PROVE  freed[d] + Cardinality(Places(d)) <= 1 /\ \A x \in Places(d) : heap[x[1]].live
    <3>1. freed[d] \in {0, 1} /\ d # Nil
      BY ObjectSystemAssumption DEF ObjectInv, StoreInv
    <3>2. \A x \in Places(d) : heap[x[1]].live /\ freed[d] = 0
      BY <3>1 DEF ObjectInv, StoreInv, Places
    <3>3. \A x, y \in Places(d) : x = y
      BY <3>1 DEF ObjectInv, StoreInv, Places
    <3>4. CASE Places(d) = {}
      BY <3>1, <3>2, <3>4, FS_EmptySet
    <3>5. CASE Places(d) # {}
      <4>1. PICK x : Places(d) = {x} /\ freed[d] = 0
        BY <3>2, <3>3, <3>5
      <4>2. Cardinality({x}) = 1
        BY FS_Singleton
      <4> QED
        BY <3>2, <4>1, <4>2
    <3> QED
      BY <3>4, <3>5
  <2>4. DataOnce
    BY <2>3, Zenon DEF DataOnce
  <2> QED
    BY <2>2, <2>4
<1> QED
  BY <1>1, ObjectInvariant, PTL

\* A pointer registered with belle_sip_object_weak_ref() never points to freed memory, also when a
\* pool, a destructor or the end of a thread deletes the object.
THEOREM WeakNeverDanglesHolds == Spec => []WeakNeverDangles
<1>1. ObjectInv => WeakNeverDangles
  BY DEF ObjectInv
<1> QED
  BY <1>1, ObjectInvariant, PTL
=============================================================================
