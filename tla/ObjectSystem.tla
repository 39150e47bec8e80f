---------------------------- MODULE ObjectSystem ----------------------------
(***************************************************************************)
(* The object system (belle_sip_object.c): reference counts, objects that  *)
(* own others, one stack of pools per thread for floating objects, weak    *)
(* references, and the data store of an object (the dictionary of          *)
(* belle_sip_dict.c is one whose data are strings). A deletion runs the    *)
(* destructors it triggers one by one, in any order: dying has the unref() *)
(* calls that the destructors of thread t have still to make.              *)
(***************************************************************************)
EXTENDS ObjectHeap, FiniteSets, SequencesExt

CONSTANTS
    Objects,   \* memory of objects
    Pools,     \* memory of pools
    Threads,
    Names,     \* keys of the data store
    Data,      \* the data put there, with a destroy function
    MaxRef,    \* bound on the references the application holds to one object
    MaxShared  \* bound on the data that merges without clone function share

Nil == "nil"
NoThread == "no thread"     \* thread_id 0 of a detached pool

ASSUME ObjectSystemAssumption ==
    /\ MaxRef \in Nat /\ MaxShared \in Nat /\ IsFiniteSet(Objects)
    /\ Nil \notin Objects \cup Data \cup Threads /\ NoThread \notin Threads \cup {Nil}
    /\ NoPool \notin Pools

VARIABLES
    heap,     \* the objects
    holds,    \* the references the application has to each of them
    child,    \* the object that each object owns
    stack,    \* the stack of pools of each thread
    poolOf,   \* thread_id of each pool that is allocated, or Nil
    watch,    \* the pointer that a weak reference keeps up to date, one per thread
    store,    \* the data stores
    freed,    \* how many times each datum was destroyed
    shared,   \* the data that a merge without clone function put in a second store
    dying     \* the thread, and how often its destructors still have to unref each object

objectVars == <<heap, holds, child, stack, poolOf, watch, store, freed, shared, dying>>

NoDatum == [n \in Names |-> Nil]

Calm == \A o \in Objects : dying.todo[o] = 0

\* The application may use an object it holds, or a floating one of its own thread.
MayUse(t, o) ==
    /\ Calm /\ heap[o].live
    /\ holds[o] > 0 \/ (heap[o].pool # NoPool /\ poolOf[heap[o].pool] = t)

(***************************************************************************)
(* Deletion. gone is the set of objects that a step deletes.               *)
(***************************************************************************)
\* The entries that have d.
Places(d) == {x \in Objects \X Names : store[x[1]][x[2]] = d}

\* Each of the entries calls its destroy function.
Freed(entries) == [d \in Data |-> freed[d] + Cardinality(Places(d) \cap entries)]

\* Mistake to detect: the weak references are not told.
loose_weak_refs_not(gone) == watch

\* belle_sip_object_loose_weak_refs(): the pointers to a deleted object become NULL.
loose_weak_refs(gone) == [t \in Threads |-> IF watch[t] \in gone THEN Nil ELSE watch[t]]

\* belle_sip_object_data_clear() of the deleted objects.
data_clear(gone) ==
    [st |-> [o \in Objects |-> IF o \in gone THEN NoDatum ELSE store[o]],
     fr |-> Freed(gone \X Names)]

\* What belle_sip_object_delete() does to gone; the objects they own are unref'd next.
Delete(t, h, gone, rest) ==
    LET x == data_clear(gone) IN
    /\ heap' = h
    /\ watch' = loose_weak_refs(gone)
    /\ store' = x.st /\ freed' = x.fr
    /\ child' = [o \in Objects |-> IF o \in gone THEN Nil ELSE child[o]]
    /\ dying' = [thread |-> t,
                 todo |-> [o \in Objects |->
                             rest[o] + Cardinality({g \in gone : child[g] = o})]]

Gone(h) == {o \in Objects : heap[o].live /\ ~h[o].live}

\* belle_sip_object_unref() called by thread t.
unref(t, o, rest) ==
    LET h == belle_sip_object_unref(heap, o) IN Delete(t, h, Gone(h), rest)

Destructor ==
    /\ \E o \in Objects :
         /\ dying.todo[o] > 0
         /\ unref(dying.thread, o, [dying.todo EXCEPT ![o] = @ - 1])
    /\ UNCHANGED <<holds, stack, poolOf, shared>>

(***************************************************************************)
(* Operations of the application, by thread t.                             *)
(***************************************************************************)
New(t, o, unowned) ==
    /\ Calm /\ ~heap[o].live
    /\ unowned => stack[t] # <<>>
    /\ heap' = belle_sip_object_new(heap, o, unowned, stack[t])
    /\ holds' = [holds EXCEPT ![o] = IF unowned THEN 0 ELSE 1]
    /\ UNCHANGED <<child, stack, poolOf, watch, store, freed, shared, dying>>

Ref(t, o) ==
    /\ MayUse(t, o) /\ holds[o] < MaxRef
    /\ heap' = belle_sip_object_ref(heap, o)
    /\ holds' = [holds EXCEPT ![o] = @ + 1]
    /\ UNCHANGED <<child, stack, poolOf, watch, store, freed, shared, dying>>

Unref(t, o) ==
    /\ MayUse(t, o) /\ (holds[o] > 0 \/ heap[o].ref = 0)
    /\ unref(t, o, dying.todo)
    /\ holds' = [holds EXCEPT ![o] = IF @ > 0 THEN @ - 1 ELSE 0]
    /\ UNCHANGED <<stack, poolOf, shared>>

\* A setter: o keeps a reference to c, and drops the one it had to another object
\* (the SET_OBJECT_PROPERTY pattern: ref the new one first).
Own(t, o, c) ==
    /\ MayUse(t, o) /\ MayUse(t, c) /\ o # c /\ child[c] = Nil
    /\ heap' = belle_sip_object_ref(heap, c)
    /\ dying' = IF child[o] = Nil THEN dying
                ELSE [thread |-> t, todo |-> [dying.todo EXCEPT ![child[o]] = 1]]
    /\ child' = [child EXCEPT ![o] = c]
    /\ UNCHANGED <<holds, stack, poolOf, watch, store, freed, shared>>

belle_sip_object_weak_ref(t, o) ==
    /\ MayUse(t, o) /\ watch[t] = Nil
    /\ watch' = [watch EXCEPT ![t] = o]
    /\ UNCHANGED <<heap, holds, child, stack, poolOf, store, freed, shared, dying>>

\* The watcher needs no reference: its pointer tells it that the object exists.
belle_sip_object_weak_unref(t) ==
    /\ Calm /\ watch[t] # Nil
    /\ watch' = [watch EXCEPT ![t] = Nil]
    /\ UNCHANGED <<heap, holds, child, stack, poolOf, store, freed, shared, dying>>

(***************************************************************************)
(* The data store.                                                         *)
(***************************************************************************)
\* A datum that was never stored, or that the application grabbed.
Fresh(d) == freed[d] = 0 /\ Places(d) = {}

data_set(n, o, d) ==
    /\ store' = [store EXCEPT ![o][n] = d]
    /\ freed' = Freed({<<o, n>>})

belle_sip_object_data_set(t, o, n, d) ==
    /\ MayUse(t, o) /\ Fresh(d)
    /\ data_set(n, o, d)
    /\ UNCHANGED <<heap, holds, child, stack, poolOf, watch, shared, dying>>

belle_sip_object_data_remove(t, o, n) ==
    /\ MayUse(t, o) /\ store[o][n] # Nil
    /\ store' = [store EXCEPT ![o][n] = Nil]
    /\ freed' = Freed({<<o, n>>})
    /\ UNCHANGED <<heap, holds, child, stack, poolOf, watch, shared, dying>>

\* The datum belongs to the caller again.
belle_sip_object_data_grab(t, o, n) ==
    /\ MayUse(t, o) /\ store[o][n] # Nil
    /\ store' = [store EXCEPT ![o][n] = Nil]
    /\ UNCHANGED <<heap, holds, child, stack, poolOf, watch, freed, shared, dying>>

\* For each name n in the store of o, given[n] replaces what dst has under n; data_clone clears
\* dst first.
Merge(o, dst, given, clear) ==
    LET names == {n \in Names : store[o][n] # Nil} IN
    /\ names # {} /\ o # dst
    /\ store' = [store EXCEPT ![dst] =
                   [n \in Names |-> IF n \in names THEN given[n]
                                    ELSE IF clear THEN Nil ELSE store[dst][n]]]
    /\ freed' = Freed({dst} \X (IF clear THEN Names ELSE names))

\* With a clone function: fresh[n] is the copy of the datum under n.
belle_sip_object_data_merge(t, o, dst, fresh, clear) ==
    /\ MayUse(t, o) /\ MayUse(t, dst)
    /\ \A n \in Names : store[o][n] # Nil => Fresh(fresh[n])
    /\ \A m, n \in Names :
         store[o][m] # Nil /\ store[o][n] # Nil /\ fresh[m] = fresh[n] => m = n
    /\ Merge(o, dst, fresh, clear)
    /\ UNCHANGED <<heap, holds, child, stack, poolOf, watch, shared, dying>>

\* Without: the data themselves go to dst, their destroy function with them. A datum that was
\* destroyed already is not merged: what the program then does is undefined.
MergeWithoutClone(t, o, dst, clear) ==
    LET data == {store[o][n] : n \in Names} \ {Nil} IN
    /\ MayUse(t, o) /\ MayUse(t, dst)
    /\ \A d \in data : freed[d] = 0
    /\ Merge(o, dst, store[o], clear)
    /\ shared' = shared \cup data /\ Cardinality(shared') <= MaxShared
    /\ UNCHANGED <<heap, holds, child, stack, poolOf, watch, dying>>

(***************************************************************************)
(* Pools.                                                                  *)
(***************************************************************************)
belle_sip_object_pool_push(t, p) ==
    /\ Calm /\ poolOf[p] = Nil
    /\ poolOf' = [poolOf EXCEPT ![p] = t]
    /\ stack' = [stack EXCEPT ![t] = <<p>> \o @]
    /\ UNCHANGED <<heap, holds, child, watch, store, freed, shared, dying>>

\* Mistake to detect: a pool that is destroyed is not cleaned.
pool_destroy_unclean(p) == heap

pool_destroy(p) == belle_sip_object_pool_clean(heap, p)

\* unref() of a pool by its thread; the pool need not be the last one pushed.
PoolUnref(t, p) ==
    /\ Calm /\ poolOf[p] = t
    /\ LET h == pool_destroy(p) IN Delete(t, h, Gone(h), dying.todo)
    /\ \E i \in DOMAIN stack[t] :
         stack[t][i] = p /\ stack' = [stack EXCEPT ![t] = RemoveAt(@, i)]
    /\ poolOf' = [poolOf EXCEPT ![p] = Nil]
    /\ UNCHANGED <<holds, shared>>

\* The thread ends with pools left: cleanup_pool_stack() cleans and detaches them. They are
\* never freed; a new thread may have the same identity.
ThreadExit(t) ==
    LET left == {stack[t][i] : i \in DOMAIN stack[t]}
        h == [o \in Objects |-> IF heap[o].pool \in left THEN Unallocated ELSE heap[o]] IN
    /\ Calm /\ left # {}
    /\ Delete(t, h, Gone(h), dying.todo)
    /\ stack' = [stack EXCEPT ![t] = <<>>]
    /\ poolOf' = [p \in Pools |-> IF p \in left THEN NoThread ELSE poolOf[p]]
    /\ UNCHANGED <<holds, shared>>

ObjectsInit ==
    /\ heap = [o \in Objects |-> Unallocated] /\ holds = [o \in Objects |-> 0]
    /\ child = [o \in Objects |-> Nil]
    /\ stack = [t \in Threads |-> <<>>] /\ poolOf = [p \in Pools |-> Nil]
    /\ watch = [t \in Threads |-> Nil]
    /\ store = [o \in Objects |-> NoDatum] /\ freed = [d \in Data |-> 0] /\ shared = {}
    /\ dying = [thread |-> CHOOSE t \in Threads : TRUE, todo |-> [o \in Objects |-> 0]]

ObjectsNext ==
    \/ Destructor
    \/ \E t \in Threads :
         \/ \E o \in Objects :
              \/ \E unowned \in BOOLEAN : New(t, o, unowned)
              \/ Ref(t, o) \/ Unref(t, o) \/ belle_sip_object_weak_ref(t, o)
              \/ \E c \in Objects : Own(t, o, c)
              \/ \E n \in Names, d \in Data : belle_sip_object_data_set(t, o, n, d)
              \/ \E n \in Names : belle_sip_object_data_remove(t, o, n)
              \/ \E n \in Names : belle_sip_object_data_grab(t, o, n)
              \/ \E dst \in Objects, fresh \in [Names -> Data], clear \in BOOLEAN :
                   belle_sip_object_data_merge(t, o, dst, fresh, clear)
              \/ \E dst \in Objects, clear \in BOOLEAN : MergeWithoutClone(t, o, dst, clear)
         \/ belle_sip_object_weak_unref(t)
         \/ \E p \in Pools : belle_sip_object_pool_push(t, p) \/ PoolUnref(t, p)
         \/ ThreadExit(t)

(***************************************************************************)
(* Properties.                                                             *)
(***************************************************************************)
Owners(o) == Cardinality({x \in Objects : child[x] = o}) + dying.todo[o]

\* No object is leaked or freed early, whatever the order of ref(), unref(), setters,
\* destructors, pool destructions and thread ends: an object exists exactly as long as
\* somebody holds it or a pool has it, and its pool is one in the stack of its thread.
ObjectsReclaimed ==
    \A o \in Objects :
        LET n == holds[o] + Owners(o)
            p == heap[o].pool IN
        IF n > 0 THEN heap[o] = [live |-> TRUE, ref |-> n, pool |-> NoPool]
        ELSE heap[o].live =>
               /\ heap[o].ref = 0 /\ p # NoPool
               /\ \E t \in Threads : poolOf[p] = t /\ \E i \in DOMAIN stack[t] : stack[t][i] = p

\* A datum is destroyed once and not earlier than it leaves its store, be it replaced, merged
\* over, cleared or deleted with its object; it is in one store only. Excepted are the data that
\* a merge without clone function shared: both stores then destroy them
\* (belle_sip_object.c 389-390).
DataOnce ==
    \A d \in Data \ shared :
        /\ freed[d] + Cardinality(Places(d)) <= 1
        /\ \A x \in Places(d) : heap[x[1]].live

\* Objects are reclaimed, and the data in their stores that no merge without clone function
\* shared, each once and none too early.
Reclaimed == ObjectsReclaimed /\ DataOnce

\* A pointer registered with belle_sip_object_weak_ref() never points to freed memory: it is
\* NULL as soon as the object is deleted, also when a pool or a destructor deletes it.
WeakNeverDangles == \A t \in Threads : watch[t] # Nil => heap[watch[t]].live
=============================================================================
