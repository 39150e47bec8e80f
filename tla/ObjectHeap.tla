------------------------------ MODULE ObjectHeap ------------------------------
(***************************************************************************)
(* Reference counts and object pools (belle_sip_object.c), as operators on *)
(* a heap h: a function from objects to records. An object that is not     *)
(* live is memory that was freed or not yet allocated. A floating object   *)
(* ("initially unowned") has no reference and, if its thread had a pool    *)
(* when it was created, is in that pool.                                   *)
(***************************************************************************)
EXTENDS Integers, Sequences

NoPool == "no pool"

Unallocated == [live |-> FALSE, ref |-> -1, pool |-> NoPool]

\* belle_sip_object_pool_get_current(): the pool pushed last, if any.
belle_sip_object_pool_get_current(stack) == IF stack = <<>> THEN NoPool ELSE Head(stack)

belle_sip_object_new(h, o, unowned, stack) ==
    [h EXCEPT ![o] = [live |-> TRUE, ref |-> IF unowned THEN 0 ELSE 1,
                      pool |-> IF unowned THEN belle_sip_object_pool_get_current(stack)
                                          ELSE NoPool]]

\* The first reference takes a floating object out of its pool.
belle_sip_object_ref(h, o) ==
    [h EXCEPT ![o].ref = @ + 1, ![o].pool = IF h[o].ref = 0 THEN NoPool ELSE @]

belle_sip_object_delete(h, o) == [h EXCEPT ![o] = Unallocated]

\* A floating object in a pool is deleted at once. One without a pool gets the count -1 and
\* is never deleted.
belle_sip_object_unref(h, o) ==
    IF (h[o].ref = 0 /\ h[o].pool # NoPool) \/ h[o].ref = 1
      THEN belle_sip_object_delete(h, o)
      ELSE [h EXCEPT ![o].ref = @ - 1]

\* belle_sip_object_pool_clean(): the floating objects of the pool are deleted.
belle_sip_object_pool_clean(h, pool) ==
    [o \in DOMAIN h |-> IF h[o].pool = pool THEN Unallocated ELSE h[o]]

\* Using an object that is not live, or unref() of one whose count is -1, is an error.
Usable(h, o) == h[o].live /\ h[o].ref >= 0

=============================================================================
