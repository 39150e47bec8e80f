------------------------------ MODULE Resolver ------------------------------
(***************************************************************************)
(* Name resolution for a channel (belle_sip_resolver.c). An SRV query, an  *)
(* A query and an AAAA query are simple contexts, sources of the main      *)
(* loop; a dual context joins an A and an AAAA query of one host; the      *)
(* combined context asks for SRV records, then for the addresses of each   *)
(* target, or of the name itself when there is no record. A query can be   *)
(* answered before the function that starts it returns: callbacks then run *)
(* inside one another, up to the channel's, and contexts are destroyed     *)
(* under the feet of their callers unless a reference is held.             *)
(* A node is <<kind, host>>; the host of the name itself is "peer".        *)
(***************************************************************************)
EXTENDS SrvSelection, ObjectHeap

CONSTANTS
    SrvAnswers,     \* SRV answers: sequences of records' names
    Sendings,       \* what can happen when the addresses of a host are asked
    Ticks           \* 1 s timeouts of a query's source until the DNS timeout (1 if delayed)

Peer == "peer"
Hosts == DOMAIN Records \union {Peer}
Srv == <<"srv", Peer>>
Combined == <<"combined", Peer>>
Channel == <<"channel", Peer>>
A(t) == <<"a", t>>
AAAA(t) == <<"aaaa", t>>
Dual(t) == <<"dual", t>>
Rec(t) == <<"rec", t>>
Queries == {Srv} \union {A(t) : t \in Hosts} \union {AAAA(t) : t \in Hosts}
Nodes == Queries \union {Combined} \union {Dual(t) : t \in Hosts}
                 \union {Rec(t) : t \in DOMAIN Records}

VARIABLES
    setting,    \* [srv, dual, delayed]: SRV lookups, AF_UNSPEC or AF_INET6, tx delay
    phase,      \* the channel: "idle", "resolving", "destroyed"
    mem         \* what the contexts hold, see ResolverInit

resolverVars == <<setting, phase, mem>>

ResolverInit ==
    /\ setting \in [srv : BOOLEAN, dual : BOOLEAN, delayed : BOOLEAN]
    /\ phase = "idle"
    /\ mem = [heap |-> [n \in Nodes |-> Unallocated],
              ptr |-> {},           \* <<holder, held>>: a pointer field that is not NULL
              loop |-> {},          \* queries that are sources of the main loop
              unsent |-> {},        \* those whose source has the function that sends (tx delay)
              ticks |-> [q \in Queries |-> 0],
              done |-> {},          \* base.done, a_done, aaaa_done
              got |-> [n \in Nodes |-> <<>>],  \* ai_list, a_results, aaaa_results
              list |-> <<>>,        \* combined.srv_results
              lost |-> {},          \* ghost: delayed queries that could not be sent
              twice |-> {},         \* ghost: queries sent again after their answer
              told |-> <<>>,        \* ghost: what channel_res_done() was called with
              misused |-> {}]       \* ghost: freed objects that were used
-----------------------------------------------------------------------------
\* References. Using an object that was freed is recorded.
New(s, n) == [s EXCEPT !.heap = belle_sip_object_new(@, n, TRUE, <<"pool">>)]

Used(s, n) == [s EXCEPT !.misused = IF Usable(s.heap, n) THEN @ ELSE @ \union {n}]

Ref(s, n) == [Used(s, n) EXCEPT !.heap = belle_sip_object_ref(@, n)]

Held(s, n) == {p \in s.ptr : p[1] = n}

RECURSIVE Unref(_, _), belle_sip_resolver_context_cancel(_, _)

\* The fields of n are released, or cancelled, and are NULL then.
RECURSIVE UnrefFields(_, _), CancelFields(_, _)
UnrefFields(s, n) ==
    IF Held(s, n) = {} THEN s
    ELSE LET p == CHOOSE p \in Held(s, n) : TRUE
         IN  UnrefFields([Unref(s, p[2]) EXCEPT !.ptr = @ \ {p}], n)
CancelFields(s, n) ==
    IF Held(s, n) = {} THEN s
    ELSE LET p == CHOOSE p \in Held(s, n) : TRUE
         IN  CancelFields([belle_sip_resolver_context_cancel(s, p[2]) EXCEPT !.ptr = @ \ {p}], n)

belle_sip_simple_resolver_context_destroy(s, n) == s
belle_sip_dual_resolver_context_destroy(s, n) == UnrefFields(s, n)
belle_sip_combined_resolver_context_destroy(s, n) == UnrefFields(s, n)
belle_sip_dns_srv_destroy(s, n) == CancelFields(s, n)

Destroy(s, n) ==
    CASE n[1] = "dual" -> belle_sip_dual_resolver_context_destroy(s, n)
      [] n[1] = "combined" -> belle_sip_combined_resolver_context_destroy(s, n)
      [] n[1] = "rec" -> belle_sip_dns_srv_destroy(s, n)
      [] OTHER -> belle_sip_simple_resolver_context_destroy(s, n)

\* The destructor runs when the count reaches 0.
Unref(s, n) ==
    IF s.heap[n].live /\ ~ belle_sip_object_unref(s.heap, n)[n].live
      THEN [Destroy(Used(s, n), n) EXCEPT !.heap = belle_sip_object_delete(@, n)]
      ELSE [Used(s, n) EXCEPT !.heap = belle_sip_object_unref(@, n)]

UnrefAll(s, list) == FoldLeft(LAMBDA u, t : Unref(u, Rec(t)), s, list)

\* srv_results, with its references.
FreeList(s) == [UnrefAll(s, s.list) EXCEPT !.list = <<>>]

\* A source that is in no main loop is left alone.
belle_sip_main_loop_remove_source(s, q) ==
    IF q \in s.loop THEN Unref([s EXCEPT !.loop = @ \ {q}], q) ELSE s

\* Mistake to detect: a query that is cancelled stays in the main loop.
simple_resolver_cancel_KeepsSource(s, q) == Unref(s, q)

simple_resolver_cancel(s, q) == Unref(belle_sip_main_loop_remove_source(s, q), q)

dual_resolver_cancel(s, n) == Unref(CancelFields(s, n), n)

combined_resolver_cancel(s, n) ==
    Unref(FreeList(CancelFields(s, n)), n)

belle_sip_resolver_context_cancel(s, n) ==
    CASE n[1] = "combined" -> combined_resolver_cancel(s, n)
      [] n[1] = "dual" -> dual_resolver_cancel(s, n)
      [] OTHER -> simple_resolver_cancel(s, n)
-----------------------------------------------------------------------------
\* Callbacks, innermost last.
channel_res_done(s, results) ==
    [UnrefFields(s, Channel) EXCEPT !.told = Append(@, results)]

combined_notify_results(s, results) ==
    LET finished == [s EXCEPT !.done = @ \union {Combined}]
    IN  combined_resolver_cancel(channel_res_done(finished, results), Combined)

process_a_fallback_result(s, results) == combined_notify_results(s, results)

combined_resolver_context_check_finished(s) ==
    IF \A i \in DOMAIN s.list : Rec(s.list[i]) \in s.done
      THEN combined_notify_results(
             FreeList(s), FlattenSeq([i \in DOMAIN s.list |-> s.got[Rec(s.list[i])]]))
      ELSE s

process_a_from_srv(s, t, results) ==
    combined_resolver_context_check_finished(
        [s EXCEPT !.got[Rec(t)] = results, !.done = @ \union {Rec(t)}])

\* The callback given to belle_sip_stack_resolve_a().
AddressesOf(s, t, results) ==
    IF t # Peer THEN process_a_from_srv(s, t, results)
    ELSE IF setting.srv THEN process_a_fallback_result(s, results)
    ELSE channel_res_done(s, results)

\* Mistake to detect: the reference of the procedure is kept when it is finished.
notify_dual_results_Kept(s, t) ==
    IF {A(t), AAAA(t)} \subseteq s.done
      THEN AddressesOf([s EXCEPT !.done = @ \union {Dual(t)}], t, s.got[AAAA(t)] \o s.got[A(t)])
      ELSE s

notify_dual_results(s, t) ==
    IF {A(t), AAAA(t)} \subseteq s.done
      THEN Unref(AddressesOf([s EXCEPT !.done = @ \union {Dual(t)}], t,
                                 s.got[AAAA(t)] \o s.got[A(t)]), Dual(t))
      ELSE s

\* notify_results() of an A or AAAA query, with on_ipv4_results() and on_ipv6_results().
notify_results(s, q, results) ==
    LET t == q[2]
        u == [s EXCEPT !.done = @ \union {q}, !.got[q] = results]
    IN  IF setting.dual THEN notify_dual_results(u, t) ELSE AddressesOf(u, t, results)
-----------------------------------------------------------------------------
\* Queries. how is "refused" (dns_res_open() or dns_res_submit() fails), "known" (answered at
\* once, from the hosts file) or "asked". A delayed query that is not refused when it is opened
\* is "asked" here, and is sent later.
InLoop(s, q) == [Ref(s, q) EXCEPT !.loop = @ \union {q}]

\* resolver_start_query() and its caller storing the context in a field of holder, with a
\* reference. A query that is done already is not stored.
belle_sip_stack_resolve_single(s, q, how, holder) ==
    LET new == New(s, q) IN
    IF setting.delayed /\ how = "asked"
      THEN [Ref(InLoop(new, q), q) EXCEPT !.ptr = @ \union {<<holder, q>>},
                                          !.unsent = @ \union {q}]
    ELSE IF how = "asked"
      THEN [Ref(InLoop(new, q), q) EXCEPT !.ptr = @ \union {<<holder, q>>}]
    ELSE Unref(notify_results(new, q, IF how = "known" THEN <<q>> ELSE <<>>), q)

\* A procedure of several queries was started: if it is not finished yet its context is
\* stored in a field of holder, with a reference.
Returned(s, n, holder) ==
    IF n \in s.done THEN Unref(s, n)
    ELSE [Ref(Unref(s, n), n) EXCEPT !.ptr = @ \union {<<holder, n>>}]

\* how is [a, aaaa].
belle_sip_stack_resolve_dual(s, t, how, holder) ==
    LET new == Ref(Ref(New(s, Dual(t)), Dual(t)), Dual(t))
        both == FoldLeft(LAMBDA u, k : belle_sip_stack_resolve_single(u, <<k, t>>, how[k], Dual(t)),
                         new, <<"a", "aaaa">>)
    IN  Returned(both, Dual(t), holder)

\* An address needs no query.
belle_sip_stack_resolve_a(s, t, how, holder) ==
    IF how.literal THEN AddressesOf(s, t, <<A(t)>>)
    ELSE IF setting.dual THEN belle_sip_stack_resolve_dual(s, t, how, holder)
    ELSE belle_sip_stack_resolve_single(s, A(t), how.a, holder)

\* The reference keeps the record until the context returned is stored in it.
srv_resolve_a(s, t, how) ==
    Unref(belle_sip_stack_resolve_a(Ref(s, Rec(t)), t, how, Rec(t)), Rec(t))

\* records is a list of records with one reference each, which end in srv_results; the
\* list that is walked has a reference of its own on each.
process_srv_results(s, records, how) ==
    LET ctx == Ref(s, Combined)
        listed == FoldLeft(LAMBDA u, t : Ref(u, Rec(t)), [ctx EXCEPT !.list = records], records)
        walked == FoldLeft(LAMBDA u, t : srv_resolve_a(u, t, how[t]), listed, records)
    IN  Unref(
          IF records # <<>> THEN UnrefAll(walked, records)
          ELSE belle_sip_stack_resolve_a(ctx, Peer, how[Peer], Combined), Combined)

\* notify_results() of the SRV query: the records of the answer, made and ordered.
NewRecords(s, records) ==
    FoldLeft(LAMBDA u, t : Ref(New(u, Rec(t)), Rec(t)), s, records)

notify_srv_results(s, records, how) ==
    process_srv_results([NewRecords(s, records) EXCEPT !.done = @ \union {Srv}], records, how)
-----------------------------------------------------------------------------
\* What the channel does. That a delayed query is known is seen when it is sent.
HowAsked(hosts) ==
    [hosts -> {how \in Sendings : setting.delayed => "known" \notin {how.a, how.aaaa}}]

\* The addresses of the name itself are asked after the SRV query only if it is no address.
HowFallback == {how \in HowAsked({Peer}) : ~ how[Peer].literal}

\* belle_sip_stack_resolve(): the procedure has a reference until it is finished. An SRV
\* query is not answered from the hosts file; an address needs none.
belle_sip_stack_resolve(s, sent, how) ==
    LET new == Ref(Ref(New(s, Combined), Combined), Combined)
        asked == [Ref(InLoop(New(new, Srv), Srv), Srv)
                    EXCEPT !.ptr = @ \union {<<Combined, Srv>>},
                           !.unsent = IF setting.delayed THEN {Srv} ELSE {}]
        failed == Unref(notify_srv_results(New(new, Srv), <<>>, how), Srv)
    IN  IF how[Peer].literal THEN channel_res_done(s, <<A(Peer)>>)
        ELSE Returned(IF sent THEN asked ELSE failed, Combined, Channel)

Resolving(how) ==
    /\ phase = "idle" /\ phase' = "resolving"
    /\ UNCHANGED setting

belle_sip_channel_resolve_srv(how) ==
    /\ Resolving(how) /\ setting.srv
    /\ \E sent \in BOOLEAN : mem' = belle_sip_stack_resolve(mem, sent, how)

belle_sip_channel_resolve_a(how) ==
    /\ Resolving(how) /\ ~ setting.srv
    /\ mem' = belle_sip_stack_resolve_a(mem, Peer, how[Peer], Channel)

\* belle_sip_channel_destroy() of a channel whose name is being resolved.
belle_sip_channel_destroy ==
    /\ phase = "resolving" /\ phase' = "destroyed"
    /\ mem' = CancelFields(mem, Channel)
    /\ UNCHANGED setting
-----------------------------------------------------------------------------
\* The main loop keeps the source during its callback, and removes it when that returns
\* BELLE_SIP_STOP.
Stopped(s, q) == Unref(belle_sip_main_loop_remove_source(s, q), q)

\* A delayed query is sent from the main loop. It is refused: the source stops and nobody is
\* notified. Or it leaves, and waits for its answer with the function of other queries.
Refused(q) == [Stopped(Ref(mem, q), q) EXCEPT !.lost = @ \union {q}]
Leaves(q) == [mem EXCEPT !.unsent = @ \ {q}]

\* Or it has its results at once, from the hosts file, or none as of an error: the function that
\* sends continues, and stays that of the source.
FailedSrv(how) == Unref(notify_srv_results(Ref(mem, Srv), <<>>, how), Srv)
Known(q, results) == Unref(notify_results(Ref(mem, q), q, results), q)

\* Bound: one query that has its results is sent again, and the SRV query not at all.
resolver_process_data_delayed(q) ==
    /\ q \in mem.loop \cap mem.unsent
    /\ q \in mem.done => q # Srv /\ mem.twice = {}
    /\ \E next \in {Refused(q), Leaves(q)} \union
                    (IF q = Srv THEN {FailedSrv(how) : how \in HowFallback}
                     ELSE {Known(q, results) : results \in {<<q>>, <<>>}}) :
         mem' = [next EXCEPT !.twice = IF q \in mem.done THEN @ \union {q} ELSE @]
    /\ UNCHANGED <<setting, phase>>

Waiting(q) == q \in mem.loop \ mem.unsent

\* The query is over: an answer, an error, or no answer in time (records and results empty).
AnsweredSrv(s, records, how) ==
    Stopped(notify_srv_results(Ref(s, Srv), records, how), Srv)
Answered(s, q, results) == Stopped(notify_results(Ref(s, q), q, results), q)

\* The answer has arrived: for an SRV query the list in one of the orders selection gives.
resolver_process_data_READ_srv ==
    /\ Waiting(Srv)
    /\ \E answer \in SrvAnswers : \E records \in Selections(answer) :
         \E how \in IF records = <<>> THEN HowFallback ELSE HowAsked(ToSet(records)) :
           mem' = AnsweredSrv(mem, records, how)
    /\ UNCHANGED <<setting, phase>>

resolver_process_data_READ(q) ==
    /\ Waiting(q) /\ q # Srv
    /\ \E results \in {<<q>>, <<>>} : mem' = Answered(mem, q, results)
    /\ UNCHANGED <<setting, phase>>

LastTick(q) == setting.delayed \/ mem.ticks[q] + 1 >= Ticks

\* The source's 1 s timeout: the query is sent again, until the DNS timeout.
resolver_process_data_again(q) ==
    /\ Waiting(q) /\ ~ LastTick(q)
    /\ mem' = [mem EXCEPT !.ticks[q] = @ + 1]
    /\ UNCHANGED <<setting, phase>>

Expired(q) == Waiting(q) /\ LastTick(q)

resolver_process_data_TIMEOUT_srv ==
    /\ Expired(Srv)
    /\ \E how \in HowFallback : mem' = AnsweredSrv(mem, <<>>, how)
    /\ UNCHANGED <<setting, phase>>

resolver_process_data_TIMEOUT(q) ==
    /\ Expired(q) /\ q # Srv
    /\ mem' = Answered(mem, q, <<>>)
    /\ UNCHANGED <<setting, phase>>

ResolverNext ==
    \/ \E how \in HowAsked({Peer}) : \/ belle_sip_channel_resolve_srv(how)
                                     \/ belle_sip_channel_resolve_a(how)
    \/ belle_sip_channel_destroy
    \/ \E q \in Queries : \/ resolver_process_data_delayed(q)
                          \/ resolver_process_data_READ(q)
                          \/ resolver_process_data_again(q)
                          \/ resolver_process_data_TIMEOUT(q)
    \/ resolver_process_data_READ_srv
    \/ resolver_process_data_TIMEOUT_srv

\* The main loop keeps running: as long as there is the source of a query that has no results,
\* one is notified in the end (its time comes every second). This is weak fairness of the steps
\* of the main loop, which are enabled then; no other step changes mem more than once.
ResolverFairness == []<>(mem.loop \subseteq mem.done) \/ []<><<mem' # mem>>_resolverVars
-----------------------------------------------------------------------------
\* The delayed queries that had their results when they were sent, and stay in the main loop
\* (belle_sip_resolver.c 616-621).
Lingering == mem.loop \cap mem.unsent \cap mem.done

\* No context or record is used after it was freed, however deeply callbacks run inside one
\* another (srv_resolve_a, process_srv_results, notify_dual_results). When the channel has been
\* told, every one has been freed; when it was destroyed before, no query and no record is
\* left. (A combined or dual context that is cancelled keeps the reference of its procedure and
\* is never freed.) Excepted are the delayed queries that linger, and all that happens once one
\* of them was sent again.
ContextsReclaimed ==
    mem.twice = {} =>
      /\ mem.misused = {}
      /\ mem.told # <<>> => \A n \in Nodes : mem.heap[n].live => n \in Lingering
      /\ phase = "destroyed" =>
           \A n \in Nodes : mem.heap[n].live => n[1] \in {"combined", "dual"} \/ n \in Lingering

Complete(results) ==
    \A q \in Queries \ {Srv} : mem.got[q] # <<>> => \E i \in DOMAIN results : results[i] = q

Ordered(results) ==
    \A i, j \in DOMAIN results : i < j =>
        LET p == results[i]  q == results[j] IN
        /\ p[2] = q[2] => p[1] = "aaaa" /\ q[1] = "a"
        /\ p[2] # q[2] => Records[p[2]].priority <= Records[q[2]].priority

\* The channel is told once, and once it is told or destroyed no query that could tell it again
\* is left in the main loop. It is given the addresses of servers by rising priority of their
\* records, the IPv6 ones of a server before its IPv4 ones, and every one that was received.
\* Excepted are the delayed queries that linger, and all that happens once one of them was sent
\* again: the channel is then told again.
ToldInOrder ==
    mem.twice = {} =>
      /\ Len(mem.told) <= 1
      /\ mem.told # <<>> \/ phase = "destroyed" => mem.loop \subseteq Lingering
      /\ \A k \in DOMAIN mem.told : Complete(mem.told[k]) /\ Ordered(mem.told[k])

\* A channel that resolves is told in the end, unless it is destroyed first or one of its
\* queries was delayed and then refused (belle_sip_resolver.c 616: nobody is notified): every
\* other query has an end, and no order of ends is missed.
AlwaysTold ==
    phase = "resolving" ~> (mem.told # <<>> \/ phase = "destroyed" \/ mem.lost # {})

=============================================================================
