------------------------------- MODULE MainLoop -------------------------------
(***************************************************************************)
(* The main loop (belle_sip_loop.c): sources with a descriptor, a timeout  *)
(* or both, added, removed, cancelled and re-armed by the application and  *)
(* from inside callbacks; one turn of belle_sip_main_loop_iterate() polls, *)
(* makes the list of sources to be notified, calls them one by one and     *)
(* cleans the pool of floating objects.                                    *)
(***************************************************************************)
EXTENDS ObjectHeap, FiniteSets, SequencesExt

CONSTANTS
    Sources,     \* the memory of the sources: belle_sip_source_t
    Floating,    \* the memory of floating objects made by callbacks
    Timeouts,    \* timeouts in use, in ms; -1 stands for none
    MaxLate,     \* bound: the loop is never later than this, in ms
    MaxPools,    \* bound on the pools of the iterating thread
    Sleeps       \* a callback may call belle_sip_main_loop_sleep()

NoTimeout == -1
Idle == "idle"

ASSUME MainLoopAssumption ==
    /\ Timeouts \subseteq Nat \cup {NoTimeout} /\ MaxLate \in Nat /\ MaxPools \in Nat \ {0}
    /\ Sleeps \in BOOLEAN
    /\ Sources \cap Floating = {} /\ {Idle, "notify"} \cap Sources = {}

VARIABLES
    memory,     \* the objects: sources and floating ones
    src,      \* the fields of each source
    sources,  \* ml->sources, in order
    toNotify, \* to_be_notified of the turn, each source with its place in the list then
    running,  \* the source whose callback runs, "notify" between two of them, or idle
    pools,    \* the stack of pools of the thread that iterates
    run,      \* ml->run
    held      \* the sources to which the application holds a reference

loopVars == <<memory, src, sources, toNotify, running, pools, run, held>>

Linked == {sources[i] : i \in DOMAIN sources}
Pending == {toNotify[i] : i \in DOMAIN toNotify}

\* The first of to_be_notified, and what is left without it.
FirstToNotify == toNotify[Min(DOMAIN toNotify)]
OthersToNotify == [i \in DOMAIN toNotify \ {Min(DOMAIN toNotify)} |-> toNotify[i]]

\* left is what remains until expire_ms: expire_ms - belle_sip_time_ms().
SourceFields ==
    [fd : BOOLEAN, timeout : Int, left : Int, cancelled : BOOLEAN, expired : BOOLEAN,
     oneshot : BOOLEAN, revents : {"none", "READ", "TIMEOUT"}]

\* iterate is called by the thread that made the main loop, whose pool is in its stack.
OwnThread == \E i \in DOMAIN pools : pools[i] = "ml"

\* Where the application's code runs: between turns or in a callback.
Calling == running = Idle \/ running \in Sources

(***************************************************************************)
(* Operations on sources.                                                  *)
(***************************************************************************)
\* belle_sip_source_init() on fresh memory, for a descriptor or a timeout.
belle_sip_source_init(fd, timeout) ==
    [fd |-> fd, timeout |-> timeout, left |-> 0, cancelled |-> FALSE, expired |-> FALSE,
     oneshot |-> FALSE, revents |-> "none"]

\* What is never read again is forgotten: the fields of freed memory, and the expiry of a
\* source out of the list.
Fields(h, f, list) ==
    [s \in Sources |->
        IF ~h[s].live THEN belle_sip_source_init(FALSE, NoTimeout)
        ELSE [f[s] EXCEPT !.left = IF \E i \in DOMAIN list : list[i] = s THEN @ ELSE 0]]

NewSource(s, fd, timeout) ==
    /\ Calling /\ ~memory[s].live
    /\ fd \/ timeout # NoTimeout
    /\ memory' = belle_sip_object_new(memory, s, FALSE, pools)
    /\ src' = [src EXCEPT ![s] = belle_sip_source_init(fd, timeout)]
    /\ held' = held \cup {s}
    /\ UNCHANGED <<sources, toNotify, running, pools, run>>

\* The fields of a source that is put in the list.
Armed(f) ==
    [f EXCEPT !.left = IF f.timeout >= 0 THEN f.timeout ELSE @, !.cancelled = FALSE]

belle_sip_main_loop_add_source(s) ==
    /\ Calling /\ s \in held /\ s \notin Linked
    /\ memory' = belle_sip_object_ref(memory, s)
    /\ src' = [src EXCEPT ![s] = Armed(src[s])]
    /\ sources' = Append(sources, s)
    /\ UNCHANGED <<toNotify, running, pools, run, held>>

\* new, add_source, unref: only the main loop keeps a reference.
belle_sip_main_loop_do_later(s) ==
    /\ Calling /\ ~memory[s].live
    /\ memory' = belle_sip_object_unref(
                   belle_sip_object_ref(belle_sip_object_new(memory, s, FALSE, pools), s), s)
    /\ src' = [src EXCEPT ![s] =
                 [Armed(belle_sip_source_init(FALSE, 0)) EXCEPT !.oneshot = TRUE]]
    /\ sources' = Append(sources, s)
    /\ UNCHANGED <<toNotify, running, pools, run, held>>

\* belle_sip_list_remove_link() of the source.
Without(list, s) == RemoveAt(list, CHOOSE i \in DOMAIN list : list[i] = s)

\* Mistake to detect: a removed source is not marked as cancelled.
remove_source_unmarked(h, f, list, s) ==
    IF s \in Linked
      THEN [memory |-> belle_sip_object_unref(h, s), f |-> f,
            list |-> Without(list, s)]
      ELSE [memory |-> h, f |-> f, list |-> list]

\* Mistake to detect: the reference of the list is dropped even if the source is not in it.
remove_source_unguarded(h, f, list, s) ==
    [memory |-> belle_sip_object_unref(h, s), f |-> [f EXCEPT ![s].cancelled = TRUE],
     list |-> IF s \in Linked THEN Without(list, s) ELSE list]

\* What removal does, as a change of the memory, the source and the list; nothing if it is
\* not linked.
remove_source(h, f, list, s) ==
    IF s \in Linked
      THEN [memory |-> belle_sip_object_unref(h, s), f |-> [f EXCEPT ![s].cancelled = TRUE],
            list |-> Without(list, s)]
      ELSE [memory |-> h, f |-> f, list |-> list]

belle_sip_main_loop_remove_source(s) ==
    /\ Calling /\ s \in held
    /\ LET x == remove_source(memory, src, sources, s) IN
       memory' = x.memory /\ src' = Fields(memory', x.f, x.list) /\ sources' = x.list
    /\ UNCHANGED <<toNotify, running, pools, run, held>>

\* By its number, so that no reference is needed.
belle_sip_main_loop_cancel_source(s) ==
    /\ Calling /\ s \in Linked
    /\ src' = [src EXCEPT ![s].cancelled = TRUE]
    /\ UNCHANGED <<memory, sources, toNotify, running, pools, run, held>>

belle_sip_source_set_timeout(s, timeout) ==
    /\ Calling /\ s \in held
    /\ src' = [src EXCEPT ![s].left = IF src[s].expired \/ s \notin Linked THEN @ ELSE timeout,
                          ![s].timeout = timeout]
    /\ UNCHANGED <<memory, sources, toNotify, running, pools, run, held>>

\* The application drops its reference.
Release(s) ==
    /\ Calling /\ s \in held
    /\ memory' = belle_sip_object_unref(memory, s)
    /\ src' = Fields(memory', src, sources)
    /\ held' = held \ {s}
    /\ UNCHANGED <<sources, toNotify, running, pools, run>>

\* A callback makes a temporary object.
NewFloating(o) ==
    /\ running \in Sources /\ ~memory[o].live
    /\ memory' = belle_sip_object_new(memory, o, TRUE, pools)
    /\ UNCHANGED <<src, sources, toNotify, running, pools, run, held>>

belle_sip_main_loop_run ==
    /\ running = Idle /\ run = 0
    /\ run' = 1
    /\ UNCHANGED <<memory, src, sources, toNotify, running, pools, held>>

belle_sip_main_loop_quit ==
    /\ Calling /\ run = 1
    /\ run' = 0
    /\ UNCHANGED <<memory, src, sources, toNotify, running, pools, held>>

\* belle_sip_main_loop_sleep() from a callback: belle_sip_main_loop_run() sets ml->run and
\* finds that a turn is under way; the timer comes and goes.
SleepInCallback ==
    /\ Sleeps /\ running \in Sources /\ run = 0
    /\ run' = 1
    /\ UNCHANGED <<memory, src, sources, toNotify, running, pools, held>>

(***************************************************************************)
(* One turn.                                                               *)
(***************************************************************************)
Due(s) == src[s].timeout >= 0 /\ src[s].left <= 0

\* Mistake to detect: deadlines are looked at only when poll() reports no event.
Notified_starved(s, events) ==
    src[s].cancelled \/ s \in events \/ (events = {} /\ Due(s))

\* Step 2 notifies what has an event (events is what poll() reports) or is due, and what is
\* to be removed.
Notified(s, events) == src[s].cancelled \/ s \in events \/ Due(s)

PollResult(s, events) ==
    IF src[s].cancelled \/ ~Notified(s, events)
      THEN [src[s] EXCEPT !.revents = IF src[s].fd /\ ~src[s].cancelled THEN "none" ELSE @]
      ELSE [src[s] EXCEPT !.revents = IF s \in events THEN "READ" ELSE "TIMEOUT",
                          !.expired = TRUE]

\* Steps 1 and 2: poll() waits for the first event or deadline.
PollAndCollect(events) ==
    /\ running = Idle /\ run = 1 /\ \E s \in Linked : Notified(s, events)
    /\ events \subseteq {s \in Linked : src[s].fd /\ ~src[s].cancelled}
    /\ toNotify' = [i \in {j \in DOMAIN sources : Notified(sources[j], events)} |-> sources[i]]
    /\ src' = [s \in Sources |-> IF s \in Linked THEN PollResult(s, events) ELSE src[s]]
    /\ memory' = [o \in DOMAIN memory |->
                  IF o \in Linked /\ Notified(o, events) THEN belle_sip_object_ref(memory, o)[o]
                                                         ELSE memory[o]]
    /\ pools' = IF OwnThread THEN pools ELSE <<"tmp">> \o pools
    /\ running' = "notify"
    /\ UNCHANGED <<sources, run, held>>

\* poll() is interrupted: the turn ends at once, its pool stays in the stack.
PollInterrupted ==
    /\ running = Idle /\ run = 1 /\ ~OwnThread /\ Len(pools) < MaxPools - 1
    /\ pools' = <<"lost">> \o pools
    /\ UNCHANGED <<memory, src, sources, toNotify, running, run, held>>

\* Step 3, a source that was cancelled or removed meanwhile.
SkipCancelled ==
    LET s == FirstToNotify IN
    /\ running = "notify" /\ Pending # {} /\ src[s].cancelled
    /\ LET x == remove_source(memory, src, sources, s) IN
       /\ memory' = belle_sip_object_unref(x.memory, s)
       /\ src' = Fields(memory', x.f, x.list)
       /\ sources' = x.list
    /\ toNotify' = OthersToNotify
    /\ UNCHANGED <<running, pools, run, held>>

\* Step 3, the callback is entered ...
Notify ==
    /\ running = "notify" /\ Pending # {} /\ ~src[FirstToNotify].cancelled
    /\ running' = FirstToNotify
    /\ UNCHANGED <<memory, src, sources, toNotify, pools, run, held>>

\* ... and left. A timeout is started again, from the last expiry or from now.
Restarted(f, ret) ==
    IF f.revents # "TIMEOUT"
      THEN f
      ELSE [f EXCEPT !.left = IF ret = "CONTINUE_WITHOUT_CATCHUP" THEN f.timeout
                                ELSE f.left + f.timeout,
                     !.expired = FALSE]

Return(ret) ==
    LET s == running IN
    /\ running \in Sources
    /\ LET x == IF ret = "STOP" \/ src[s].oneshot
                  THEN remove_source(memory, src, sources, s)
                  ELSE [memory |-> memory, f |-> [src EXCEPT ![s] = Restarted(src[s], ret)],
                        list |-> sources] IN
       /\ memory' = belle_sip_object_unref(x.memory, s)
       /\ src' = Fields(memory', [x.f EXCEPT ![s].revents = "none"], x.list)
       /\ sources' = x.list
    /\ running' = "notify"
    /\ toNotify' = OthersToNotify
    /\ UNCHANGED <<pools, run, held>>

\* The end of the turn: the pool is cleaned, or the pool of the turn destroyed.
CleanPool(h) == belle_sip_object_pool_clean(h, Head(pools))

EndTurn ==
    /\ running = "notify" /\ Pending = {}
    /\ memory' = CleanPool(memory)
    /\ pools' = IF OwnThread THEN pools ELSE Tail(pools)
    /\ running' = Idle
    /\ UNCHANGED <<src, sources, toNotify, run, held>>

\* Time passes between turns; callbacks take no time, so that cur is the time of the turn.
Timed == {s \in Linked : src[s].timeout >= 0}

Tick ==
    /\ running = Idle /\ \A s \in Timed : src[s].left > -MaxLate
    /\ src' = [s \in Sources |-> IF s \in Timed THEN [src[s] EXCEPT !.left = @ - 1] ELSE src[s]]
    /\ UNCHANGED <<memory, sources, toNotify, running, pools, run, held>>

\* Every source is removed; the same memory may serve another main loop.
belle_sip_main_loop_destroy ==
    /\ running = Idle /\ run = 0
    /\ memory' = [o \in DOMAIN memory |->
                  IF o \in Linked THEN belle_sip_object_unref(memory, o)[o] ELSE memory[o]]
    /\ src' = Fields(memory', [s \in Sources |->
                              [src[s] EXCEPT !.cancelled = @ \/ s \in Linked]], <<>>)
    /\ sources' = <<>>
    /\ UNCHANGED <<toNotify, running, pools, run, held>>

LoopInit ==
    /\ memory = [o \in Sources \cup Floating |-> Unallocated]
    /\ src = [s \in Sources |-> belle_sip_source_init(FALSE, NoTimeout)]
    /\ sources = <<>> /\ toNotify = <<>> /\ running = Idle /\ run = 0
    /\ pools \in {<<"ml">>, <<>>}
    /\ held = {}

Turn ==
    \/ \E events \in SUBSET Linked : PollAndCollect(events)
    \/ SkipCancelled
    \/ Notify
    \/ \E ret \in {"STOP", "CONTINUE", "CONTINUE_WITHOUT_CATCHUP"} : Return(ret)
    \/ EndTurn

LoopNext ==
    \/ \E s \in Sources :
         \/ \E fd \in BOOLEAN, timeout \in Timeouts : NewSource(s, fd, timeout)
         \/ \E timeout \in Timeouts \ {NoTimeout} : belle_sip_source_set_timeout(s, timeout)
         \/ belle_sip_main_loop_add_source(s)
         \/ belle_sip_main_loop_do_later(s)
         \/ belle_sip_main_loop_remove_source(s)
         \/ belle_sip_main_loop_cancel_source(s)
         \/ Release(s)
    \/ \E o \in Floating : NewFloating(o)
    \/ belle_sip_main_loop_run
    \/ belle_sip_main_loop_quit
    \/ belle_sip_main_loop_destroy
    \/ SleepInCallback
    \/ PollInterrupted
    \/ Turn
    \/ Tick

\* The thread that runs the loop is scheduled, and callbacks return: when a source is due or
\* cancelled, or a turn is under way, the loop goes on. This is weak fairness of Turn then;
\* no other action changes running or toNotify.
TurnNeeded == running # Idle \/ (run = 1 /\ \E s \in Linked : src[s].cancelled \/ Due(s))

LoopFairness ==
    []<>(~TurnNeeded) \/ []<><<running' # running \/ toNotify' # toNotify>>_loopVars

(***************************************************************************)
(* Properties.                                                             *)
(***************************************************************************)
Holders(s) ==
    (IF s \in held THEN 1 ELSE 0) + (IF s \in Linked THEN 1 ELSE 0)
        + (IF s \in Pending THEN 1 ELSE 0)

\* Whatever callbacks remove, cancel, add again or release, a source is freed exactly when the
\* application, the list of sources and the list of the turn have all let go of it
\* (belle_sip_object_ref() and unref() in add_source, remove_source and iterate). The temporary
\* objects callbacks make are gone when the turn is over, also when the thread is not the one
\* that made the main loop.
RefsBalanced ==
    /\ \A s \in Sources :
         memory[s] = IF Holders(s) = 0 THEN Unallocated
                     ELSE [live |-> TRUE, ref |-> Holders(s), pool |-> NoPool]
    /\ running = Idle => \A o \in Floating : ~memory[o].live

\* A callback is entered only for a source that is in the main loop at that time: one that
\* another callback of the same turn removed is silent, although it was already selected.
RemovedIsSilent == [][\A s \in Sources : (running' = s /\ running # s) => s \in Linked]_loopVars

\* While the loop runs, a source that is due gets its callback, unless it is re-armed,
\* cancelled or removed first, whatever the other sources do.
DueIsServed ==
    \A s \in Sources :
        (run = 1 /\ s \in Linked /\ Due(s)) ~>
            (running = s \/ s \notin Linked \/ ~Due(s) \/ src[s].cancelled \/ run = 0)
=============================================================================
