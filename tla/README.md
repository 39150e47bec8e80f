# A TLA+ model of belle-sip

belle-sip is a SIP (RFC 3261) stack in C: one thread, one main loop, objects with
reference counts, and callbacks. This directory holds TLA+ modules that model it from the
main loop and the object system up to dialogs and refreshers, the TLC configurations that
check them on small instances, and proofs, checked by TLAPS, about transactions, dialogs,
the refresher, the provider, the main loop and the object system. `PROJECT.json` lists the runs, says which source lines each definition
models, and lists the hazards the properties are for and the disagreements that were found.

File names below are relative to `src/src/`.

## 1. The system

| component | state it keeps | operations | talks to |
|---|---|---|---|
| object system (`belle_sip_object.c`) | reference counts, pools, weak references, data stores, size hints | new, ref, unref, pool push/clean/destroy, data set/get, clone, to_string | everybody |
| main loop (`belle_sip_loop.c`) | list of sources, deadlines, list of the turn | add, remove, cancel, re-arm, do_later, iterate, sleep, quit | calls everybody back |
| DNS library (`dns.c`) | packets, configuration, stack of queries | push and parse, read files, submit, check | resolver |
| resolver (`belle_sip_resolver.c`) | contexts of SRV, A, AAAA queries | resolve, answer, time out, cancel | channel, main loop |
| listening points (`listeningpoint.c`, `transports/*_listeningpoint.c`) | list of channels, server socket, keep-alive timer | find, make, accept, remove, clean channels | channels, provider |
| channel, output (`channel.c`, `stream_channel.c`, `udp_channel.c`) | state, addresses left, queue of messages, bytes held up by EWOULDBLOCK, deferred calls | prepare, connect, queue message, error, notify timeout, close | resolver, main loop; its listeners: provider and client transactions |
| channel, input (`channel.c`) | buffer, parse state, message whose body is acquired | receive, find a message, acquire a body, notify | provider |
| messages, headers, URIs, SDP (`message.c`, `belle_sip_headers_impl.c`, `belle_sdp_impl.c`, `belle_sip_uri_impl.c`, `belle_sip_utils.c`) | containers of headers, fields | add, remove, clone, marshal, compare, escape | everybody |
| body handlers (`bodyhandler.c`) | how much was transferred, parts | send and receive a piece | channel |
| client transaction (`transaction.c`, `ict.c`, `nict.c`) | state, timers, last response, ACK | send, response, timers A B D M / E F K, channel notice, terminate | channel, dialog, listeners |
| server transaction (`transaction.c`, `ist.c`, `nist.c`) | state, timers, last response | request, retransmission, ACK, send response, timers G H I L / J | channel, dialog, listeners |
| dialog (`dialog.c`) | state, sequence numbers, needs_ack, last transaction, queue of requests, 200 Ok timers | update, create and queue requests, ACK, delete | transactions, provider |
| provider (`provider.c`) | lists of transactions, dialogs, listeners, authorization contexts | dispatch, create, find, add credentials, remove | everything above, the application |
| refresher (`refresher.c`) | transaction, timer, expires, retries | start, refresh, stop, retry | provider, transactions |
| HTTP provider (`http-provider.c`) | channels, pending requests of each | send, cancel, response, error, authentication | channels |
| stack, TLS and tunnel transports | see `PROJECT.json` "components" | | |

What is hard here is not concurrency of threads: every callback runs to its end. It is

* *deferred calls*: an error of a channel, a further connection attempt and the dialog's
  queue are all handled by `belle_sip_main_loop_do_later()`, and the state they find is
  not the one they were queued for;
* *re-entrance*: the application terminates a transaction, sends or cancels a request,
  removes a source or deletes a dialog from inside a callback, and the handler goes on;
* *ownership*: nearly everything is freed by the last of several owners, and some pointers
  own nothing;
* *time*: timers A to M race with responses, channel errors and each other; name servers
  answer after they were given up;
* *the network*: datagrams are lost, repeated and reordered, a stream is cut anywhere and
  accepts part of a message, a connection dies, addresses are translated;
* *several of one kind*: transactions of one dialog, peers of a forked INVITE, calls that
  share a nonce, requests on one connection, of each of which one pointer or counter
  remembers the last.

What makes each part correct:

* objects and main loop: what is referenced lives, what is not is freed, once; a removed
  source is silent and a due one is served;
* names: contexts end and are freed whatever the order of answers; the answer is for the
  question, and no server is left unasked by a query that gets a failure for an answer;
* listening points: a channel is released once; a party is reached over one path;
* channel: always READY, dead and reported, or with something under way; nothing that
  can be sent stays in the queue; what arrives whole is delivered whole, in order, once;
* messages: what is written is read back as what was meant; a response finds its way back;
* transactions: one outcome is reported; both sides agree on the final response; no
  state without the timer that ends it; silence after the end; every request ends;
* provider: an ACK is told once; the peers of a forked INVITE are kept apart; a nonce is
  counted exactly, and a request that can be authenticated is;
* dialog: queued requests leave in order and do leave; a 2xx without ACK ends the call;
* refresher: while it is started, a timer or a request is under way or the application
  knows that neither is; after stop there is neither;
* HTTP: the application gets one outcome of a request, and that of this request.

## 2. Modules

| module | models |
|---|---|
| `TransactionLink` | method, transport kind and messages in flight between two transactions |
| `ClientTransaction` | `transaction.c` (client part), `ict.c`, `nict.c`, and the channel as a transaction sees it |
| `ServerTransaction` | `transaction.c` (server part), `ist.c`, `nist.c`, creation in `provider.c` |
| `RequestOutcome` | abstract: what a client transaction promises the application |
| `TransactionPair` | client + server + network; properties; refinement of `RequestOutcome` |
| `TransactionPair_proofs` | theorems about `TransactionPair`, its refinement of `RequestOutcome` included |
| `ChannelOutput` | the sending half of a channel, as operators that give the set of possible results |
| `Channel`, `Channel_proofs` | the life of a channel: resolution, addresses, READY, errors, notices, teardown; theorems |
| `Dialog`, `Dialog_proofs` | an INVITE dialog with its transactions, the application and the peer; theorems |
| `Refresher`, `Refresher_proofs` | `refresher.c`: a refresher, its timer and its last transaction; theorems |
| `ObjectHeap` | reference counts and pools, as operators on a heap |
| `MainLoop` | `belle_sip_loop.c` |
| `ObjectSystem` | objects of several threads: ownership, pools, weak references, data store |
| `Runtime`, `Runtime_proofs` | `MainLoop` and `ObjectSystem`; theorems about both |
| `ListLemmas` | the first of a set of places; a list without one of its elements |
| `Dispatch` | the provider as a server: transactions and dialogs found for the requests of a call |
| `Authentication` | the provider's authorization contexts, the challengers of a path |
| `Forking` | the dialogs of an INVITE that several peers answer |
| `Headers`, `Sdp` | classes of headers and of SDP lines: what `clone()` copies, what `marshal()` prints; media descriptions and their payloads |
| `Marshalling` | `clone()`, `marshal()` and `to_string()` of an object of any class |
| `UriText` | escaping of the parts of a URI, the display name, equality of URIs |
| `Messages` | messages as containers of headers, responses, Via and Contact behind a NAT |
| `BodyHandlers` | bodies sent piece by piece, multipart |
| `ChannelInput` | the receiving half of a channel |
| `Digest` | digest credentials, with MD5 as an injective function |
| `HttpProvider` | `http-provider.c` and the channels it uses |
| `Provider`, `MCProvider` | `Dispatch`, `Authentication`, `Forking` and `HttpProvider`; values for TLC |
| `Provider_proofs` | theorems about them |
| `ListeningPoints`, `ListeningPoints_proofs` | a UDP and a stream listening point and their channels; theorems |
| `Wire`, `MCWire` | the modules from `Headers` to `ChannelInput`, and `ListeningPoints`, together; values for TLC |
| `SrvSelection` | the order in which the servers of an SRV answer are tried |
| `Resolver` | simple, dual and combined contexts |
| `DnsPacket` | DNS messages with compressed names |
| `DnsConfiguration` | `resolv.conf`, hosts file, `nsswitch.conf` |
| `DnsResolver` | one query: frames, servers, datagrams and streams, aliases |
| `Names`, `MCNames` | the four modules before together; values for TLC |

`Runtime`, `Provider`, `Wire` and `Names` are sums: their modules share no state, and the
first state says which of them a behaviour is about. The parts that do interact are composed
in one module: client and server with the network in `TransactionPair`, the sending half with
the life of a channel in `Channel`, aliases, sockets and configuration in `DnsResolver`.

Definitions keep the names of the C functions they translate. Definitions introduced by
"Mistake to detect" are not part of any specification: each is a plausible bug that a
property must catch when it takes the place of a definition (`PROJECT.json` "mutants").

### Transactions

State: `cState`, `cTimers`, `cLast`, `ack`, `timed_out`, `listed` are fields of the client
transaction, the set of its timers in the main loop, and its presence in the provider's
list; `sState`, `sTimers`, `sLast`, `sListed` are those of the server. `told` counts the
callbacks made to the application, up to two. `channel`, `notices` and `alternates` are
what the client sees of its channel. `toServer` and `toClient` are sets: an element stays
until it is lost, so a datagram comes late, never, or more than once; over a stream an
element is consumed when it is delivered, and lost only with the connection.

Each C callback is one action. Timers fire in any order, which is an abstraction of the
durations: whatever is shown holds for every T1, T2 and T4 and for a main loop that is
late. `notify_response` has two outcomes because the listener may terminate the
transaction from inside the callback; the timers that the C code starts after the
callback (`timer_D`, `timer_K`) then outlive the termination. `SendRequestWait` has a
third case, switched by the constant `SendFromIoErrorCallback`, for an application that
sends from inside `process_io_error`.

### Channel

`output` is the sending half. One call of `channel_process_queue()` can end in many ways
(all sent; message n held up; message n failed), so `SendQueue` and `ResumeSend` are
*sets* of results and the actions choose one. The peculiarities of the C loop are kept: the
pop before the test (`PopInVain`, which adds what it loses to `popped`), the second transmission of a small message after
EWOULDBLOCK (`ResumeSend`), the flush in `belle_sip_channel_set_ready()` after its
listeners have sent. `connects` and `notices` count the deferred calls. The REGISTER
timeouts, which are the only way a transaction moves a channel to error, are modelled by
`timerF` and `TimePasses`: 32 seconds are longer than one turn of the main loop, so
deferred calls are run before timers become due, but several timers can be due in one turn.

### Dialog

`dialog` is a record of the fields of `belle_sip_dialog_t`; `trans` is the sequence of the
dialog's transactions in the order of their creation, each with the state classes the
dialog distinguishes (INIT, transient, final, terminated). A handler that calls
`belle_sip_dialog_update()` and then the application, which may ACK, is one action; the
operators take and return the record. The peer sends requests with any unused sequence
number, in any order. A request the application or the dialog sends may get a provisional
response (`Provisional`) before its final one, or none after it; whether a BYE deletes the
dialog (`terminateOnBye`) is a choice of the first state. The dialog's deferred queue processing is one flag: of several
deferred calls all but the first find nothing to do.

### Refresher

`r` is a record of the fields of `belle_sip_refresher_t` that decide what it does, `tr` its
last transaction: state, Expires of the request, and its channel (`up`; `failing`, from the
error until the listeners are called; `dead`; or `none`, when none could be made). Earlier
transactions are "not for me" in every handler. `known` is what the application was last
told. Sending a request can end in several ways, so `belle_sip_refresher_refresh` is the
set of results, each with the value the function returns. The I/O error of the
transaction's channel is one action, `ChannelNotice`, because one loop over the channel's
listeners delivers it, the provider first and then the transaction; the failure of another
channel, which the provider also reports to the refresher, is `OtherChannelFails`.

Two constants switch on what the code does not survive: `ListenerRefreshes`, an
application that calls `belle_sip_refresher_refresh()` from the callback of an I/O error,
and `ResubmitFails`, a request that fails at once in one of the three places that ignore
the result.

### Main loop and objects

A heap is a function from memory to records (`live`, `ref`, `pool`), so that an address can
be freed and used again. `MainLoop` makes one turn of `belle_sip_main_loop_iterate()` a
sequence of actions: poll and selection (`toNotify`), one callback at a time (`running` is
the source called, `Notify` its return), removal of cancelled sources, cleaning of the pool.
Between the entry and the return of a callback any operation of the interface may be called,
`belle_sip_main_loop_sleep()` included, which makes a turn inside the turn. Time is the
deadline of each source relative to now; `Tick` passes it, with the loop at most `MaxLate` late.

In `ObjectSystem` deletion runs the destructors one by one, in any order (`dying`): an
object that owns another releases it there. `belle_sip_object_data_merge()` is two actions, with
a clone function and without (`MergeWithoutClone`), as the second puts one datum into two stores
(`shared`). Each thread has a stack of pools; a thread may exit with pools on
it, and a pool be destroyed later.

### Provider

`Dispatch` follows one call as its server: its INVITE, a CANCEL, ACKs, a second INVITE and
a BYE arrive at any time and again, from a peer with RFC 3261 branches or an older one
(`old`). `Authentication` has, for each Call-ID, one request at a time, which passes the
challengers of a path; the nonces of the challengers are external. `Forking` has one client
transaction and the dialogs it made; `tdialog` is the pointer of the transaction, which a
weak reference resets. `HttpProvider` composes requests, their channels, a site with its
scheme of authentication, and an application that sends and cancels between the responses
of one `recv()`.

### What is written and read

An object is the set of its fields that are set; a class (`Headers`, `Sdp`) is the fields
its `clone()` copies and the sequence of its `snprintf()` calls. A text is a sequence of
letters, one for each way in which the code treats characters. A message is a sequence of
containers of headers. In `ChannelInput` the items a peer sends are sequences of cells,
each of which stands for some bytes (half a start line, CR, LF, the size of a chunk), and
`recv()` returns any number of them. In `BodyHandlers` a message can be sent again at any time
(`belle_sip_body_handler_begin_transfer`), which resets what the code resets: the size of a body,
not the list of parts of a multipart one. In `ListeningPoints` `cleaning` says where
`belle_sip_listening_point_clean_channels()` is in its list, because each channel it closes
calls the application.

### Names

`Resolver` is written in terms of one record `mem` (heap of contexts, queries in the main
loop, results): callbacks run inside one another, up to the channel's, and the operators are
composed as the functions call each other. A query may be known at once, refused, or
answered later. With a delay (`resolver_tx_delay`) it is sent from the main loop, and is then
refused, has its results at once, or leaves; in the second case the code leaves its source in
the main loop (`Lingering`). In `DnsResolver` the machine of `dns_res_exec()` is a stack of frames that
runs until it would block; answers on their way may be lost, late or come to the next query.

## 3. Runs

| run | checks | bounds and why they suffice |
|---|---|---|
| `TransactionSafety` | `OneOutcome`, `AgreeOnFinal`, `ConfirmedKnowsFailure`, `WaitingIsTimed`, `QuietAfterEnd` | codes 100, 200, 486: one of each class, two of them final so that the sides could disagree; every method; one alternate address; two server transactions, so that a late copy of the request makes a second one; an application that sends from `process_io_error` |
| `TransactionLiveness` | `TransactionsEnd` (`ClientResolves`, `ServerEnds`), `ImplementsOutcome` | codes 100, 200, 202, 486, with two 2xx so that one can follow another; INVITE and one other method; one server transaction; an application that sends from `process_io_error` |
| `Channel` | `NoLimbo`, `FlushedWhenReady`, `ChannelSettles` | a REGISTER, a message with a long body and one that cannot be marshalled; two addresses, so that one attempt fails and another follows; two pending notices |
| `Dialog` | `QueueInOrder`, `NoLostWakeup` | INVITE, BYE and INFO from both sides; three transactions (besides the BYEs the dialog sends by itself), two peer sequence numbers so that they can be reordered |
| `DialogLiveness` | `QueuedRequestSent`, `UnacknowledgedEnds` | INFO from us, INFO and BYE from the peer; a provisional 100, so that a BYE can get one and then nothing; a BYE deletes the dialog or does not |
| `Refresher` | `NeverForgotten`, `StopIsQuiet` | REGISTER, PUBLISH and SUBSCRIBE; one code for each case of `process_response_event()`; two expiration times, so that a 423 can change it; both constants above FALSE |
| `Runtime` | `RefsBalanced`, `RemovedIsSilent`, `DueIsServed`; `Reclaimed`, `WeakNeverDangles` | two sources, so that one can act on the other, one floating object, sources of one ms and a loop one ms late; two objects, one of which can own the other, two threads with a pool each, two data under one name, so that one replaces the other, one of which a merge may share |
| `Provider` | `AcksReported`; `CountIsExact`, `Authenticated`; `ForkedApart`; `AnsweredOwn` | four server transactions, so that requests that came again have their own; two calls that share nonces, every path of proxy and server that has one challenger at most, five nonces; two peers, four dialogs and four responses; three HTTP requests on two channels, a nonce called stale at most twice |
| `Wire` | `SentWhole`, `ReadsBack`, `ResponseMatches`, `ReachableBack`, `ReceivedWhole`, `ReleasedOnce`, `SamePath` | texts of four letters of eight kinds; objects of every class, a hint smaller than most of them; up to two proxies, a NAT that may change a port; bodies of up to three parts in buffers on both sides of each limit, sent twice; all streams of two items of twelve kinds and of three of four kinds, a buffer smaller than two of them; two channels of one party. The memory of channels is symmetric |
| `Names` | `ContextsReclaimed`, `ToldInOrder`; `PushedIsRead`; `ConfiguredAsWritten`; `AskedBeforeGivingUp`, `AnswersTheQuestion`; `ResolutionEnds` | three servers at two priorities, in answers of none, of one, of two alone at their priority and of one alone beside two others; each with two queries known, asked or refused, delayed or not; of the delayed queries that linger one is sent again, once; a packet that is too small for all records and a dictionary too small for all names; four lines of each file; two name servers, one of which knows nothing, aliases, a loop of aliases, an answer that does not fit in a datagram |
| `RegisterTimeout` | violated: `RegisterResolves` | see Findings |
| `ForkedTwice` | violated: `OneDialogPerPeer` | two peers, three dialogs, four responses |

Bounds named in the modules: `MaxNotices` (pending error notices), `MaxCopies` (copies of a
message told apart), `MaxServers`, `MaxAlternates`, `MaxAddresses`, `MaxTransactions`,
`MaxPeerCseq`, `MaxAcks`, `MaxDeferred`, `MaxLate`, `MaxPools`, `MaxRef`, `MaxNonce`, `MaxRequests`,
`MaxExpiries`, `MaxDialogs`, `MaxResponses`, `MaxProxies`, `MaxObjects`, `MaxEdits`,
`MaxShared` (data in two stores), `MaxTransfers` (of one body), `MaxFills`, `MaxHttpChannels`, `MaxStale`, `MaxText`, `MaxChanges`, `MaxGen` (UDP sockets),
`MaxLines`, `MaxDepth` (`DNS_R_MAXDEPTH`), `Ticks`. All runs switch off TLC's deadlock check
because the systems really stop: a terminated transaction, a destroyed channel, a message
that was read.

Stated in the modules and in no run, because the code does not have them or another property
of a run says more: `NoDoubleLink` and `NothingGivenUp` (`Channel`), `RetransmissionAbsorbed`
and `DeletedOnce` (`Dialog`), `KeepsCredentials` (`Authentication`), and the type invariants,
which are proved for `TransactionPair`, `Refresher`, `Dialog`, `Channel`, `ListeningPoints` and, as
parts of the invariants, the modules of `Provider_proofs` and `Runtime_proofs`. `DeletedOnce` is proved.

### Fairness

Formulas of the form `[]<>(nothing to do) \/ []<><<progress>>` are weak fairness of the
actions named beside them, written so that TLC need not evaluate ENABLED.

* A timer that is in the main loop fires and a deferred call is run:
  `belle_sip_main_loop_iterate()` notifies every source that is due, and the application
  is bound to call it. `DueIsServed` of `MainLoop` is this assumption, shown from a weaker
  one: the thread is scheduled and callbacks return. Timers that only retransmit (A, E, G)
  are not assumed to fire.
* A channel being prepared becomes READY or fails: the resolver has a timeout
  (`belle_sip_stack_set_dns_timeout`), and `ResolutionEnds` shows that it answers; so has a
  connection attempt (`belle_sip_stack_set_transport_timeout`); the list of addresses is finite.
* In `Resolver` and `DnsResolver`: a waiting query is woken up every second by its source.
  Nothing is assumed of the name servers.
* In `Authentication`: a request that is sent is answered by those on its path, and the
  application handles a challenge. How often nonces expire is bounded (`MaxExpiries`).
* In `Dialog`: a client transaction gets a final response or ends, which is what
  `TransactionsEnd` shows of the transaction layer; and the application answers the
  requests it is given.
* Nothing else is assumed of the network or the peer: no message need ever arrive.

### Findings

With a run:

* `RegisterTimeout`: timer F of a REGISTER leaves everything to the channel, which does
  nothing if it received data in the last minute. The transaction is never ended or reported.
* `ForkedTwice`: two peers answer an INVITE, and one call ends while the transaction still
  waits for more 2xx. A retransmitted 2xx of the other peer gets a second dialog, and the
  next look-up aborts the program.

Shown by a module, with other constants than those of the runs:

* `Refresher` with `ListenerRefreshes = TRUE` violates `NeverForgotten`: a request sent from
  `process_io_error` is given the dead channel, which is released only afterwards, and waits
  for ever; a refresher whose application does this has cancelled its retry timer too. With
  `ResubmitFails = TRUE` a resubmission that fails at once is forgotten.
* `Channel` violates `NoDoubleLink` (two REGISTERs, three addresses): two errors queue two
  connection attempts; the second aborts the program in `belle_sip_main_loop_add_source()`.
* `Channel` violates `NothingGivenUp`: `channel_process_queue()` pops a message and then
  finds that an earlier one is still held up; the popped one is lost.
* `Dialog` with INVITE among `Methods` violates `QueuedRequestSent`: a lost ACK of a
  re-INVITE blocks the queue for ever. With UPDATE among `Provisional` it violates
  `RetransmissionAbsorbed`: the ACK has the sequence number of the UPDATE. With INVITE and INFO
  as `Methods` and four transactions it violates `NoLostWakeup` without its exception: an INVITE
  is ACKed again (its 2xx came twice) after a re-INVITE was made, the ACK has the sequence number of
  the re-INVITE, the 2xx of which is then taken for a retransmission that ends
  `belle_sip_dialog_update()` before the queue is looked at.
* `Authentication` violates `KeepsCredentials`: the answer 401 of a server makes the
  provider forget the credentials of the proxy.
* Without the exceptions listed below, which name what they leave out: `TransactionPair` violates
  `TransactionsEnd`, `Dialog` violates `QueuedRequestSent` and `UnacknowledgedEnds`, `ObjectSystem`
  violates `Reclaimed`, `BodyHandlers` violates `SentWhole`, `Resolver` violates
  `ContextsReclaimed`, `ToldInOrder` and `ResolutionEnds`.
* `ListeningPoints` with `SendsInCallback = TRUE` violates `ReleasedOnce`, and
  `HttpProvider` with `CancelsRemoved = TRUE` violates `AnsweredOwn`.

Left out of a property by name (the property says so in its comment):

* `NoLostWakeup`: an INVITE whose sequence number an earlier ACK has (`AckedEarly`); nobody
  would have seen that without the proof, whose induction step failed there.
* `TransactionsEnd`: a request sent from `process_io_error` is given the channel that has just
  died, and waits for ever (`GivenDeadChannel`, transaction.c 399); and a REGISTER.
* `FlushedWhenReady`: what `channel_process_queue()` pops while another message is held up is
  lost (`popped`, channel.c 1182). Every other message that was accepted and can be marshalled is
  on the wire, or its `send()` failed.
* `QueuedRequestSent`, `UnacknowledgedEnds`: a dialog whose BYE got a provisional response and
  then none is neither deleted nor rid of `needs_ack` (`ByeGivenUp`, dialog.c 421).
  `UnacknowledgedEnds` also: the ACK is ignored when a later request of the peer was answered or
  refused before it came (`Overtaken`, dialog.c 809).
* `Reclaimed`: data that a merge without clone function put into two stores are destroyed by
  both (`shared`, belle_sip_object.c 390).
* `SentWhole`: a multipart body is whole in its first transfer only; later ones have just its end
  (bodyhandler.c 94 and 416).
* `ResolutionEnds`: a delayed query that is refused tells nobody (`lost`). `ContextsReclaimed` and
  `ToldInOrder`: a delayed query that has its results when it is sent stays in the main loop
  (`Lingering`) and is sent and told again; nothing is said of what follows (`twice`,
  belle_sip_resolver.c 616).
* `AskedBeforeGivingUp`: a query that ends on an error of its socket leaves the other servers
  unasked (dns.c 6997).
* `ReceivedWhole`: a start line in two pieces after a keep-alive is thrown away
  (`Undisturbed`). `ContextsReclaimed`: a context that is cancelled is never freed.
  `TextReadsBack`: texts that do not fit in the room `belle_sip_escape()` makes.
  `EqualityFollowsRules`: the components `belle_sip_uri_equals()` does not compare.

The others, the exact lines, and the sentences of the sources they contradict are in
`PROJECT.json` "findings".

## 4. Proofs

`TransactionPair_proofs` proves, for every set of codes in 100..699 that has 100, every
set of methods and every bound:

* `TypeCorrect`: `Spec => []TypeOK`. `TypeOK` alone is not inductive: a server in
  PROCEEDING or COMPLETED sends `last_response` again, so it must have one (`HasResponse`).
* `OneOutcomeHolds`, `AgreeOnFinalHolds`, `ConfirmedKnowsFailureHolds`,
  `WaitingIsTimedHolds`, the action property `QuietAfterEndHolds`, and the refinement
  `ImplementsOutcomeHolds`.

All rest on one inductive invariant `IInv`, a conjunction of parts that are kept by each
step for their own reasons:

* `OutcomeInv`: while the outcome is open nothing was reported and no final response is
  held; after the final response nothing else is reported until the end. `OneOutcome`
  needs this because its violation takes two steps: the first report, then another.
* `FinalInv`: a server transaction that has not answered has no final response anywhere;
  one that has answered has exactly one, and as long as it is the only server transaction
  of the request every final response in flight or received is that one.
* `AckInv`: an ACK in flight means that the client holds a failure response, and such a
  client is COMPLETED or TERMINATED, so it keeps it.
* `TimerInv`: `WaitingIsTimed`, and which machine has which state.

With it `ImplementsOutcomeHolds` says that the pair implements `RequestOutcome`, if the request is
not a REGISTER (for a REGISTER it does not, see `OneOutcome`). `IInv` before and after a step leaves
little to say of the step: what was told grows and an end is final (`ToldGrows`), there is one
outcome at most, and a transaction that has told a failure is TERMINATED; so an outcome that appears
is an `Answer`, or a `Fail` together with the end.

The assumptions are those the modules state (`LinkAssumption`, `ClientAssumption`,
`ServerAssumption`).

`Refresher_proofs` proves, for every set of methods, status codes and expiration times:

* `TypeCorrect` and `StopIsQuietHolds`, whatever the two constants are;
* `NeverForgottenHolds`, if both are FALSE. TLC shows with `ListenerRefreshes = TRUE`
  that the first of these assumptions is needed; with the second one TRUE an initial state already
  violates the property.

Its `IInv` adds two facts. `QuietInv`: a refresher stopped by the application is not in
state started, hence ignores the late timeouts and errors that would set its timer.
`FlagInv`: `on_io_error` is set only while the transaction is over. Without it the error of
a request under way could be ignored as "already on error"; it holds because the flag is
reset whenever a request is sent, and it is part of the invariant only under the
assumptions, since an application that refreshes from the callback breaks it.
`RefresherAssumption` is the only other assumption.

`Dialog_proofs` proves, for every set of methods of both sides and every number of
transactions, `TypeCorrect`, `QueueInOrderHolds`, `NoLostWakeupHolds` and `DeletedOnceHolds`.
Its invariant takes a dialog and its transactions as arguments, as the operators of
`Dialog` do, because a handler changes both more than once: `Sound(d, ts)` has the parts

* `FieldsOK`: types; a transaction that goes on has no 2xx and no ACK; a dialog is deleted once;
* `QueueOK`: the queue has exactly the transactions in state INIT, in the order of their creation,
  and `last_transaction` is none of them, so that a dialog that waits for it waits for
  something under way;
* `NumbersOK`: what was queued has a number once it is sent, in the order of the queue.

A step takes `Sound(dialog, trans)` through `belle_sip_dialog_update()`, the ACK, and the BYE of
a missing ACK, one lemma each; the lemma of `belle_sip_dialog_update()` adds that it ends
with a call that serves the queue, a dialog that waits for an ACK, or a retransmission.

`Provider_proofs` has an invariant for each part of `Provider`:

* `ForkInv`, for any peers and numbers of dialogs and responses: `ForkedApartHolds`. An event has
  the dialog of its peer (`ToldInv`) because no peer has two dialogs while the transaction
  keeps its own (`ApartInv`); `AbortsOnlyWhenLost` says that the look-up of `provider.c` aborts the
  program only after that. The run `ForkedTwice` shows that it can.
* `DispatchInv`: `AcksReportedHolds`. `NeedsAckInv`: a dialog that waits for an ACK has passed none
  on. `OneInviteInv`: an INVITE that comes again finds its transaction, so that the ACK of
  its failure has one to find.
* `AuthInv`: `CountIsExactHolds`, for any requests, paths and number of nonces. `FreshInv`: a nonce
  that is not yet in a context was used by nobody, and two challenges that wait for their request have
  different ones. Without it two contexts could count one nonce.
* `HttpInv`: `AnsweredOwnHolds`, for any requests, paths, users and number of channels, if a request is
  cancelled only while its channel is in the list (`CancelsRemoved = FALSE`: with TRUE, TLC shows that
  the queue of a removed channel is sent twice, section 3). A response is matched with a request by
  order alone, so `WireAt` says that what reached the site are the first of the requests
  that wait. `OnceAt` and `ChannelsOK`: a request waits once, at one channel, so that its outcome is
  told once; `ToldOK`: it waits only while none was told. `RequestOK`: credentials that were sent
  again verify, so each attempt but the first means that a nonce was called stale.
  `HttpRefs`: a channel has as many references as holders (the list, a deferred notice, the main
  loop that reads), so it stays while requests wait at it. As a handler changes the state more than
  once, the lemmas take the state as an argument, one for each function it calls; for the loops
  over a queue the facts hold after each prefix of it, as there is no shortest one after which they fail.

`Runtime_proofs` does the same for `Runtime`:

* `LoopInv`: `RefsBalancedHolds`, and the action property `RemovedIsSilentHolds`. `MemoryInv` gives each
  source as many references as holders (application, list of sources, list of the turn),
  `ListsInv` says that a list has a source once, `MarkedInv` that a selected source that was removed is
  marked: a callback is skipped because of the mark.
* `ObjectInv`: `ReclaimedHolds`, `WeakNeverDanglesHolds`. `CountedInv` counts for each object those that
  hold it, the destructors that still have to run included, or finds it in a pool of a
  thread. Owners are counted as the cardinality of a set, so the assumption has finitely many objects.
  For data, a datum that is not `shared` has one place or was freed: a step that frees the entries of
  a store frees each such datum it has once (`FreedOnce`), a copy is new to every store
  (`FreshNowhere`), and a merge without clone function moves nothing but what it adds to `shared`
  (`MergeWithoutCloneKeeps`).

`Channel_proofs` proves, for any messages and any numbers of addresses and notices, `TypeCorrect`,
`NoLimboHolds` and `FlushedWhenReadyHolds`. The two properties and `TypeOK` are inductive together
with `output \in Sound` (`IInv`): a channel leaves the states in which something is under way only by a handler that starts the
next thing, and a handler that makes it READY has called `channel_process_queue()`. The lemmas follow
the calls of the code: what one call of `channel_process_queue()` can leave (`Flushed`: the channel
failed, a message is held up, or the queue is empty; and what it leaves is `Sound`: every message
accepted is on the wire, given up, held up or in the queue, `Placed`), then what each handler makes of the life of the
channel (`LifeOK`, its types) and what is under way in the state it leaves (`UnderWay`).

`ListeningPoints_proofs` proves, for any peers, any memory for channels and any number of sockets,
`TypeCorrect`, `ReleasedOnceHolds` and `SamePathHolds`, if `SendsInCallback` is FALSE: with TRUE, TLC shows that
`ReleasedOnce` is violated (section 3). The parts of `Inv` are

* `ListsInv`: a channel is once in the list of its own listening point, those with a name of the peer
  before those that were accepted, which is why a look-up finds the same one again (`SamePath`);
* `ListensInv` and `SocketInv`: what the provider still listens to, and the socket of a UDP channel;
* `CountInv`: a channel has as many references as holders (a transaction, deferred notifications, a
  list), and the memory is free exactly when there is none;
* `ClosingInv`: `belle_sip_listening_point_clean_channels()` has closed the channels before its place
  in the list. When it frees the list, it has closed all of them, and the notification of a
  disconnection that comes later finds `force_close` set and releases nothing; `ReleasedOnce` needs
  this because the two releases can be many steps apart.

Each step either changes one channel (`OneChannelKeeps`) or takes channels out of a list, adds one, or
leaves the lists (`ThinnedLists`, `AddedLists`, `KeptLists`).

`ListLemmas` has what `Runtime_proofs`, `ListeningPoints_proofs` and `Provider_proofs` need of lists. That a set of places
has a least one follows from the order of the natural numbers being well-founded.

These rest on the assumptions stated by the modules (`DialogAssumption`, `ForkingAssumption`,
`DispatchAssumption`, `AuthenticationAssumption`, `HttpAssumption`, `MainLoopAssumption`, `ObjectSystemAssumption`,
`ChannelAssumption`, `OutputAssumption`, `ListeningPointsAssumption`).

Only model-checked: liveness (`TransactionsEnd`, `ChannelSettles`,
`QueuedRequestSent`, `UnacknowledgedEnds`, `DueIsServed`, `Authenticated`, `ResolutionEnds`), which the prover cannot
treat; and everything about the other modules. Of these,
what concerns texts, packets and messages (`SentWhole`, `ReadsBack`, `ReceivedWhole`, `PushedIsRead`,
`ConfiguredAsWritten`) is about recursive definitions over data, for which the prover has
no induction; `Resolver` (`ContextsReclaimed`, `ToldInOrder`) releases contexts by mutually recursive
operators, which the prover does not take, nor the recursive operator with which `DnsResolver` goes
on (`AskedBeforeGivingUp`, `AnswersTheQuestion`). `Messages` (`ResponseMatches`, `ReachableBack`) fills
responses in by folds whose operator is a parameter, which no prover instantiates.

## 5. Not modelled

* REGISTER in `OneOutcome`: the code reports both an I/O error and a timeout for it.
* SUBSCRIBE dialogs, route sets and targets, privacy, PRACK.
* The application starts no INVITE while the first INVITE goes on, and queues nothing in a dialog
  that is not established; `belle_sip_dialog_create_request()` does not enforce this.
* A dialog deleted by the application from `process_response_event` while its 2xx is not
  ACKed (the code then uses a NULL request); in `Forking`, a response without a To tag when
  the dialog has one (`strcmp()` of NULL).
* The delays of the refresher's timer (`obtained_expires*900`, `retry_after`), its lists of
  auth events, requests without any expiration time, and applications that call the
  refresher from inside its other callbacks, where the call of the listener is the last
  thing the handler does and so the same as a call made later.
* Numbers written to and read from text, but for the digits of escapes; accessors of headers,
  which macros generate; the lexer, which ANTLR generates from the grammar.
* In `dns.c`: `dns_addrinfo` (unused by belle-sip), the command line, the cache, recursion
  from the root servers, smart lookups. In `belle_sip_resolver.c`: the fallback to
  `getaddrinfo()` in a thread, which no build compiles.
* TLS and tunnel transports: the handshake belongs to polarssl, the tunnel to an external
  library; a TLS channel is a stream channel whose connection takes more round trips.
* MD5, certificates, wake locks, portability wrappers, tx_delay (a testing aid of the
  channel), mobile background tasks, type descriptions.

## 6. Plan

1. Done: transactions, dialog, channel, refresher (model, runs, proofs); provider, main loop,
   object system and listening points (model, runs, proofs of their safety properties); names;
   everything that is written and read (model, runs).
2. Proofs: done for the safety properties of every component in item 1 but names and what is
   written and read. What is left needs induction over data, recursive operators or folds (section 4).
3. Composition of `Channel` with client transactions, refining the channel that
   `ClientTransaction` assumes; of `ChannelOutput` with `ChannelInput`, for keep-alives
   written into the middle of a message; SUBSCRIBE dialogs.
