--------------------------- MODULE ListeningPoints ---------------------------
(***************************************************************************)
(* Listening points and the channels they own (listeningpoint.c,           *)
(* transports/udp_listeningpoint.c, transports/stream_listeningpoint.c,    *)
(* transports/tls_listeningpoint_polarssl.c), with the provider's choice   *)
(* of a channel for a hop and what it does when a channel fails            *)
(* (provider.c). The channels of a UDP listening point share its socket;   *)
(* a stream listening point accepts connections.                           *)
(***************************************************************************)
EXTENDS Integers, Sequences, FiniteSets, SequencesExt

CONSTANTS
    Peers,     \* remote parties, each with one host name and one address
    Chans,     \* memory of channels
    MaxGen,    \* bound on the sockets the UDP listening point opens
    MaxDeferred,  \* bound on the notifications of a channel that are deferred
    SendsInCallback  \* whether the application sends when it is told of an I/O error

LPs == {"UDP", "TCP"}
Closed == 0    \* the descriptor -1; open sockets are numbered from 1
Nobody == "none"

ASSUME ListeningPointsAssumption ==
    /\ MaxGen \in Nat /\ MaxDeferred \in Nat /\ SendsInCallback \in BOOLEAN
    /\ Peers # {} /\ Nobody \notin Chans \cup Peers

VARIABLES
    lp,        \* of each listening point: its socket, and its channels in order
    chans,      \* the fields of each channel
    held,      \* the channels a transaction has a reference to
    deferred,  \* how many state notifications of each channel are deferred
    cleaning   \* the clean_channels() under way: its listening point, where it is, what follows

listeningVars == <<lp, chans, held, deferred, cleaning>>

Free ==
    [ref |-> 0, owner |-> Nobody, peer |-> Nobody, has_name |-> FALSE, current_peer |-> FALSE,
     state |-> "FREE", sock |-> Closed, force_close |-> FALSE, listens |-> FALSE]

Listed(l) == {lp[l].channels[i] : i \in DOMAIN lp[l].channels}

\* No handler of the main loop is under way, or its call of the listeners is.
Quiet == cleaning.lp = Nobody
InCallback == cleaning.lp # Nobody /\ cleaning.at # Nobody

(***************************************************************************)
(* References.                                                             *)
(***************************************************************************)
Ref(f, c) == [f EXCEPT ![c].ref = @ + 1]
Unref(f, c) == IF f[c].ref = 1 THEN [f EXCEPT ![c] = Free] ELSE [f EXCEPT ![c].ref = @ - 1]

(***************************************************************************)
(* Finding and creating a channel.                                         *)
(***************************************************************************)
\* belle_sip_channel_matches(), for a hop that names p by its host name or by its address, or
\* for the source address of a datagram: an address also matches a channel made for the name,
\* once that is resolved.
belle_sip_channel_matches(c, p, how) ==
    /\ chans[c].peer = p
    /\ \/ how = "name" /\ chans[c].has_name
       \/ how = "address" /\ ~chans[c].has_name
       \/ how # "name" /\ chans[c].current_peer

\* belle_sip_channel_find_from_list_with_addrinfo(): the first one in the list.
FindChannel(l, p, how) ==
    LET list == lp[l].channels
        found == {i \in DOMAIN list : belle_sip_channel_matches(list[i], p, how)}
    IN IF found = {} THEN Nobody ELSE list[Min(found)]

\* Mistake to detect: channels with a name are not put in front.
add_channel_last(list, c, named) == Append(list, c)

\* belle_sip_listening_point_add_channel()
add_channel(list, c, named) == IF named THEN <<c>> \o list ELSE Append(list, c)

NewChannel(l, p, named, state) ==
    [ref |-> 1, owner |-> l, peer |-> p, has_name |-> named, current_peer |-> state = "READY",
     state |-> state, sock |-> IF l = "UDP" THEN lp[l].sock ELSE Closed,
     force_close |-> FALSE, listens |-> TRUE]

\* A transaction asks for a channel to p and keeps a reference to it: also from a listener
\* that is told of an I/O error.
belle_sip_provider_get_channel(l, p, byName, c) ==
    LET found == FindChannel(l, p, IF byName THEN "name" ELSE "address") IN
    /\ Quiet \/ (SendsInCallback /\ InCallback)
    /\ \/ /\ found # Nobody /\ c = found /\ c \notin held
          /\ chans' = Ref(chans, c)
          /\ UNCHANGED lp
       \/ /\ found = Nobody /\ chans[c].state = "FREE"
          /\ chans' = Ref([chans EXCEPT ![c] = NewChannel(l, p, byName, "INIT")], c)
          /\ lp' = [lp EXCEPT ![l].channels = add_channel(@, c, byName)]
    /\ held' = held \cup {c}
    /\ UNCHANGED <<deferred, cleaning>>

\* The transaction ends.
ReleaseTransaction(c) ==
    /\ Quiet /\ c \in held
    /\ held' = held \ {c}
    /\ chans' = Unref(chans, c)
    /\ UNCHANGED <<lp, deferred, cleaning>>

(***************************************************************************)
(* Channels come up and fail.                                              *)
(***************************************************************************)
\* The name is resolved, if there is one, and the connection made.
Connected(c) ==
    /\ Quiet /\ chans[c].state = "INIT"
    /\ chans' = [chans EXCEPT ![c].state = "READY", ![c].current_peer = TRUE]
    /\ UNCHANGED <<lp, held, deferred, cleaning>>

\* channel_set_state(ERROR): the listeners are called later.
Failed(c) ==
    /\ Quiet /\ chans[c].state # "FREE" /\ deferred[c] < MaxDeferred
    /\ c \in held \/ chans[c].state # "DISCONNECTED"
    /\ chans' = Ref([chans EXCEPT ![c].state = "ERROR"], c)
    /\ deferred' = [deferred EXCEPT ![c] = @ + 1]
    /\ UNCHANGED <<lp, held, cleaning>>

\* Mistake to detect: a channel is released once for every notification.
release_twice(f, c) ==
    IF f[c].force_close THEN f ELSE Unref([f EXCEPT ![c].listens = FALSE], c)

\* The provider's channel_state_changed(), if it still listens: it releases the channel, unless
\* the listening point is closing it.
release_channel(f, c) ==
    IF f[c].listens /\ ~f[c].force_close
      THEN Unref([f EXCEPT ![c].listens = FALSE], c) ELSE f

\* belle_sip_list_remove(): the list is left as it is if the channel is not there.
belle_sip_list_remove(list, c) ==
    IF \E i \in DOMAIN list : list[i] = c
      THEN RemoveAt(list, CHOOSE i \in DOMAIN list : list[i] = c) ELSE list

Unlisted(f, c) ==
    IF f[c].listens /\ ~f[c].force_close
      THEN [lp EXCEPT ![f[c].owner].channels = belle_sip_list_remove(@, c)] ELSE lp

\* channel_invoke_state_listener_defered()
NotifyDeferred(c) ==
    /\ Quiet /\ deferred[c] > 0
    /\ lp' = Unlisted(chans, c)
    /\ chans' = Unref(release_channel(chans, c), c)
    /\ deferred' = [deferred EXCEPT ![c] = @ - 1]
    /\ UNCHANGED <<held, cleaning>>

\* End of stream, or the inactivity timer: DISCONNECTED is notified at once.
Disconnected(c) ==
    /\ Quiet /\ chans[c].state \in {"READY", "ERROR"}
    /\ lp' = Unlisted(chans, c)
    /\ chans' = release_channel([chans EXCEPT ![c].state = "DISCONNECTED"], c)
    /\ UNCHANGED <<held, deferred, cleaning>>

\* keep_alive_timer_func(): the channels on which it cannot be sent go to ERROR.
KeepAlive(l, failing) ==
    /\ Quiet /\ failing # {}
    /\ failing \subseteq {c \in Listed(l) : chans[c].state = "READY" /\ deferred[c] < MaxDeferred}
    /\ chans' = [c \in Chans |-> IF c \in failing
                                  THEN [chans[c] EXCEPT !.state = "ERROR", !.ref = @ + 1]
                                  ELSE chans[c]]
    /\ deferred' = [c \in Chans |-> deferred[c] + IF c \in failing THEN 1 ELSE 0]
    /\ UNCHANGED <<lp, held, cleaning>>

(***************************************************************************)
(* Input.                                                                  *)
(***************************************************************************)
\* on_udp_data(): the datagram goes to the channel of its address, made if there is none.
on_udp_data(p, c) ==
    LET found == FindChannel("UDP", p, "datagram") IN
    /\ Quiet /\ lp["UDP"].sock # Closed
    /\ \/ /\ found # Nobody /\ c = found
          /\ UNCHANGED <<lp, chans>>
       \/ /\ found = Nobody /\ chans[c].state = "FREE"
          /\ chans' = [chans EXCEPT ![c] = NewChannel("UDP", p, FALSE, "READY")]
          /\ lp' = [lp EXCEPT !["UDP"].channels = add_channel(@, c, FALSE)]
    /\ UNCHANGED <<held, deferred, cleaning>>

\* on_new_connection() of the TCP listening point.
on_new_connection(p, c) ==
    /\ Quiet /\ lp["TCP"].sock # Closed /\ chans[c].state = "FREE"
    /\ chans' = [chans EXCEPT ![c] = NewChannel("TCP", p, FALSE, "READY")]
    /\ lp' = [lp EXCEPT !["TCP"].channels = add_channel(@, c, FALSE)]
    /\ UNCHANGED <<held, deferred, cleaning>>

\* accept() fails: the server socket is closed and set up again, which may fail. No channel uses
\* it, and the new one is not told from the old one.
AcceptFails(ok) ==
    /\ Quiet /\ lp["TCP"].sock # Closed
    /\ lp' = [lp EXCEPT !["TCP"].sock = IF ok THEN @ ELSE Closed]
    /\ UNCHANGED <<chans, held, deferred, cleaning>>

(***************************************************************************)
(* belle_sip_listening_point_clean_channels(), one channel at a time since *)
(* each one calls the listeners.                                           *)
(***************************************************************************)
StartCleaning(l, next) ==
    cleaning' = [lp |-> l, next |-> next, at |-> Nobody,
                 todo |-> IF lp[l].channels = <<>> THEN Nobody ELSE Head(lp[l].channels)]

belle_sip_provider_clean_channels(l) ==
    /\ Quiet /\ lp[l].channels # <<>>
    /\ StartCleaning(l, "keep")
    /\ UNCHANGED <<lp, chans, held, deferred>>

\* recvfrom() fails in on_udp_data(): the socket is closed, ...
RecvFails ==
    /\ Quiet /\ lp["UDP"].sock # Closed /\ lp["UDP"].sock < MaxGen
    /\ StartCleaning("UDP", "reopen")
    /\ UNCHANGED <<lp, chans, held, deferred>>

\* belle_sip_channel_force_close() of the next channel: its listeners are called.
CleanNext ==
    LET c == cleaning.todo IN
    /\ cleaning.lp # Nobody /\ cleaning.at = Nobody /\ c # Nobody
    /\ chans' = [chans EXCEPT ![c].force_close = TRUE, ![c].state = "DISCONNECTED"]
    /\ cleaning' = [cleaning EXCEPT !.at = c]
    /\ UNCHANGED <<lp, held, deferred>>

After(list, c) ==
    LET i == CHOOSE n \in DOMAIN list : list[n] = c IN
    IF i = Len(list) THEN Nobody ELSE list[i + 1]

CleanReturn ==
    /\ InCallback
    /\ cleaning' = [cleaning EXCEPT !.at = Nobody,
                                    !.todo = After(lp[cleaning.lp].channels, cleaning.at)]
    /\ UNCHANGED <<lp, chans, held, deferred>>

emptied(list) == <<>>

\* The list is freed with its references; ... the UDP socket is opened again, or cannot be.
CleanEnd(ok) ==
    LET l == cleaning.lp
        s == lp[l].sock IN
    /\ cleaning.lp # Nobody /\ cleaning.at = Nobody /\ cleaning.todo = Nobody
    /\ chans' = [c \in Chans |-> IF c \in Listed(l) THEN Unref(chans, c)[c] ELSE chans[c]]
    /\ lp' = [lp EXCEPT ![l].channels = emptied(@),
                        ![l].sock = IF cleaning.next = "keep" THEN s
                                    ELSE IF ok THEN s + 1 ELSE Closed]
    /\ cleaning' = [lp |-> Nobody, next |-> Nobody, at |-> Nobody, todo |-> Nobody]
    /\ UNCHANGED <<held, deferred>>

ListeningInit ==
    /\ lp = [l \in LPs |-> [sock |-> 1, channels |-> <<>>]]
    /\ chans = [c \in Chans |-> Free] /\ held = {} /\ deferred = [c \in Chans |-> 0]
    /\ cleaning = [lp |-> Nobody, next |-> Nobody, at |-> Nobody, todo |-> Nobody]

ListeningNext ==
    \/ \E c \in Chans :
         \/ \E l \in LPs, p \in Peers, byName \in BOOLEAN :
              belle_sip_provider_get_channel(l, p, byName, c)
         \/ ReleaseTransaction(c) \/ Connected(c) \/ Failed(c) \/ NotifyDeferred(c)
         \/ Disconnected(c)
         \/ \E p \in Peers : on_udp_data(p, c) \/ on_new_connection(p, c)
    \/ \E l \in LPs, failing \in SUBSET Chans : KeepAlive(l, failing)
    \/ \E l \in LPs : belle_sip_provider_clean_channels(l)
    \/ RecvFails \/ CleanNext \/ CleanReturn
    \/ \E ok \in BOOLEAN : AcceptFails(ok) \/ CleanEnd(ok)

ListeningSpec == ListeningInit /\ [][ListeningNext]_listeningVars

(***************************************************************************)
(* Properties.                                                             *)
(***************************************************************************)
Holders(c) ==
    (IF c \in held THEN 1 ELSE 0) + deferred[c]
        + Cardinality({l \in LPs : c \in Listed(l)})

\* A channel is freed exactly when no transaction, no deferred notification and no listening
\* point has it, however many errors, disconnections and clean-ups meet: the provider releases
\* it once (channel_state_changed(), belle_sip_listening_point_remove_channel()). The channels of
\* the UDP listening point use the socket it reads: none survives in the list when it is replaced.
ReleasedOnce ==
    /\ \A c \in Chans : chans[c].ref = Holders(c)
    /\ \A c \in Listed("UDP") : chans[c].sock = lp["UDP"].sock

\* A datagram is given to the channel by which requests go to the same party, if that channel
\* is resolved and still in the list, even when an anonymous one was made for the party first.
SamePath ==
    \A p \in Peers :
        LET c == FindChannel("UDP", p, "datagram") IN
        (c # Nobody /\ ~chans[c].has_name) =>
            ~\E d \in Listed("UDP") :
                chans[d].peer = p /\ chans[d].has_name /\ chans[d].current_peer
=============================================================================
