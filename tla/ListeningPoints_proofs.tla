------------------------ MODULE ListeningPoints_proofs ------------------------
(***************************************************************************)
(* Theorems about ListeningPoints, for any parties, memory and sockets: a  *)
(* channel is released once, and a party is reached over one path.         *)
(***************************************************************************)
EXTENDS ListeningPoints, FiniteSetTheorems, ListLemmas

ChannelStates == {"FREE", "INIT", "READY", "ERROR", "DISCONNECTED"}

Fields ==
    [ref : Nat, owner : LPs \cup {Nobody}, peer : Peers \cup {Nobody}, has_name : BOOLEAN,
     current_peer : BOOLEAN, state : ChannelStates, sock : Nat, force_close : BOOLEAN,
     listens : BOOLEAN]

ListeningTypeOK ==
    /\ lp \in [LPs -> [sock : Nat, channels : Seq(Chans)]]
    /\ chans \in [Chans -> Fields]
    /\ held \in SUBSET Chans
    /\ deferred \in [Chans -> Nat]
    /\ cleaning \in [lp : LPs \cup {Nobody}, next : {"keep", "reopen", Nobody},
                     at : Chans \cup {Nobody}, todo : Chans \cup {Nobody}]

\* A channel is once in the list of its listening point, which has the channels with a name first.
ListsInv ==
    \A l \in LPs :
        /\ \A i, j \in 1..Len(lp[l].channels) :
             lp[l].channels[i] = lp[l].channels[j] => i = j
        /\ \A i \in 1..Len(lp[l].channels) : chans[lp[l].channels[i]].owner = l
        /\ \A i, j \in 1..Len(lp[l].channels) :
             i < j /\ chans[lp[l].channels[j]].has_name => chans[lp[l].channels[i]].has_name

\* The provider listens to the channels in the lists, and to those that a listening point closed.
ListensInv ==
    \A c \in Chans :
        chans[c].listens /\ ~chans[c].force_close =>
          chans[c].owner \in LPs /\ c \in Listed(chans[c].owner)

IsListed(c) == \E l \in LPs : c \in Listed(l)

\* The references to a channel, if it is in one list at the most.
Count(c) ==
    (IF c \in held THEN 1 ELSE 0) + deferred[c] + (IF IsListed(c) THEN 1 ELSE 0)

\* Memory is free when, and only when, nothing refers to it.
Sane(x) ==
    /\ x.ref = 0 => x = Free
    /\ x.state = "FREE" => x.ref = 0

CountInv == \A c \in Chans : chans[c].ref = Count(c) /\ Sane(chans[c])

\* The channels of the UDP listening point use its socket.
SocketInv ==
    \A i \in 1..Len(lp["UDP"].channels) : chans[lp["UDP"].channels[i]].sock = lp["UDP"].sock

\* A clean-up has closed the first n channels of the list, and goes on with the next one.
Closing(n) ==
    LET list == lp[cleaning.lp].channels IN
    /\ n \in 0..Len(list)
    /\ \A i \in 1..n : chans[list[i]].force_close
    /\ IF cleaning.at # Nobody THEN n # 0 /\ list[n] = cleaning.at
       ELSE cleaning.todo = IF n = Len(list) THEN Nobody ELSE list[n + 1]

ClosingInv ==
    IF Quiet THEN cleaning.at = Nobody ELSE \E n \in 0..Len(lp[cleaning.lp].channels) : Closing(n)

Inv == /\ ListeningTypeOK /\ ListsInv /\ ListensInv /\ CountInv /\ SocketInv /\ ClosingInv
-----------------------------------------------------------------------------
(***************************************************************************)
(* Lists.                                                                  *)
(***************************************************************************)
LEMMA ListTypes ==
    ASSUME ListeningTypeOK, NEW l \in LPs
    PROVE  /\ lp[l].channels \in Seq(Chans) /\ lp[l].sock \in Nat
           /\ Len(lp[l].channels) \in Nat /\ DOMAIN lp[l].channels = 1..Len(lp[l].channels)
           /\ \A i \in 1..Len(lp[l].channels) : lp[l].channels[i] \in Chans
           /\ Listed(l) \subseteq Chans
<1>1. lp[l] \in [sock : Nat, channels : Seq(Chans)]
  BY DEF ListeningTypeOK
<1>2. lp[l].channels \in Seq(Chans) /\ lp[l].sock \in Nat
  BY <1>1
<1>3. /\ Len(lp[l].channels) \in Nat /\ DOMAIN lp[l].channels = 1..Len(lp[l].channels)
      /\ \A i \in 1..Len(lp[l].channels) : lp[l].channels[i] \in Chans
  BY <1>2
<1> QED
  BY <1>2, <1>3 DEF Listed

\* A channel is put in front of the others if it has a name, and behind them if not.
LEMMA AddedInFront ==
    ASSUME NEW list \in Seq(Chans), NEW c \in Chans,
           NEW new, new = <<c>> \o list, NEW n, n = Len(list)
    PROVE  /\ new \in Seq(Chans) /\ n \in Nat /\ Len(new) = n + 1
           /\ 1 \in 1..(n + 1) /\ new[1] = c
           /\ \A i \in 1..(n + 1) : i # 1 => i - 1 \in 1..n /\ new[i] = list[i - 1]
           /\ \A a \in 1..n : a + 1 \in 1..(n + 1) /\ new[a + 1] = list[a]
<1>1. <<c>> \in Seq(Chans) /\ Len(<<c>>) = 1 /\ <<c>>[1] = c
  OBVIOUS
<1>2. new \in Seq(Chans) /\ n \in Nat /\ Len(new) = n + 1 /\ new[1] = c
  BY <1>1
<1>3. \A i \in 2..(n + 1) : new[i] = list[i - 1]
  BY <1>1
<1>4. ASSUME NEW i \in 1..(n + 1), i # 1
      PROVE  i - 1 \in 1..n /\ new[i] = list[i - 1]
  <2>1. i \in 2..(n + 1) /\ i - 1 \in 1..n
    BY <1>2, <1>4
  <2> QED
    BY <1>3, <2>1
<1>5. ASSUME NEW a \in 1..n PROVE a + 1 \in 1..(n + 1) /\ new[a + 1] = list[a]
  <2>1. a + 1 \in 2..(n + 1) /\ (a + 1) - 1 = a
    BY <1>2
  <2> QED
    BY <1>3, <2>1
<1>6. 1 \in 1..(n + 1)
  BY <1>2
<1> QED
  BY <1>2, <1>4, <1>5, <1>6

LEMMA AddedBehind ==
    ASSUME NEW list \in Seq(Chans), NEW c \in Chans,
           NEW new, new = Append(list, c), NEW n, n = Len(list)
    PROVE  /\ new \in Seq(Chans) /\ n \in Nat /\ Len(new) = n + 1
           /\ n + 1 \in 1..(n + 1) /\ new[n + 1] = c
           /\ \A i \in 1..(n + 1) : i # n + 1 => i \in 1..n /\ new[i] = list[i]
           /\ \A a \in 1..n : a \in 1..(n + 1) /\ new[a] = list[a]
OBVIOUS

\* A list without some of the channels of another one, in the same order.
Thinner(new, old) ==
    /\ \A i, j \in 1..Len(new) : new[i] = new[j] => i = j
    /\ \A i, j \in 1..Len(new) :
         i < j => \E a, b \in 1..Len(old) : a < b /\ new[i] = old[a] /\ new[j] = old[b]
    /\ \A i \in 1..Len(new) : \E a \in 1..Len(old) : new[i] = old[a]

\* The list without one of its channels: the others are in the same order.
LEMMA RemovedChannel ==
    ASSUME NEW list \in Seq(Chans), NEW c, \E i \in 1..Len(list) : list[i] = c,
           \A i, j \in 1..Len(list) : list[i] = list[j] => i = j,
           NEW rest, rest = belle_sip_list_remove(list, c)
    PROVE  /\ rest \in Seq(Chans)
           /\ \A i \in 1..Len(rest) : rest[i] # c
           /\ \A a \in 1..Len(list) : list[a] # c => \E i \in 1..Len(rest) : rest[i] = list[a]
           /\ Thinner(rest, list)
<1> DEFINE n == Len(list)
           at == CHOOSE i \in DOMAIN list : list[i] = c
<1>1. n \in Nat /\ DOMAIN list = 1..n
  OBVIOUS
<1>2. \E i \in DOMAIN list : list[i] = c
  OBVIOUS
<1>3. at \in 1..n /\ list[at] = c
  BY <1>1, <1>2
<1>4. rest = RemoveAt(list, at)
  BY <1>2 DEF belle_sip_list_remove
<1> DEFINE left == RemoveAt(list, at)
<1> HIDE DEF at
<1>a. /\ left \in Seq(Chans) /\ Len(left) = n - 1
      /\ \A j \in 1..(n - 1) : left[j] = IF j < at THEN list[j] ELSE list[j + 1]
  BY <1>3, RemoveAtProperties
<1>b. /\ {left[j] : j \in DOMAIN left} = {list[j] : j \in DOMAIN list} \ {list[at]}
      /\ \A j, k \in 1..Len(left) : left[j] = left[k] => j = k
  BY <1>3, RemoveAtElements
<1>c. rest = left
  BY <1>4
<1> HIDE DEF left
<1>5. /\ rest \in Seq(Chans) /\ Len(rest) = n - 1
      /\ \A j \in 1..(n - 1) : rest[j] = IF j < at THEN list[j] ELSE list[j + 1]
  BY <1>a, <1>c
<1>6. /\ \A i \in 1..Len(rest) : rest[i] # c
      /\ \A a \in 1..n : list[a] # c => \E i \in 1..Len(rest) : rest[i] = list[a]
      /\ \A i, j \in 1..Len(rest) : rest[i] = rest[j] => i = j
  <2>1. DOMAIN left = 1..(n - 1)
    BY <1>1, <1>a
  <2> DEFINE others == {left[i] : i \in 1..(n - 1)}
             all == {list[i] : i \in 1..n}
  <2>a. others = all \ {c}
    BY <1>1, <1>3, <1>b, <2>1
  <2>b. (\A i \in 1..(n - 1) : left[i] \in others) /\ (\A a \in 1..n : list[a] \in all)
    OBVIOUS
  <2>c. \A x \in others : \E i \in 1..(n - 1) : left[i] = x
    OBVIOUS
  <2> HIDE DEF others, all
  <2>2. \A i \in 1..(n - 1) : left[i] # c
    BY <2>a, <2>b
  <2>3. \A a \in 1..n : list[a] # c => \E i \in 1..(n - 1) : left[i] = list[a]
    BY <2>a, <2>b, <2>c
  <2>4. \A i, j \in 1..Len(rest) : rest[i] = rest[j] => i = j
    BY <1>b, <1>c
  <2> QED
    BY <1>a, <1>c, <2>2, <2>3, <2>4
<1>7. \A i \in 1..Len(rest) : \E a \in 1..n : rest[i] = list[a]
  BY <1>1, <1>3, <1>5
<1>8. ASSUME NEW i \in 1..Len(rest), NEW j \in 1..Len(rest), i < j
      PROVE  \E a, b \in 1..n : a < b /\ rest[i] = list[a] /\ rest[j] = list[b]
  <2> DEFINE a == IF i < at THEN i ELSE i + 1
             b == IF j < at THEN j ELSE j + 1
  <2>1. a \in 1..n /\ b \in 1..n /\ a < b
    BY <1>1, <1>3, <1>5, <1>8
  <2>2. rest[i] = list[a] /\ rest[j] = list[b]
    BY <1>5
  <2> HIDE DEF a, b
  <2> QED
    BY <2>1, <2>2
<1>9. \A i, j \in 1..Len(rest) :
        i < j => \E a, b \in 1..n : a < b /\ rest[i] = list[a] /\ rest[j] = list[b]
  BY <1>8
<1> QED
  BY <1>5, <1>6, <1>7, <1>9, Zenon DEF Thinner

-----------------------------------------------------------------------------
(***************************************************************************)
(* References.                                                             *)
(***************************************************************************)
\* y is what is left of the channel x: nothing, or all but its references and its state; the
\* provider may have ceased to listen to it, and its listening point may have closed it.
Same(x, y) ==
    \/ y = Free
    \/ /\ y.owner = x.owner /\ y.has_name = x.has_name /\ y.sock = x.sock
       /\ y.listens => x.listens
       /\ x.force_close => y.force_close

LEMMA FreeIsFields == Free \in Fields /\ Free.ref = 0 /\ Free.listens = FALSE
BY DEF Free, Fields, ChannelStates, Closed

LEMMA RefFields ==
    ASSUME NEW f \in [Chans -> Fields], NEW c \in Chans, f[c].state # "FREE"
    PROVE  /\ Ref(f, c) \in [Chans -> Fields]
           /\ \A d \in Chans : d # c => Ref(f, c)[d] = f[d]
           /\ Ref(f, c)[c].ref = f[c].ref + 1 /\ Same(f[c], Ref(f, c)[c])
           /\ Sane(Ref(f, c)[c])
<1>1. PICK x : x = f[c]
  OBVIOUS
<1>2. x \in Fields
  BY <1>1
<1>3. PICK n \in Nat : n = x.ref + 1 /\ n # 0
  BY <1>2 DEF Fields
<1>4. PICK y : y = [x EXCEPT !.ref = n]
  OBVIOUS
<1>5. Ref(f, c) = [f EXCEPT ![c] = y]
  BY <1>1, <1>3, <1>4 DEF Ref
<1>6. /\ y \in Fields /\ y.ref = n /\ y.owner = x.owner /\ y.has_name = x.has_name
      /\ y.sock = x.sock /\ y.listens = x.listens /\ y.force_close = x.force_close
      /\ y.state = x.state
  BY <1>2, <1>3, <1>4 DEF Fields
<1> QED
  BY <1>1, <1>3, <1>5, <1>6 DEF Same, Sane

LEMMA UnrefFields ==
    ASSUME NEW f \in [Chans -> Fields], NEW c \in Chans, f[c].ref # 0, f[c].state # "FREE"
    PROVE  /\ Unref(f, c) \in [Chans -> Fields]
           /\ \A d \in Chans : d # c => Unref(f, c)[d] = f[d]
           /\ Unref(f, c)[c].ref = f[c].ref - 1 /\ Same(f[c], Unref(f, c)[c])
           /\ Sane(Unref(f, c)[c])
           /\ Unref(f, c)[c].ref # 0 => Unref(f, c)[c].state = f[c].state
<1>1. CASE f[c].ref = 1
  <2>1. Unref(f, c) = [f EXCEPT ![c] = Free]
    BY <1>1 DEF Unref
  <2> QED
    BY <1>1, <2>1, FreeIsFields DEF Same, Sane
<1>2. CASE f[c].ref # 1
  <2>1. PICK x : x = f[c]
    OBVIOUS
  <2>2. x \in Fields
    BY <2>1
  <2>3. PICK n \in Nat : n = x.ref - 1 /\ n # 0
    BY <1>2, <2>1, <2>2 DEF Fields
  <2>4. PICK y : y = [x EXCEPT !.ref = n]
    OBVIOUS
  <2>5. Unref(f, c) = [f EXCEPT ![c] = y]
    BY <1>2, <2>1, <2>3, <2>4 DEF Unref
  <2>6. /\ y \in Fields /\ y.ref = n /\ y.owner = x.owner /\ y.has_name = x.has_name
        /\ y.sock = x.sock /\ y.listens = x.listens /\ y.force_close = x.force_close
        /\ y.state = x.state
    BY <2>2, <2>3, <2>4 DEF Fields
  <2>7. Unref(f, c)[c] = y
    BY <2>5
  <2> QED
    BY <2>1, <2>3, <2>5, <2>6, <2>7 DEF Same, Sane
<1> QED
  BY <1>1, <1>2

-----------------------------------------------------------------------------
(***************************************************************************)
(* The lists after a step.                                                 *)
(***************************************************************************)
\* A channel in a list is not free.
LEMMA ListedIsUsed ==
    ASSUME ListeningTypeOK, CountInv
    PROVE  \A c \in Chans : IsListed(c) => chans[c].ref # 0 /\ chans[c] # Free
<1> SUFFICES ASSUME NEW c \in Chans, IsListed(c)
             PROVE  chans[c].ref # 0 /\ chans[c] # Free
  OBVIOUS
<1>1. deferred[c] \in Nat
  BY DEF ListeningTypeOK
<1>2. PICK h \in 0..1 : h = IF c \in held THEN 1 ELSE 0
  OBVIOUS
<1>3. Count(c) = h + deferred[c] + 1
  BY <1>2 DEF Count
<1> QED
  BY <1>1, <1>2, <1>3, FreeIsFields DEF CountInv

LEMMA ListedIsUsedNext ==
    ASSUME ListeningTypeOK', CountInv'
    PROVE  \A c \in Chans : IsListed(c)' => chans'[c].ref # 0 /\ chans'[c] # Free
<1> SUFFICES ASSUME NEW c \in Chans, IsListed(c)'
             PROVE  chans'[c].ref # 0 /\ chans'[c] # Free
  OBVIOUS
<1>1. deferred'[c] \in Nat
  BY DEF ListeningTypeOK
<1>2. PICK h \in 0..1 : h = IF c \in held' THEN 1 ELSE 0
  OBVIOUS
<1>3. Count(c)' = h + deferred'[c] + 1
  BY <1>2 DEF Count
<1> QED
  BY <1>1, <1>2, <1>3, FreeIsFields DEF CountInv

\* The types of the lists after a step.
LEMMA ListTypesNext ==
    ASSUME ListeningTypeOK', NEW l \in LPs
    PROVE  /\ lp'[l].channels \in Seq(Chans) /\ lp'[l].sock \in Nat
           /\ Len(lp'[l].channels) \in Nat /\ DOMAIN lp'[l].channels = 1..Len(lp'[l].channels)
           /\ \A i \in 1..Len(lp'[l].channels) : lp'[l].channels[i] \in Chans
<1>1. lp'[l] \in [sock : Nat, channels : Seq(Chans)]
  BY DEF ListeningTypeOK
<1>2. lp'[l].channels \in Seq(Chans) /\ lp'[l].sock \in Nat
  BY <1>1
<1> QED
  BY <1>2

\* A step that puts no channel in a list and forgets none to which the provider listens.
LEMMA ThinnedLists ==
    ASSUME ListeningTypeOK, ListsInv, ListensInv, SocketInv, ListeningTypeOK', CountInv',
           \A l \in LPs : Thinner(lp'[l].channels, lp[l].channels),
           \A c \in Chans : Same(chans[c], chans'[c]),
           \A c \in Chans : \A l \in LPs :
             chans'[c].listens /\ ~chans'[c].force_close /\ c \in Listed(l) => c \in Listed(l)',
           lp'["UDP"].sock = lp["UDP"].sock \/ lp'["UDP"].channels = <<>>
    PROVE  ListsInv' /\ ListensInv' /\ SocketInv'
<1>1. ASSUME NEW l \in LPs, NEW i \in 1..Len(lp'[l].channels)
      PROVE  lp'[l].channels[i] \in Chans /\ chans'[lp'[l].channels[i]] # Free
  <2>1. PICK c \in Chans : c = lp'[l].channels[i]
    BY ListTypesNext
  <2>2. c \in Listed(l)'
    BY <2>1, ListTypesNext DEF Listed
  <2>3. IsListed(c)'
    BY <2>2 DEF IsListed
  <2> QED
    BY <2>1, <2>3, ListedIsUsedNext
<1>2. ASSUME NEW l \in LPs, NEW i \in 1..Len(lp'[l].channels)
      PROVE  LET x == chans[lp'[l].channels[i]]
                 y == chans'[lp'[l].channels[i]] IN
             y.owner = x.owner /\ y.has_name = x.has_name /\ y.sock = x.sock
  BY <1>1 DEF Same
<1>3. ListsInv'
  <2> SUFFICES ASSUME NEW l \in LPs
               PROVE  /\ \A i, j \in 1..Len(lp'[l].channels) :
                           lp'[l].channels[i] = lp'[l].channels[j] => i = j
                      /\ \A i \in 1..Len(lp'[l].channels) : chans'[lp'[l].channels[i]].owner = l
                      /\ \A i, j \in 1..Len(lp'[l].channels) :
                           i < j /\ chans'[lp'[l].channels[j]].has_name
                             => chans'[lp'[l].channels[i]].has_name
    BY DEF ListsInv
  <2>1. \A i, j \in 1..Len(lp'[l].channels) :
          lp'[l].channels[i] = lp'[l].channels[j] => i = j
    BY DEF Thinner
  <2> DEFINE old == lp[l].channels
  <2>a. /\ \A a \in 1..Len(old) : chans[old[a]].owner = l
        /\ \A a, b \in 1..Len(old) :
             a < b /\ chans[old[b]].has_name => chans[old[a]].has_name
    BY DEF ListsInv
  <2>b. Thinner(lp'[l].channels, old)
    OBVIOUS
  <2> HIDE DEF old
  <2>2. ASSUME NEW i \in 1..Len(lp'[l].channels)
        PROVE  chans'[lp'[l].channels[i]].owner = l
    <3>1. PICK a \in 1..Len(old) : lp'[l].channels[i] = old[a]
      BY <2>b DEF Thinner
    <3>2. chans[lp'[l].channels[i]].owner = l
      BY <2>a, <3>1
    <3> QED
      BY <1>2, <3>2
  <2>3. ASSUME NEW i \in 1..Len(lp'[l].channels), NEW j \in 1..Len(lp'[l].channels),
               i < j, chans'[lp'[l].channels[j]].has_name
        PROVE  chans'[lp'[l].channels[i]].has_name
    <3>1. PICK a \in 1..Len(old) : \E b \in 1..Len(old) :
            a < b /\ lp'[l].channels[i] = old[a] /\ lp'[l].channels[j] = old[b]
      BY <2>b, <2>3 DEF Thinner
    <3>2. PICK b \in 1..Len(old) :
            a < b /\ lp'[l].channels[i] = old[a] /\ lp'[l].channels[j] = old[b]
      BY <3>1
    <3>3. chans[old[b]].has_name
      BY <1>2, <2>3, <3>2
    <3>4. chans[old[a]].has_name
      BY <2>a, <3>2, <3>3
    <3> QED
      BY <1>2, <3>2, <3>4
  <2>4. \A i, j \in 1..Len(lp'[l].channels) :
          i < j /\ chans'[lp'[l].channels[j]].has_name => chans'[lp'[l].channels[i]].has_name
    BY <2>3
  <2>5. \A i \in 1..Len(lp'[l].channels) : chans'[lp'[l].channels[i]].owner = l
    BY <2>2
  <2> QED
    BY <2>1, <2>4, <2>5
<1>4. ListensInv'
  <2> SUFFICES ASSUME NEW c \in Chans, chans'[c].listens, ~chans'[c].force_close
               PROVE  \E l \in LPs : chans'[c].owner = l /\ c \in Listed(l)'
    BY Zenon DEF ListensInv, Listed
  <2>1. /\ chans'[c].owner = chans[c].owner
        /\ chans[c].listens /\ ~chans[c].force_close
    BY FreeIsFields DEF Same
  <2>2. PICK l \in LPs : chans[c].owner = l /\ c \in Listed(l)
    BY <2>1 DEF ListensInv
  <2>3. c \in Listed(l)'
    BY <2>2
  <2> QED
    BY <2>1, <2>2, <2>3
<1>5. SocketInv'
  <2> SUFFICES ASSUME NEW i \in 1..Len(lp'["UDP"].channels)
               PROVE  chans'[lp'["UDP"].channels[i]].sock = lp'["UDP"].sock
    BY DEF SocketInv
  <2>1. "UDP" \in LPs
    BY DEF LPs
  <2>2. lp'["UDP"].channels # <<>>
    OBVIOUS
  <2>3. PICK a \in 1..Len(lp["UDP"].channels) : lp'["UDP"].channels[i] = lp["UDP"].channels[a]
    BY <2>1 DEF Thinner
  <2>4. chans[lp'["UDP"].channels[i]].sock = lp["UDP"].sock
    BY <2>3 DEF SocketInv
  <2>5. chans'[lp'["UDP"].channels[i]].sock = chans[lp'["UDP"].channels[i]].sock
    BY <1>2, <2>1
  <2> QED
    BY <2>2, <2>4, <2>5
<1> QED
  BY <1>3, <1>4, <1>5

\* A step that leaves the lists as they are.
LEMMA KeptLists ==
    ASSUME ListeningTypeOK, ListsInv, ListensInv, SocketInv, ListeningTypeOK', CountInv',
           \A l \in LPs : lp'[l].channels = lp[l].channels,
           lp'["UDP"].sock = lp["UDP"].sock,
           \A c \in Chans : Same(chans[c], chans'[c])
    PROVE  ListsInv' /\ ListensInv' /\ SocketInv'
<1>1. ASSUME NEW l \in LPs
      PROVE  Thinner(lp'[l].channels, lp[l].channels) /\ Listed(l)' = Listed(l)
  BY <1>1 DEF ListsInv, Thinner, Listed
<1>2. \A c \in Chans : \A l \in LPs :
        chans'[c].listens /\ ~chans'[c].force_close /\ c \in Listed(l) => c \in Listed(l)'
  BY <1>1
<1>3. \A l \in LPs : Thinner(lp'[l].channels, lp[l].channels)
  BY <1>1
<1> QED
  BY <1>2, <1>3, ThinnedLists

\* The channels in the lists when one is added to the list of l.
LEMMA AddedIsListed ==
    ASSUME ListeningTypeOK, NEW l \in LPs, NEW c \in Chans, NEW named \in BOOLEAN,
           lp' = [lp EXCEPT ![l].channels = add_channel(@, c, named)]
    PROVE  /\ lp' \in [LPs -> [sock : Nat, channels : Seq(Chans)]]
           /\ \A k \in LPs : k # l => lp'[k] = lp[k]
           /\ lp'[l].sock = lp[l].sock
           /\ lp'[l].channels = add_channel(lp[l].channels, c, named)
           /\ Listed(l)' = Listed(l) \cup {c}
           /\ \A d \in Chans : IsListed(d)' <=> IsListed(d) \/ d = c
<1>1. PICK x \in [sock : Nat, channels : Seq(Chans)] : x = lp[l]
  BY DEF ListeningTypeOK
<1>2. PICK old \in Seq(Chans) : old = x.channels
  BY <1>1
<1>3. PICK new : new = add_channel(old, c, named)
  OBVIOUS
<1>4. PICK n \in Nat : n = Len(old)
  BY <1>2
<1>5. new \in Seq(Chans) /\ {new[i] : i \in DOMAIN new} = {old[i] : i \in DOMAIN old} \cup {c}
  <2>1. /\ new \in Seq(Chans) /\ Len(new) = n + 1
        /\ \A i \in 1..(n + 1) : new[i] = c \/ \E a \in 1..n : new[i] = old[a]
        /\ \A a \in 1..n : \E i \in 1..(n + 1) : new[i] = old[a]
        /\ \E i \in 1..(n + 1) : new[i] = c
    <3>1. CASE named
      <4>1. new = <<c>> \o old
        BY <1>3, <3>1, Zenon DEF add_channel
      <4>2. /\ new \in Seq(Chans) /\ Len(new) = n + 1 /\ 1 \in 1..(n + 1) /\ new[1] = c
            /\ \A i \in 1..(n + 1) : i # 1 => i - 1 \in 1..n /\ new[i] = old[i - 1]
            /\ \A a \in 1..n : a + 1 \in 1..(n + 1) /\ new[a + 1] = old[a]
        BY <1>4, <4>1, AddedInFront
      <4>3. \A i \in 1..(n + 1) : new[i] = c \/ \E a \in 1..n : new[i] = old[a]
        BY <4>2
      <4>4. \A a \in 1..n : \E i \in 1..(n + 1) : new[i] = old[a]
        BY <4>2
      <4> QED
        BY <4>2, <4>3, <4>4
    <3>2. CASE ~named
      <4>1. new = Append(old, c)
        BY <1>3, <3>2, Zenon DEF add_channel
      <4>2. /\ new \in Seq(Chans) /\ Len(new) = n + 1 /\ n + 1 \in 1..(n + 1) /\ new[n + 1] = c
            /\ \A i \in 1..(n + 1) : i # n + 1 => i \in 1..n /\ new[i] = old[i]
            /\ \A a \in 1..n : a \in 1..(n + 1) /\ new[a] = old[a]
        BY <1>4, <4>1, AddedBehind
      <4>3. \A i \in 1..(n + 1) : new[i] = c \/ \E a \in 1..n : new[i] = old[a]
        BY <4>2
      <4>4. \A a \in 1..n : \E i \in 1..(n + 1) : new[i] = old[a]
        BY <4>2
      <4> QED
        BY <4>2, <4>3, <4>4
    <3> QED
      BY <3>1, <3>2
  <2>2. DOMAIN new = 1..(n + 1) /\ DOMAIN old = 1..n
    BY <1>4, <2>1
  <2>3. {new[i] : i \in 1..(n + 1)} \subseteq {old[i] : i \in 1..n} \cup {c}
    BY <2>1
  <2>4. {old[i] : i \in 1..n} \cup {c} \subseteq {new[i] : i \in 1..(n + 1)}
    BY <2>1
  <2> QED
    BY <2>1, <2>2, <2>3, <2>4
<1>7. lp' = [lp EXCEPT ![l] = [x EXCEPT !.channels = new]]
  BY <1>1, <1>2, <1>3
<1>8. PICK y : y = [x EXCEPT !.channels = new]
  OBVIOUS
<1>9. y \in [sock : Nat, channels : Seq(Chans)] /\ y.sock = x.sock /\ y.channels = new
  BY <1>1, <1>5, <1>8
<1>10. lp' \in [LPs -> [sock : Nat, channels : Seq(Chans)]]
  BY <1>7, <1>8, <1>9 DEF ListeningTypeOK
<1>11. lp'[l] = y /\ \A k \in LPs : k # l => lp'[k] = lp[k]
  BY <1>7, <1>8 DEF ListeningTypeOK
<1>12. Listed(l)' = Listed(l) \cup {c}
  <2>1. Listed(l)' = {new[i] : i \in DOMAIN new}
    BY <1>9, <1>11 DEF Listed
  <2>2. Listed(l) = {old[i] : i \in DOMAIN old}
    BY <1>1, <1>2 DEF Listed
  <2> QED
    BY <1>5, <2>1, <2>2
<1>13. \A k \in LPs : k # l => Listed(k)' = Listed(k)
  BY <1>11 DEF Listed
<1>14. \A d \in Chans : IsListed(d)' <=> IsListed(d) \/ d = c
  BY <1>12, <1>13 DEF IsListed
<1> QED
  BY <1>1, <1>2, <1>3, <1>9, <1>10, <1>11, <1>12, <1>14

\* A step that adds a new channel to the list of l, in front if it has a name.
LEMMA AddedLists ==
    ASSUME ListeningTypeOK, ListsInv, ListensInv, SocketInv, CountInv, ListeningTypeOK', CountInv',
           NEW l \in LPs, NEW c \in Chans, NEW named \in BOOLEAN, ~IsListed(c),
           lp' = [lp EXCEPT ![l].channels = add_channel(@, c, named)],
           \A d \in Chans : d # c => chans'[d] = chans[d],
           chans'[c].owner = l, chans'[c].has_name = named,
           l = "UDP" => chans'[c].sock = lp["UDP"].sock
    PROVE  ListsInv' /\ ListensInv' /\ SocketInv'
<1> DEFINE old == lp[l].channels
           new == lp'[l].channels
           n == Len(old)
<1>1. /\ \A k \in LPs : k # l => lp'[k] = lp[k]
      /\ lp'[l].sock = lp[l].sock /\ new = add_channel(old, c, named)
      /\ Listed(l)' = Listed(l) \cup {c}
  BY AddedIsListed
<1>2. /\ old \in Seq(Chans) /\ n \in Nat /\ DOMAIN old = 1..n
      /\ \A i \in 1..n : old[i] \in Chans
  BY ListTypes
<1>a. n = Len(old)
  OBVIOUS
<1>b. old \in Seq(Chans) /\ n \in Nat /\ new = add_channel(old, c, named)
  BY <1>1, <1>2
<1> HIDE DEF old, new, n
<1>4. \A k \in LPs : c \notin Listed(k)
  BY DEF IsListed
<1>5. \A k \in LPs : \A i \in 1..Len(lp[k].channels) :
        /\ lp[k].channels[i] \in Chans /\ lp[k].channels[i] # c
        /\ chans'[lp[k].channels[i]] = chans[lp[k].channels[i]]
  <2> SUFFICES ASSUME NEW k \in LPs, NEW i \in 1..Len(lp[k].channels)
               PROVE  /\ lp[k].channels[i] \in Chans /\ lp[k].channels[i] # c
                      /\ chans'[lp[k].channels[i]] = chans[lp[k].channels[i]]
    OBVIOUS
  <2>1. lp[k].channels[i] \in Chans /\ lp[k].channels[i] \in Listed(k)
    BY ListTypes DEF Listed
  <2> QED
    BY <1>4, <2>1
<1>6. /\ \A i, j \in 1..n : old[i] = old[j] => i = j
      /\ \A i \in 1..n : old[i] # c /\ chans'[old[i]].owner = l
      /\ \A i, j \in 1..n : i < j /\ chans'[old[j]].has_name => chans'[old[i]].has_name
  BY <1>5 DEF ListsInv, old, n
<1>7. l = "UDP" => /\ chans'[c].sock = lp["UDP"].sock
                   /\ \A i \in 1..n : chans'[old[i]].sock = lp["UDP"].sock
  BY <1>5 DEF SocketInv, old, n
\* The places of the new list: c, and the others as they were.
<1>3. /\ new \in Seq(Chans) /\ Len(new) = n + 1
      /\ \E at \in 1..(n + 1) :
           /\ at = IF named THEN 1 ELSE n + 1
           /\ new[at] = c
           /\ \A i \in 1..(n + 1) :
                i # at => \E a \in 1..n : new[i] = old[a] /\ a = IF named THEN i - 1 ELSE i
  <2>1. CASE named
    <3>1. new = <<c>> \o old
      BY <1>b, <2>1, Zenon DEF add_channel
    <3>2. /\ new \in Seq(Chans) /\ Len(new) = n + 1 /\ 1 \in 1..(n + 1) /\ new[1] = c
          /\ \A i \in 1..(n + 1) : i # 1 => i - 1 \in 1..n /\ new[i] = old[i - 1]
      BY <1>a, <1>b, <3>1, AddedInFront
    <3> QED
      BY <2>1, <3>2
  <2>2. CASE ~named
    <3>1. new = Append(old, c)
      BY <1>b, <2>2, Zenon DEF add_channel
    <3>2. /\ new \in Seq(Chans) /\ Len(new) = n + 1 /\ n + 1 \in 1..(n + 1) /\ new[n + 1] = c
          /\ \A i \in 1..(n + 1) : i # n + 1 => i \in 1..n /\ new[i] = old[i]
      BY <1>a, <1>b, <3>1, AddedBehind
    <3> QED
      BY <2>2, <3>2
  <2> QED
    BY <2>1, <2>2
<1>8. PICK at \in 1..(n + 1) :
        /\ at = IF named THEN 1 ELSE n + 1
        /\ new[at] = c
        /\ \A i \in 1..(n + 1) :
             i # at => \E a \in 1..n : new[i] = old[a] /\ a = IF named THEN i - 1 ELSE i
  BY <1>3
<1>9. /\ \A i, j \in 1..(n + 1) : new[i] = new[j] => i = j
      /\ \A i \in 1..(n + 1) : chans'[new[i]].owner = l
      /\ \A i, j \in 1..(n + 1) : i < j /\ chans'[new[j]].has_name => chans'[new[i]].has_name
  <2>1. ASSUME NEW i \in 1..(n + 1) PROVE chans'[new[i]].owner = l
    BY <1>6, <1>8
  <2>2. ASSUME NEW i \in 1..(n + 1), NEW j \in 1..(n + 1), new[i] = new[j] PROVE i = j
    <3>1. CASE i = at \/ j = at
      BY <1>6, <1>8, <2>2, <3>1
    <3>2. CASE i # at /\ j # at
      <4>1. PICK a \in 1..n : new[i] = old[a] /\ a = IF named THEN i - 1 ELSE i
        BY <1>8, <3>2
      <4>2. PICK b \in 1..n : new[j] = old[b] /\ b = IF named THEN j - 1 ELSE j
        BY <1>8, <3>2
      <4>3. old[a] = old[b]
        BY <2>2, <4>1, <4>2
      <4>4. a = b
        BY <1>6, <4>3
      <4> QED
        BY <1>2, <4>1, <4>2, <4>4
    <3> QED
      BY <3>1, <3>2
  <2>3. ASSUME NEW i \in 1..(n + 1), NEW j \in 1..(n + 1), i < j, chans'[new[j]].has_name
        PROVE  chans'[new[i]].has_name
    <3>1. CASE i = at
      <4>1. named
        BY <1>2, <1>8, <2>3, <3>1
      <4> QED
        BY <1>8, <3>1, <4>1, Zenon
    <3>2. CASE i # at /\ j = at
      <4>1. ~named
        BY <1>2, <1>8, <2>3, <3>2
      <4>2. chans'[new[j]].has_name = named
        BY <1>8, <3>2
      <4> QED
        BY <2>3, <4>1, <4>2, Zenon
    <3>3. CASE i # at /\ j # at
      <4>1. PICK a \in 1..n : new[i] = old[a] /\ a = IF named THEN i - 1 ELSE i
        BY <1>8, <3>3
      <4>2. PICK b \in 1..n : new[j] = old[b] /\ b = IF named THEN j - 1 ELSE j
        BY <1>8, <3>3
      <4>3. a < b
        BY <1>2, <2>3, <4>1, <4>2
      <4> QED
        BY <1>6, <2>3, <4>1, <4>2, <4>3
    <3> QED
      BY <3>1, <3>2, <3>3
  <2>4. \A i \in 1..(n + 1) : chans'[new[i]].owner = l
    BY <2>1
  <2>5. \A i, j \in 1..(n + 1) : new[i] = new[j] => i = j
    BY <2>2
  <2>6. \A i, j \in 1..(n + 1) : i < j /\ chans'[new[j]].has_name => chans'[new[i]].has_name
    BY <2>3
  <2> QED
    BY <2>4, <2>5, <2>6
<1>10. ListsInv'
  <2> SUFFICES ASSUME NEW k \in LPs
               PROVE  /\ \A i, j \in 1..Len(lp'[k].channels) :
                           lp'[k].channels[i] = lp'[k].channels[j] => i = j
                      /\ \A i \in 1..Len(lp'[k].channels) : chans'[lp'[k].channels[i]].owner = k
                      /\ \A i, j \in 1..Len(lp'[k].channels) :
                           i < j /\ chans'[lp'[k].channels[j]].has_name
                             => chans'[lp'[k].channels[i]].has_name
    BY DEF ListsInv
  <2>1. CASE k = l
    BY <1>3, <1>9, <2>1 DEF new
  <2>2. CASE k # l
    <3>1. lp'[k] = lp[k]
      BY <1>1, <2>2
    <3>2. /\ \A i, j \in 1..Len(lp[k].channels) :
               lp[k].channels[i] = lp[k].channels[j] => i = j
          /\ \A i \in 1..Len(lp[k].channels) : chans[lp[k].channels[i]].owner = k
          /\ \A i, j \in 1..Len(lp[k].channels) :
               i < j /\ chans[lp[k].channels[j]].has_name
                 => chans[lp[k].channels[i]].has_name
      BY DEF ListsInv
    <3>3. \A i \in 1..Len(lp[k].channels) :
            chans'[lp[k].channels[i]] = chans[lp[k].channels[i]]
      BY <1>5
    <3> DEFINE list == lp[k].channels
    <3>4. lp'[k].channels = list
      BY <3>1
    <3>5. \A i \in 1..Len(list) : chans'[list[i]].owner = k
      BY <3>2, <3>3
    <3>6. \A i, j \in 1..Len(list) :
            i < j /\ chans'[list[j]].has_name => chans'[list[i]].has_name
      BY <3>2, <3>3
    <3>7. \A i, j \in 1..Len(list) : list[i] = list[j] => i = j
      BY <3>2
    <3> HIDE DEF list
    <3> QED
      BY <3>4, <3>5, <3>6, <3>7
  <2> QED
    BY <2>1, <2>2
<1>11. ListensInv'
  <2> SUFFICES ASSUME NEW d \in Chans, chans'[d].listens, ~chans'[d].force_close
               PROVE  \E k \in LPs : chans'[d].owner = k /\ d \in Listed(k)'
    BY DEF ListensInv, Listed
  <2>1. CASE d = c
    BY <1>1, <2>1
  <2>2. CASE d # c
    <3>1. PICK k \in LPs : chans[d].owner = k /\ d \in Listed(k)
      BY <2>2 DEF ListensInv
    <3>2. d \in Listed(k)'
      <4>1. CASE k = l
        BY <1>1, <3>1, <4>1
      <4>2. CASE k # l
        BY <1>1, <3>1, <4>2 DEF Listed
      <4> QED
        BY <4>1, <4>2
    <3> QED
      BY <2>2, <3>1, <3>2
  <2> QED
    BY <2>1, <2>2
<1>12. SocketInv'
  <2>1. CASE l = "UDP"
    <3>1. \A i \in 1..(n + 1) : chans'[new[i]].sock = lp["UDP"].sock
      BY <1>7, <1>8, <2>1
    <3>2. lp'["UDP"].sock = lp["UDP"].sock /\ Len(lp'["UDP"].channels) = n + 1
      BY <1>1, <1>3, <2>1 DEF new
    <3> QED
      BY <2>1, <3>1, <3>2 DEF SocketInv, new
  <2>2. CASE l # "UDP"
    <3>1. lp'["UDP"] = lp["UDP"] /\ "UDP" \in LPs
      BY <1>1, <2>2 DEF LPs
    <3>2. \A i \in 1..Len(lp["UDP"].channels) :
            chans'[lp["UDP"].channels[i]] = chans[lp["UDP"].channels[i]]
      BY <1>5, <3>1
    <3>3. \A i \in 1..Len(lp["UDP"].channels) :
            chans'[lp["UDP"].channels[i]].sock = lp["UDP"].sock
      BY <3>2 DEF SocketInv
    <3> QED
      BY <3>1, <3>3 DEF SocketInv
  <2> QED
    BY <2>1, <2>2
<1> QED
  BY <1>10, <1>11, <1>12

\* The references of one channel change, or nothing does: the others are counted as before.
LEMMA OthersCounted ==
    ASSUME CountInv, NEW c \in Chans,
           \A d \in Chans : d # c => /\ chans'[d] = chans[d] /\ deferred'[d] = deferred[d]
                                     /\ (d \in held' <=> d \in held)
                                     /\ (IsListed(d)' <=> IsListed(d)),
           chans'[c].ref = Count(c)', Sane(chans'[c])
    PROVE  CountInv'
<1> SUFFICES ASSUME NEW d \in Chans PROVE chans'[d].ref = Count(d)' /\ Sane(chans'[d])
  BY DEF CountInv
<1>1. CASE d = c
  BY <1>1
<1>2. CASE d # c
  <2>1. Count(d)' = Count(d)
    BY <1>2 DEF Count
  <2> QED
    BY <1>2, <2>1 DEF CountInv
<1> QED
  BY <1>1, <1>2

LEMMA SameCounted ==
    ASSUME CountInv,
           \A d \in Chans : /\ chans'[d].ref = chans[d].ref /\ Sane(chans'[d])
                            /\ deferred'[d] = deferred[d] /\ (d \in held' <=> d \in held)
                            /\ (IsListed(d)' <=> IsListed(d))
    PROVE  CountInv'
<1> SUFFICES ASSUME NEW d \in Chans PROVE chans'[d].ref = Count(d)' /\ Sane(chans'[d])
  BY DEF CountInv
<1>1. Count(d)' = Count(d)
  BY DEF Count
<1> QED
  BY <1>1 DEF CountInv

\* The lists without c, which was in the one of l.
LEMMA RemovedIsListed ==
    ASSUME ListeningTypeOK, ListsInv, NEW l \in LPs, NEW c \in Chans, c \in Listed(l),
           lp' = [lp EXCEPT ![l].channels = belle_sip_list_remove(@, c)]
    PROVE  /\ lp' \in [LPs -> [sock : Nat, channels : Seq(Chans)]]
           /\ \A k \in LPs : lp'[k].sock = lp[k].sock
           /\ \A k \in LPs : Thinner(lp'[k].channels, lp[k].channels)
           /\ \A k \in LPs : \A d \in Listed(k) : d # c => d \in Listed(k)'
           /\ \A d \in Chans : IsListed(d)' <=> IsListed(d) /\ d # c
<1>1. PICK x \in [sock : Nat, channels : Seq(Chans)] : x = lp[l]
  BY DEF ListeningTypeOK
<1>2. PICK old \in Seq(Chans) : old = x.channels
  BY <1>1
<1>3. PICK rest : rest = belle_sip_list_remove(old, c)
  OBVIOUS
<1>4. Listed(l) = {old[i] : i \in DOMAIN old}
  BY <1>1, <1>2 DEF Listed
<1>5. \A i, j \in 1..Len(old) : old[i] = old[j] => i = j
  BY <1>1, <1>2 DEF ListsInv
<1>6. /\ rest \in Seq(Chans)
      /\ \A i \in 1..Len(rest) : rest[i] # c
      /\ \A a \in 1..Len(old) : old[a] # c => \E i \in 1..Len(rest) : rest[i] = old[a]
      /\ Thinner(rest, old)
  <2>1. \E i \in 1..Len(old) : old[i] = c
    BY <1>4
  <2> QED
    BY <1>3, <1>5, <2>1, RemovedChannel, SMTT(60)
<1>7. lp' = [lp EXCEPT ![l] = [x EXCEPT !.channels = rest]]
  BY <1>1, <1>2, <1>3
<1>8. PICK y : y = [x EXCEPT !.channels = rest]
  OBVIOUS
<1>9. y \in [sock : Nat, channels : Seq(Chans)] /\ y.sock = x.sock /\ y.channels = rest
  BY <1>1, <1>6, <1>8
<1>10. lp' \in [LPs -> [sock : Nat, channels : Seq(Chans)]]
  BY <1>7, <1>8, <1>9 DEF ListeningTypeOK
<1>11. lp'[l] = y /\ \A k \in LPs : k # l => lp'[k] = lp[k]
  BY <1>7, <1>8 DEF ListeningTypeOK
<1>12. \A k \in LPs : lp'[k].sock = lp[k].sock
  BY <1>1, <1>9, <1>11
<1>13. ASSUME NEW k \in LPs PROVE Thinner(lp'[k].channels, lp[k].channels)
  <2>1. CASE k = l
    BY <1>1, <1>2, <1>6, <1>9, <1>11, <2>1
  <2>2. CASE k # l
    <3>1. lp'[k].channels = lp[k].channels
      BY <1>11, <2>2
    <3>2. \A i, j \in 1..Len(lp[k].channels) :
            lp[k].channels[i] = lp[k].channels[j] => i = j
      BY DEF ListsInv
    <3>3. Thinner(lp[k].channels, lp[k].channels)
      BY <3>2 DEF Thinner
    <3> QED
      BY <3>1, <3>3
  <2> QED
    BY <2>1, <2>2
<1>14. Listed(l)' = Listed(l) \ {c}
  <2>1. Listed(l)' = {rest[i] : i \in DOMAIN rest}
    BY <1>9, <1>11 DEF Listed
  <2>2. DOMAIN rest = 1..Len(rest) /\ DOMAIN old = 1..Len(old)
    BY <1>6
  <2>a. \A i \in 1..Len(rest) : \E a \in 1..Len(old) : rest[i] = old[a]
    BY <1>6, Zenon DEF Thinner
  <2>3. {rest[i] : i \in 1..Len(rest)} \subseteq {old[i] : i \in 1..Len(old)} \ {c}
    BY <1>6, <2>a
  <2>4. {old[i] : i \in 1..Len(old)} \ {c} \subseteq {rest[i] : i \in 1..Len(rest)}
    BY <1>6
  <2> QED
    BY <1>4, <2>1, <2>2, <2>3, <2>4
<1>15. \A k \in LPs : k # l => Listed(k)' = Listed(k)
  BY <1>11 DEF Listed
<1>16. \A k \in LPs : c \in Listed(k) => k = l
  <2>1. \A k \in LPs : c \in Listed(k) => chans[c].owner = k
    <3> SUFFICES ASSUME NEW k \in LPs, c \in Listed(k) PROVE chans[c].owner = k
      OBVIOUS
    <3>1. PICK i \in 1..Len(lp[k].channels) : c = lp[k].channels[i]
      BY ListTypes DEF Listed
    <3> QED
      BY <3>1 DEF ListsInv
  <2> QED
    BY <2>1
<1>17. \A k \in LPs : \A d \in Listed(k) : d # c => d \in Listed(k)'
  BY <1>14, <1>15
<1>18. \A d \in Chans : IsListed(d)' <=> IsListed(d) /\ d # c
  BY <1>14, <1>15, <1>16 DEF IsListed
<1>19. \A k \in LPs : Thinner(lp'[k].channels, lp[k].channels)
  BY <1>13
<1> QED
  BY <1>10, <1>12, <1>17, <1>18, <1>19

-----------------------------------------------------------------------------
(***************************************************************************)
(* The steps.                                                              *)
(***************************************************************************)
\* A channel that is found is the first one in the list that matches.
LEMMA FoundIsFirst ==
    ASSUME ListeningTypeOK, NEW l \in LPs, NEW p, NEW how, FindChannel(l, p, how) # Nobody
    PROVE  \E i \in 1..Len(lp[l].channels) :
             /\ lp[l].channels[i] = FindChannel(l, p, how)
             /\ belle_sip_channel_matches(lp[l].channels[i], p, how)
             /\ \A j \in 1..Len(lp[l].channels) :
                  belle_sip_channel_matches(lp[l].channels[j], p, how) => i <= j
<1> DEFINE list == lp[l].channels
           found == {i \in DOMAIN list : belle_sip_channel_matches(list[i], p, how)}
<1>1. found # {} /\ FindChannel(l, p, how) = list[Min(found)]
  BY Zenon DEF FindChannel
<1>2. DOMAIN list = 1..Len(list) /\ Len(list) \in Nat
  BY ListTypes
<1>3. found \subseteq Nat
  BY <1>2
<1>4. Min(found) \in found /\ \A j \in found : Min(found) <= j
  BY <1>1, <1>3, MinIsLeast
<1> QED
  BY <1>1, <1>2, <1>4

LEMMA FoundIsListed ==
    ASSUME ListeningTypeOK, NEW l \in LPs, NEW p, NEW how, FindChannel(l, p, how) # Nobody
    PROVE  FindChannel(l, p, how) \in Listed(l)
<1>1. PICK i \in 1..Len(lp[l].channels) : lp[l].channels[i] = FindChannel(l, p, how)
  BY FoundIsFirst
<1>2. DOMAIN lp[l].channels = 1..Len(lp[l].channels)
  BY ListTypes
<1> QED
  BY <1>1, <1>2 DEF Listed

\* What a step must leave true, when it starts or ends no clean-up.
LEMMA StillQuiet ==
    ASSUME Inv, Quiet, cleaning' = cleaning
    PROVE  ClosingInv'
BY DEF Inv, ClosingInv, Quiet

LEMMA NewFields ==
    ASSUME ListeningTypeOK, NEW l \in LPs, NEW p \in Peers, NEW named \in BOOLEAN,
           NEW state \in {"INIT", "READY"}
    PROVE  /\ NewChannel(l, p, named, state) \in Fields
           /\ NewChannel(l, p, named, state).ref = 1
           /\ NewChannel(l, p, named, state).owner = l
           /\ NewChannel(l, p, named, state).has_name = named
           /\ NewChannel(l, p, named, state).state # "FREE"
           /\ l = "UDP" => NewChannel(l, p, named, state).sock = lp["UDP"].sock
<1>1. lp[l].sock \in Nat
  BY ListTypes
<1>2. PICK s \in Nat : s = IF l = "UDP" THEN lp[l].sock ELSE Closed
  BY <1>1 DEF Closed
<1>3. PICK r \in BOOLEAN : r = (state = "READY")
  OBVIOUS
<1>4. NewChannel(l, p, named, state) =
        [ref |-> 1, owner |-> l, peer |-> p, has_name |-> named, current_peer |-> r,
         state |-> state, sock |-> s, force_close |-> FALSE, listens |-> TRUE]
  BY <1>2, <1>3, Zenon DEF NewChannel
<1> HIDE DEF NewChannel
<1>5. NewChannel(l, p, named, state) \in Fields
  BY <1>4 DEF Fields, ChannelStates
<1>6. l = "UDP" => NewChannel(l, p, named, state).sock = lp["UDP"].sock
  BY <1>2, <1>4
<1> QED
  BY <1>4, <1>5, <1>6

\* A step that changes the references of c, and no list.
LEMMA OneChannelKeeps ==
    ASSUME Inv, Quiet, cleaning' = cleaning, lp' = lp, NEW c \in Chans,
           chans' \in [Chans -> Fields], held' \in SUBSET Chans, deferred' \in [Chans -> Nat],
           Same(chans[c], chans'[c]), Sane(chans'[c]), chans'[c].ref = Count(c)',
           \A d \in Chans : d # c => /\ chans'[d] = chans[d] /\ deferred'[d] = deferred[d]
                                     /\ (d \in held' <=> d \in held)
    PROVE  Inv'
<1> USE DEF Inv
<1>1. ListeningTypeOK'
  BY DEF ListeningTypeOK
<1>2. \A d \in Chans : IsListed(d)' <=> IsListed(d)
  BY DEF IsListed, Listed
<1>3. CountInv'
  BY <1>2, OthersCounted
<1>4. ListsInv' /\ ListensInv' /\ SocketInv'
  <2>1. \A d \in Chans : Same(chans[d], chans'[d])
    BY DEF Same
  <2>2. (\A k \in LPs : lp'[k].channels = lp[k].channels) /\ lp'["UDP"].sock = lp["UDP"].sock
    OBVIOUS
  <2> QED
    BY <1>1, <1>3, <2>1, <2>2, KeptLists
<1>5. ClosingInv'
  BY StillQuiet
<1> QED
  BY <1>1, <1>3, <1>4, <1>5

\* Nobody has free memory.
LEMMA FreeIsUnheld ==
    ASSUME ListeningTypeOK, CountInv, NEW c \in Chans, chans[c].state = "FREE"
    PROVE  c \notin held /\ deferred[c] = 0 /\ ~IsListed(c)
<1>1. PICK h \in 0..1 : h = IF c \in held THEN 1 ELSE 0
  OBVIOUS
<1>2. PICK m \in 0..1 : m = IF IsListed(c) THEN 1 ELSE 0
  OBVIOUS
<1>3. PICK n \in Nat : n = deferred[c]
  BY DEF ListeningTypeOK
<1>4. chans[c].ref = 0 /\ chans[c].ref = Count(c)
  BY DEF CountInv, Sane
<1>5. h + n + m = 0
  BY <1>1, <1>2, <1>3, <1>4 DEF Count
<1>6. h = 0 /\ n = 0 /\ m = 0
  BY <1>5
<1> QED
  BY <1>1, <1>2, <1>3, <1>6

LEMMA GetChannelKeeps ==
    ASSUME Inv, ~SendsInCallback, NEW l \in LPs, NEW p \in Peers, NEW byName \in BOOLEAN,
           NEW c \in Chans, belle_sip_provider_get_channel(l, p, byName, c)
    PROVE  Inv'
<1> USE DEF Inv
<1> DEFINE found == FindChannel(l, p, IF byName THEN "name" ELSE "address")
<1>1. /\ Quiet /\ cleaning' = cleaning /\ deferred' = deferred /\ held' = held \cup {c}
      /\ \/ /\ found # Nobody /\ c = found /\ c \notin held
            /\ chans' = Ref(chans, c) /\ lp' = lp
         \/ /\ chans[c].state = "FREE"
            /\ chans' = Ref([chans EXCEPT ![c] = NewChannel(l, p, byName, "INIT")], c)
            /\ lp' = [lp EXCEPT ![l].channels = add_channel(@, c, byName)]
  BY Zenon DEF belle_sip_provider_get_channel
<1> HIDE DEF found
<1>2. ClosingInv'
  BY <1>1, StillQuiet
<1>3. deferred[c] \in Nat /\ chans[c].ref = Count(c) /\ Sane(chans[c])
  BY DEF ListeningTypeOK, CountInv
<1>4. held' \in SUBSET Chans
  BY <1>1 DEF ListeningTypeOK
<1>5. CASE /\ found # Nobody /\ c = found /\ c \notin held
           /\ chans' = Ref(chans, c) /\ lp' = lp
  <2>1. c \in Listed(l)
    BY <1>5, FoundIsListed DEF found
  <2>2. IsListed(c) /\ chans[c].ref # 0 /\ chans[c].state # "FREE"
    BY <1>3, <2>1, ListedIsUsed DEF IsListed, Sane
  <2>3. /\ chans' \in [Chans -> Fields]
        /\ \A d \in Chans : d # c => chans'[d] = chans[d]
        /\ chans'[c].ref = chans[c].ref + 1 /\ Same(chans[c], chans'[c]) /\ Sane(chans'[c])
    BY <1>5, <2>2, RefFields DEF ListeningTypeOK
  <2>4. chans'[c].ref = Count(c)'
    <3>1. Count(c) = 0 + deferred[c] + 1 /\ Count(c)' = 1 + deferred[c] + 1
      BY <1>1, <1>5, <2>2 DEF Count, IsListed, Listed
    <3> QED
      BY <1>3, <2>3, <3>1
  <2>5. \A d \in Chans : d # c => /\ chans'[d] = chans[d] /\ deferred'[d] = deferred[d]
                                  /\ (d \in held' <=> d \in held)
    BY <1>1, <2>3
  <2>6. deferred' \in [Chans -> Nat]
    BY <1>1 DEF ListeningTypeOK
  <2> QED
    BY <1>1, <1>4, <1>5, <2>3, <2>4, <2>5, <2>6, OneChannelKeeps
<1>6. CASE /\ chans[c].state = "FREE"
           /\ chans' = Ref([chans EXCEPT ![c] = NewChannel(l, p, byName, "INIT")], c)
           /\ lp' = [lp EXCEPT ![l].channels = add_channel(@, c, byName)]
  <2>1. PICK x \in Fields :
          /\ x = NewChannel(l, p, byName, "INIT")
          /\ x.ref = 1 /\ x.owner = l /\ x.has_name = byName /\ x.state # "FREE"
          /\ l = "UDP" => x.sock = lp["UDP"].sock
    BY NewFields
  <2>2. PICK f \in [Chans -> Fields] : f = [chans EXCEPT ![c] = x]
    BY DEF ListeningTypeOK
  <2>3. f[c] = x /\ \A d \in Chans : d # c => f[d] = chans[d]
    BY <2>2 DEF ListeningTypeOK
  <2>4. /\ chans' \in [Chans -> Fields]
        /\ \A d \in Chans : d # c => chans'[d] = f[d]
        /\ chans'[c].ref = f[c].ref + 1 /\ Same(f[c], chans'[c]) /\ Sane(chans'[c])
    BY <1>6, <2>1, <2>2, <2>3, RefFields
  <2>5. chans'[c].ref = 2
    BY <2>1, <2>3, <2>4
  <2>6. /\ chans'[c].owner = l /\ chans'[c].has_name = byName
        /\ l = "UDP" => chans'[c].sock = lp["UDP"].sock
    BY <2>1, <2>3, <2>4, <2>5, FreeIsFields DEF Same
  <2>7. /\ lp' \in [LPs -> [sock : Nat, channels : Seq(Chans)]]
        /\ \A d \in Chans : IsListed(d)' <=> IsListed(d) \/ d = c
    BY <1>6, AddedIsListed
  <2>9. c \notin held /\ deferred[c] = 0 /\ ~IsListed(c)
    BY <1>6, FreeIsUnheld
  <2>10. ListeningTypeOK'
    BY <1>1, <1>4, <2>4, <2>7 DEF ListeningTypeOK
  <2>11. CountInv'
    <3>1. Count(c)' = 1 + 0 + 1
      BY <1>1, <2>7, <2>9 DEF Count
    <3>2. \A d \in Chans : d # c => /\ chans'[d] = chans[d] /\ deferred'[d] = deferred[d]
                                    /\ (d \in held' <=> d \in held)
                                    /\ (IsListed(d)' <=> IsListed(d))
      BY <1>1, <2>3, <2>4, <2>7
    <3>3. chans'[c].ref = Count(c)'
      BY <2>5, <3>1
    <3> QED
      BY <2>4, <3>2, <3>3, OthersCounted
  <2>12. ListsInv' /\ ListensInv' /\ SocketInv'
    <3>1. \A d \in Chans : d # c => chans'[d] = chans[d]
      BY <2>3, <2>4
    <3> QED
      BY <1>6, <2>6, <2>9, <2>10, <2>11, <3>1, AddedLists
  <2> QED
    BY <1>2, <2>10, <2>11, <2>12
<1> QED
  BY <1>1, <1>5, <1>6

\* A channel made for what comes in.
LEMMA NewChannelKeeps ==
    ASSUME Inv, Quiet, cleaning' = cleaning, deferred' = deferred, held' = held,
           NEW l \in LPs, NEW p \in Peers, NEW c \in Chans, chans[c].state = "FREE",
           NEW named \in BOOLEAN,
           chans' = [chans EXCEPT ![c] = NewChannel(l, p, named, "READY")],
           lp' = [lp EXCEPT ![l].channels = add_channel(@, c, named)]
    PROVE  Inv'
<1> USE DEF Inv
<1>1. PICK x \in Fields :
        /\ x = NewChannel(l, p, named, "READY")
        /\ x.ref = 1 /\ x.owner = l /\ x.has_name = named /\ x.state # "FREE"
        /\ l = "UDP" => x.sock = lp["UDP"].sock
  BY NewFields
<1>2. /\ chans' \in [Chans -> Fields]
      /\ chans'[c] = x /\ \A d \in Chans : d # c => chans'[d] = chans[d]
  BY <1>1 DEF ListeningTypeOK
<1>3. /\ lp' \in [LPs -> [sock : Nat, channels : Seq(Chans)]]
      /\ \A d \in Chans : IsListed(d)' <=> IsListed(d) \/ d = c
  BY AddedIsListed
<1>4. c \notin held /\ deferred[c] = 0 /\ ~IsListed(c)
  BY FreeIsUnheld
<1>5. ListeningTypeOK'
  BY <1>2, <1>3 DEF ListeningTypeOK
<1>6. CountInv'
  <2>1. Count(c)' = 0 + 0 + 1
    BY <1>3, <1>4 DEF Count
  <2>2. \A d \in Chans : d # c => /\ chans'[d] = chans[d] /\ deferred'[d] = deferred[d]
                                  /\ (d \in held' <=> d \in held)
                                  /\ (IsListed(d)' <=> IsListed(d))
    BY <1>2, <1>3
  <2>3. chans'[c].ref = Count(c)' /\ Sane(chans'[c])
    BY <1>1, <1>2, <2>1 DEF Sane
  <2> QED
    BY <2>2, <2>3, OthersCounted
<1>7. ListsInv' /\ ListensInv' /\ SocketInv'
  <2>1. \A d \in Chans : d # c => chans'[d] = chans[d]
    BY <1>2
  <2>2. /\ chans'[c].owner = l /\ chans'[c].has_name = named
        /\ l = "UDP" => chans'[c].sock = lp["UDP"].sock
    BY <1>1, <1>2
  <2> QED
    BY <1>4, <1>5, <1>6, <2>1, <2>2, AddedLists
<1>8. ClosingInv'
  BY StillQuiet
<1> QED
  BY <1>5, <1>6, <1>7, <1>8

LEMMA StutterKeeps ==
    ASSUME Inv, UNCHANGED listeningVars
    PROVE  Inv'
BY DEF Inv, listeningVars, ListeningTypeOK, ListsInv, ListensInv, CountInv, SocketInv, ClosingInv,
       Closing, Quiet, Count, IsListed, Listed

LEMMA InputKeeps ==
    ASSUME Inv, NEW p \in Peers, NEW c \in Chans, on_udp_data(p, c) \/ on_new_connection(p, c)
    PROVE  Inv'
<1>1. PICK named \in BOOLEAN : named = FALSE
  OBVIOUS
<1>2. \/ UNCHANGED listeningVars
      \/ /\ Quiet /\ cleaning' = cleaning /\ deferred' = deferred /\ held' = held
         /\ chans[c].state = "FREE"
         /\ \E l \in LPs :
              /\ chans' = [chans EXCEPT ![c] = NewChannel(l, p, named, "READY")]
              /\ lp' = [lp EXCEPT ![l].channels = add_channel(@, c, named)]
  <2>1. "UDP" \in LPs /\ "TCP" \in LPs
    BY DEF LPs
  <2>2. CASE on_udp_data(p, c)
    BY <1>1, <2>1, <2>2, Zenon DEF on_udp_data, listeningVars
  <2>3. CASE on_new_connection(p, c)
    BY <1>1, <2>1, <2>3, Zenon DEF on_new_connection, listeningVars
  <2> QED
    BY <2>2, <2>3
<1>3. CASE UNCHANGED listeningVars
  BY <1>3, StutterKeeps
<1>4. CASE /\ Quiet /\ cleaning' = cleaning /\ deferred' = deferred /\ held' = held
           /\ chans[c].state = "FREE"
           /\ \E l \in LPs :
                /\ chans' = [chans EXCEPT ![c] = NewChannel(l, p, named, "READY")]
                /\ lp' = [lp EXCEPT ![l].channels = add_channel(@, c, named)]
  <2>1. PICK l \in LPs :
          /\ chans' = [chans EXCEPT ![c] = NewChannel(l, p, named, "READY")]
          /\ lp' = [lp EXCEPT ![l].channels = add_channel(@, c, named)]
    BY <1>4
  <2> QED
    BY <1>4, <2>1, NewChannelKeeps
<1> QED
  BY <1>2, <1>3, <1>4

\* What is counted, with rigid names: the transaction's reference, and the list's.
LEMMA Counted ==
    ASSUME ListeningTypeOK, CountInv, NEW c \in Chans
    PROVE  \E h \in 0..1, n \in Nat, m \in 0..1 :
             /\ h = IF c \in held THEN 1 ELSE 0
             /\ n = deferred[c]
             /\ m = IF IsListed(c) THEN 1 ELSE 0
             /\ chans[c].ref = h + n + m /\ chans[c].ref \in Nat
<1>1. PICK h \in 0..1 : h = IF c \in held THEN 1 ELSE 0
  OBVIOUS
<1>2. PICK m \in 0..1 : m = IF IsListed(c) THEN 1 ELSE 0
  OBVIOUS
<1>3. PICK n \in Nat : n = deferred[c]
  BY DEF ListeningTypeOK
<1>4. chans[c].ref = h + n + m
  BY <1>1, <1>2, <1>3 DEF CountInv, Count
<1>5. h + n + m \in Nat
  OBVIOUS
<1> QED
  BY <1>1, <1>2, <1>3, <1>4, <1>5

LEMMA ReleaseKeeps ==
    ASSUME Inv, NEW c \in Chans, ReleaseTransaction(c)
    PROVE  Inv'
<1>1. /\ Quiet /\ c \in held /\ held' = held \ {c} /\ chans' = Unref(chans, c)
      /\ lp' = lp /\ deferred' = deferred /\ cleaning' = cleaning
  BY DEF ReleaseTransaction
<1>2. PICK h \in 0..1, n \in Nat, m \in 0..1 :
        /\ h = IF c \in held THEN 1 ELSE 0
        /\ n = deferred[c]
        /\ m = IF IsListed(c) THEN 1 ELSE 0
        /\ chans[c].ref = h + n + m /\ chans[c].ref \in Nat
  BY Counted DEF Inv
<1>3. chans[c].ref = 1 + n + m /\ chans[c].ref # 0
  BY <1>1, <1>2
<1>4. chans[c].state # "FREE"
  BY <1>3 DEF Inv, CountInv, Sane
<1>5. /\ chans' \in [Chans -> Fields]
      /\ \A d \in Chans : d # c => chans'[d] = chans[d]
      /\ chans'[c].ref = chans[c].ref - 1 /\ Same(chans[c], chans'[c]) /\ Sane(chans'[c])
  BY <1>1, <1>3, <1>4, UnrefFields DEF Inv, ListeningTypeOK
<1>6. Count(c)' = 0 + n + m
  BY <1>1, <1>2 DEF Count, IsListed, Listed
<1>7. chans'[c].ref = Count(c)'
  BY <1>3, <1>5, <1>6
<1>8. held' \in SUBSET Chans /\ deferred' \in [Chans -> Nat]
  BY <1>1 DEF Inv, ListeningTypeOK
<1> QED
  BY <1>1, <1>5, <1>7, <1>8, OneChannelKeeps

LEMMA ConnectedKeeps ==
    ASSUME Inv, NEW c \in Chans, Connected(c)
    PROVE  Inv'
<1>1. /\ Quiet /\ chans[c].state = "INIT"
      /\ chans' = [chans EXCEPT ![c].state = "READY", ![c].current_peer = TRUE]
      /\ lp' = lp /\ held' = held /\ deferred' = deferred /\ cleaning' = cleaning
  BY DEF Connected
<1>2. PICK x \in Fields : x = chans[c]
  BY DEF Inv, ListeningTypeOK
<1>3. PICK y : y = [x EXCEPT !.state = "READY", !.current_peer = TRUE]
  OBVIOUS
<1>4. chans' = [chans EXCEPT ![c] = y]
  BY <1>1, <1>2, <1>3
<1>5. /\ y \in Fields /\ y.ref = x.ref /\ y.state = "READY" /\ y.owner = x.owner
      /\ y.has_name = x.has_name /\ y.sock = x.sock /\ y.listens = x.listens
      /\ y.force_close = x.force_close
  BY <1>2, <1>3 DEF Fields, ChannelStates
<1>6. /\ chans' \in [Chans -> Fields] /\ chans'[c] = y
      /\ \A d \in Chans : d # c => chans'[d] = chans[d]
  BY <1>4, <1>5 DEF Inv, ListeningTypeOK
<1>7. x.ref # 0
  BY <1>1, <1>2 DEF Inv, CountInv, Sane, Free
<1>8. Same(chans[c], chans'[c]) /\ Sane(chans'[c])
  BY <1>2, <1>5, <1>6, <1>7 DEF Same, Sane
<1>9. chans'[c].ref = Count(c)'
  BY <1>1, <1>2, <1>5, <1>6 DEF Inv, CountInv, Count, IsListed, Listed
<1>10. held' \in SUBSET Chans /\ deferred' \in [Chans -> Nat]
  BY <1>1 DEF Inv, ListeningTypeOK
<1> QED
  BY <1>1, <1>6, <1>8, <1>9, <1>10, OneChannelKeeps

LEMMA FailedKeeps ==
    ASSUME Inv, NEW c \in Chans, Failed(c)
    PROVE  Inv'
<1>1. /\ Quiet /\ chans[c].state # "FREE"
      /\ chans' = Ref([chans EXCEPT ![c].state = "ERROR"], c)
      /\ deferred' = [deferred EXCEPT ![c] = @ + 1]
      /\ lp' = lp /\ held' = held /\ cleaning' = cleaning
  BY DEF Failed
<1>2. PICK x \in Fields : x = chans[c]
  BY DEF Inv, ListeningTypeOK
<1>3. PICK y : y = [x EXCEPT !.state = "ERROR"]
  OBVIOUS
<1>4. /\ y \in Fields /\ y.ref = x.ref /\ y.state = "ERROR" /\ y.owner = x.owner
      /\ y.has_name = x.has_name /\ y.sock = x.sock /\ y.listens = x.listens
      /\ y.force_close = x.force_close
  BY <1>2, <1>3 DEF Fields, ChannelStates
<1>5. PICK f \in [Chans -> Fields] : f = [chans EXCEPT ![c] = y]
  BY <1>4 DEF Inv, ListeningTypeOK
<1>6. f[c] = y /\ \A d \in Chans : d # c => f[d] = chans[d]
  BY <1>5 DEF Inv, ListeningTypeOK
<1>7. chans' = Ref(f, c)
  BY <1>1, <1>2, <1>3, <1>5
<1>8. f[c].state # "FREE"
  BY <1>4, <1>6
<1>9. /\ chans' \in [Chans -> Fields]
      /\ \A d \in Chans : d # c => chans'[d] = f[d]
      /\ chans'[c].ref = f[c].ref + 1 /\ Same(f[c], chans'[c]) /\ Sane(chans'[c])
  BY <1>7, <1>8, RefFields
<1>10. Same(chans[c], chans'[c])
  BY <1>2, <1>4, <1>6, <1>9 DEF Same
<1>11. PICK h \in 0..1, n \in Nat, m \in 0..1 :
         /\ h = IF c \in held THEN 1 ELSE 0
         /\ n = deferred[c]
         /\ m = IF IsListed(c) THEN 1 ELSE 0
         /\ chans[c].ref = h + n + m /\ chans[c].ref \in Nat
  BY Counted DEF Inv
<1>12. deferred'[c] = n + 1 /\ \A d \in Chans : d # c => deferred'[d] = deferred[d]
  BY <1>1, <1>11 DEF Inv, ListeningTypeOK
<1>13. Count(c)' = h + (n + 1) + m
  BY <1>1, <1>11, <1>12 DEF Count, IsListed, Listed
<1>14. chans'[c].ref = Count(c)'
  BY <1>2, <1>4, <1>6, <1>9, <1>11, <1>13
<1>15. held' \in SUBSET Chans /\ deferred' \in [Chans -> Nat]
  BY <1>1 DEF Inv, ListeningTypeOK
<1> QED
  BY <1>1, <1>6, <1>9, <1>10, <1>12, <1>14, <1>15, OneChannelKeeps

\* The provider takes c out of the list of l and listens to it no more.
LEMMA RemovalKeeps ==
    ASSUME Inv, Quiet, cleaning' = cleaning, held' = held, NEW l \in LPs, NEW c \in Chans,
           c \in Listed(l), lp' = [lp EXCEPT ![l].channels = belle_sip_list_remove(@, c)],
           chans' \in [Chans -> Fields], deferred' \in [Chans -> Nat],
           Same(chans[c], chans'[c]), Sane(chans'[c]), chans'[c].listens = FALSE,
           chans'[c].ref = (IF c \in held THEN 1 ELSE 0) + deferred'[c],
           \A d \in Chans : d # c => chans'[d] = chans[d] /\ deferred'[d] = deferred[d]
    PROVE  Inv'
<1> USE DEF Inv
<1>1. /\ lp' \in [LPs -> [sock : Nat, channels : Seq(Chans)]]
      /\ \A k \in LPs : lp'[k].sock = lp[k].sock
      /\ \A k \in LPs : Thinner(lp'[k].channels, lp[k].channels)
      /\ \A k \in LPs : \A d \in Listed(k) : d # c => d \in Listed(k)'
      /\ \A d \in Chans : IsListed(d)' <=> IsListed(d) /\ d # c
  BY RemovedIsListed
<1>2. ListeningTypeOK'
  BY <1>1 DEF ListeningTypeOK
<1>3. CountInv'
  <2>1. PICK h \in 0..1 : h = IF c \in held THEN 1 ELSE 0
    OBVIOUS
  <2>2. PICK n \in Nat : n = deferred'[c]
    OBVIOUS
  <2>3. Count(c)' = h + n + 0
    BY <1>1, <2>1, <2>2 DEF Count
  <2>4. chans'[c].ref = Count(c)'
    BY <2>1, <2>2, <2>3
  <2>5. \A d \in Chans : d # c => /\ chans'[d] = chans[d] /\ deferred'[d] = deferred[d]
                                  /\ (d \in held' <=> d \in held)
                                  /\ (IsListed(d)' <=> IsListed(d))
    BY <1>1
  <2> QED
    BY <2>4, <2>5, OthersCounted
<1>4. ListsInv' /\ ListensInv' /\ SocketInv'
  <2>1. \A d \in Chans : Same(chans[d], chans'[d])
    BY DEF Same
  <2>2. \A d \in Chans : \A k \in LPs :
          chans'[d].listens /\ ~chans'[d].force_close /\ d \in Listed(k) => d \in Listed(k)'
    BY <1>1
  <2>3. lp'["UDP"].sock = lp["UDP"].sock \/ lp'["UDP"].channels = <<>>
    BY <1>1 DEF LPs
  <2> QED
    BY <1>1, <1>2, <1>3, <2>1, <2>2, <2>3, ThinnedLists
<1>5. ClosingInv'
  BY StillQuiet
<1> QED
  BY <1>2, <1>3, <1>4, <1>5

\* Where the provider finds a channel to release: the list it is in.
LEMMA ReleasedIsListed ==
    ASSUME Inv, NEW c \in Chans, chans[c].listens, ~chans[c].force_close
    PROVE  \E l \in LPs :
             /\ c \in Listed(l)
             /\ Unlisted(chans, c) = [lp EXCEPT ![l].channels = belle_sip_list_remove(@, c)]
<1>1. PICK l \in LPs : chans[c].owner = l /\ c \in Listed(l)
  BY DEF Inv, ListensInv
<1>2. Unlisted(chans, c) = [lp EXCEPT ![l].channels = belle_sip_list_remove(@, c)]
  BY <1>1, Zenon DEF Unlisted
<1> QED
  BY <1>1, <1>2

\* The references of c after the provider has released it, in f.
LEMMA ReleasedFields ==
    ASSUME NEW e \in [Chans -> Fields], NEW c \in Chans, NEW x \in Fields,
           e[c] = x, x.ref # 0, x.state # "FREE", x.listens = FALSE
    PROVE  /\ Unref(e, c) \in [Chans -> Fields]
           /\ \A d \in Chans : d # c => Unref(e, c)[d] = e[d]
           /\ Unref(e, c)[c].ref = x.ref - 1 /\ Same(x, Unref(e, c)[c]) /\ Sane(Unref(e, c)[c])
           /\ Unref(e, c)[c].listens = FALSE
           /\ Unref(e, c)[c].ref # 0 => Unref(e, c)[c].state = x.state
<1>2. /\ Unref(e, c) \in [Chans -> Fields]
      /\ \A d \in Chans : d # c => Unref(e, c)[d] = e[d]
      /\ Unref(e, c)[c].ref = x.ref - 1 /\ Same(x, Unref(e, c)[c]) /\ Sane(Unref(e, c)[c])
      /\ Unref(e, c)[c].ref # 0 => Unref(e, c)[c].state = x.state
  BY UnrefFields
<1>3. Unref(e, c)[c] \in Fields
  BY <1>2
<1>4. Unref(e, c)[c].listens = FALSE
  BY <1>2, <1>3, FreeIsFields DEF Same, Fields
<1> QED
  BY <1>2, <1>4

LEMMA DisconnectedKeeps ==
    ASSUME Inv, NEW c \in Chans, Disconnected(c)
    PROVE  Inv'
<1>1. /\ Quiet /\ chans[c].state \in {"READY", "ERROR"} /\ lp' = Unlisted(chans, c)
      /\ chans' = release_channel([chans EXCEPT ![c].state = "DISCONNECTED"], c)
      /\ held' = held /\ deferred' = deferred /\ cleaning' = cleaning
  BY DEF Disconnected
<1>2. PICK x \in Fields : x = chans[c]
  BY DEF Inv, ListeningTypeOK
<1>3. PICK y : y = [x EXCEPT !.state = "DISCONNECTED"]
  OBVIOUS
<1>4. /\ y \in Fields /\ y.ref = x.ref /\ y.state = "DISCONNECTED" /\ y.owner = x.owner
      /\ y.has_name = x.has_name /\ y.sock = x.sock /\ y.listens = x.listens
      /\ y.force_close = x.force_close
  BY <1>2, <1>3 DEF Fields, ChannelStates
<1>5. PICK f \in [Chans -> Fields] : f = [chans EXCEPT ![c] = y]
  BY <1>4 DEF Inv, ListeningTypeOK
<1>6. f[c] = y /\ \A d \in Chans : d # c => f[d] = chans[d]
  BY <1>5 DEF Inv, ListeningTypeOK
<1>7. chans' = release_channel(f, c)
  BY <1>1, <1>2, <1>3, <1>5
<1>8. x.ref # 0
  BY <1>1, <1>2 DEF Inv, CountInv, Sane, Free
<1>9. PICK h \in 0..1, n \in Nat, m \in 0..1 :
        /\ h = IF c \in held THEN 1 ELSE 0
        /\ n = deferred[c]
        /\ m = IF IsListed(c) THEN 1 ELSE 0
        /\ chans[c].ref = h + n + m /\ chans[c].ref \in Nat
  BY Counted DEF Inv
<1>10. held' \in SUBSET Chans /\ deferred' \in [Chans -> Nat]
  BY <1>1 DEF Inv, ListeningTypeOK
<1>11. CASE chans[c].listens /\ ~chans[c].force_close
  <2>1. PICK z : z = [y EXCEPT !.listens = FALSE]
    OBVIOUS
  <2>2. /\ z \in Fields /\ z.ref = x.ref /\ z.state = "DISCONNECTED" /\ z.owner = x.owner
        /\ z.has_name = x.has_name /\ z.sock = x.sock /\ z.listens = FALSE
        /\ z.force_close = x.force_close
    BY <1>4, <2>1 DEF Fields
  <2>a. PICK e : e = [f EXCEPT ![c] = z]
    OBVIOUS
  <2>b. chans' = Unref(e, c)
    <3>1. release_channel(f, c) = Unref([f EXCEPT ![c].listens = FALSE], c)
      BY <1>2, <1>4, <1>6, <1>11, Zenon DEF release_channel
    <3>2. [f EXCEPT ![c].listens = FALSE] = e
      BY <1>6, <2>1, <2>a
    <3> QED
      BY <1>7, <3>1, <3>2
  <2>3. /\ chans' \in [Chans -> Fields]
        /\ \A d \in Chans : d # c => chans'[d] = f[d]
        /\ chans'[c].ref = x.ref - 1 /\ Same(z, chans'[c]) /\ Sane(chans'[c])
        /\ chans'[c].listens = FALSE
    <3>1. e \in [Chans -> Fields] /\ e[c] = z /\ \A d \in Chans : d # c => e[d] = f[d]
      BY <2>2, <2>a
    <3>2. z.ref # 0 /\ z.state # "FREE"
      BY <1>8, <2>2
    <3>3. /\ Unref(e, c) \in [Chans -> Fields]
          /\ \A d \in Chans : d # c => Unref(e, c)[d] = e[d]
          /\ Unref(e, c)[c].ref = z.ref - 1 /\ Same(z, Unref(e, c)[c]) /\ Sane(Unref(e, c)[c])
          /\ Unref(e, c)[c].listens = FALSE
      BY <2>2, <3>1, <3>2, ReleasedFields
    <3> QED
      BY <2>2, <2>b, <3>1, <3>3
  <2>4. PICK l \in LPs :
          /\ c \in Listed(l)
          /\ Unlisted(chans, c) = [lp EXCEPT ![l].channels = belle_sip_list_remove(@, c)]
    BY <1>11, ReleasedIsListed
  <2>5. m = 1
    BY <1>9, <2>4 DEF IsListed
  <2>6. chans'[c].ref = h + n
    BY <1>2, <1>9, <2>3, <2>5
  <2>7. chans'[c].ref = (IF c \in held THEN 1 ELSE 0) + deferred'[c]
    BY <1>1, <1>9, <2>6
  <2>8. Same(chans[c], chans'[c])
    BY <1>2, <2>2, <2>3 DEF Same
  <2>9. lp' = [lp EXCEPT ![l].channels = belle_sip_list_remove(@, c)]
    BY <1>1, <2>4
  <2>10. \A d \in Chans : d # c => chans'[d] = chans[d] /\ deferred'[d] = deferred[d]
    BY <1>1, <1>6, <2>3
  <2> QED
    BY <1>1, <1>10, <2>3, <2>4, <2>7, <2>8, <2>9, <2>10, RemovalKeeps
<1>12. CASE ~(chans[c].listens /\ ~chans[c].force_close)
  <2>1. chans' = f /\ lp' = lp
    BY <1>1, <1>2, <1>4, <1>6, <1>7, <1>12, Zenon DEF release_channel, Unlisted
  <2>2. Same(chans[c], chans'[c]) /\ Sane(chans'[c])
    BY <1>2, <1>4, <1>6, <1>8, <2>1 DEF Same, Sane
  <2>3. Count(c)' = Count(c)
    BY <1>1, <2>1 DEF Count, IsListed, Listed
  <2>4. chans'[c].ref = Count(c)'
    BY <1>2, <1>4, <1>6, <2>1, <2>3 DEF Inv, CountInv
  <2>5. \A d \in Chans : d # c => /\ chans'[d] = chans[d] /\ deferred'[d] = deferred[d]
                                  /\ (d \in held' <=> d \in held)
    BY <1>1, <1>6, <2>1
  <2> QED
    BY <1>1, <1>10, <2>1, <2>2, <2>4, <2>5, OneChannelKeeps
<1> QED
  BY <1>11, <1>12

LEMMA NotifyKeeps ==
    ASSUME Inv, NEW c \in Chans, NotifyDeferred(c)
    PROVE  Inv'
<1>1. /\ Quiet /\ deferred[c] > 0 /\ lp' = Unlisted(chans, c)
      /\ chans' = Unref(release_channel(chans, c), c)
      /\ deferred' = [deferred EXCEPT ![c] = @ - 1]
      /\ held' = held /\ cleaning' = cleaning
  BY DEF NotifyDeferred
<1>2. PICK x \in Fields : x = chans[c]
  BY DEF Inv, ListeningTypeOK
<1>3. PICK h \in 0..1, n \in Nat, m \in 0..1 :
        /\ h = IF c \in held THEN 1 ELSE 0
        /\ n = deferred[c]
        /\ m = IF IsListed(c) THEN 1 ELSE 0
        /\ chans[c].ref = h + n + m /\ chans[c].ref \in Nat
  BY Counted DEF Inv
<1>4. n > 0 /\ x.ref = h + n + m /\ x.ref # 0
  BY <1>1, <1>2, <1>3
<1>5. x.state # "FREE"
  BY <1>2, <1>4 DEF Inv, CountInv, Sane
<1>6. deferred'[c] = n - 1 /\ \A d \in Chans : d # c => deferred'[d] = deferred[d]
  BY <1>1, <1>3 DEF Inv, ListeningTypeOK
<1>7. n - 1 \in Nat
  BY <1>4
<1>8. held' \in SUBSET Chans /\ deferred' \in [Chans -> Nat]
  BY <1>1, <1>3, <1>7 DEF Inv, ListeningTypeOK
<1>9. CASE chans[c].listens /\ ~chans[c].force_close
  <2>1. PICK z : z = [x EXCEPT !.listens = FALSE]
    OBVIOUS
  <2>2. /\ z \in Fields /\ z.ref = x.ref /\ z.state = x.state /\ z.owner = x.owner
        /\ z.has_name = x.has_name /\ z.sock = x.sock /\ z.listens = FALSE
        /\ z.force_close = x.force_close
    BY <2>1 DEF Fields
  <2>3. PICK e : e = [chans EXCEPT ![c] = z]
    OBVIOUS
  <2>4. PICK g : g = Unref(e, c)
    OBVIOUS
  <2>5. chans' = Unref(g, c)
    <3>1. release_channel(chans, c) = Unref([chans EXCEPT ![c].listens = FALSE], c)
      BY <1>9, Zenon DEF release_channel
    <3>2. [chans EXCEPT ![c].listens = FALSE] = e
      BY <1>2, <2>1, <2>3
    <3> QED
      BY <1>1, <2>4, <3>1, <3>2
  <2>6. PICK f \in [Chans -> Fields] : f = chans
    BY DEF Inv, ListeningTypeOK
  <2>7. /\ g \in [Chans -> Fields]
        /\ \A d \in Chans : d # c => g[d] = f[d]
        /\ g[c].ref = x.ref - 1 /\ Same(z, g[c]) /\ Sane(g[c]) /\ g[c].listens = FALSE
        /\ g[c].ref # 0 => g[c].state = x.state
    <3>1. /\ e \in [Chans -> Fields] /\ e[c] = z /\ \A d \in Chans : d # c => e[d] = f[d]
          /\ z.ref # 0 /\ z.state # "FREE"
      BY <1>4, <1>5, <2>2, <2>3, <2>6
    <3>2. /\ Unref(e, c) \in [Chans -> Fields]
          /\ \A d \in Chans : d # c => Unref(e, c)[d] = e[d]
          /\ Unref(e, c)[c].ref = z.ref - 1 /\ Same(z, Unref(e, c)[c]) /\ Sane(Unref(e, c)[c])
          /\ Unref(e, c)[c].listens = FALSE
          /\ Unref(e, c)[c].ref # 0 => Unref(e, c)[c].state = z.state
      BY <2>2, <3>1, ReleasedFields
    <3> QED
      BY <2>2, <2>4, <3>1, <3>2
  <2>8. PICK l \in LPs :
          /\ c \in Listed(l)
          /\ Unlisted(chans, c) = [lp EXCEPT ![l].channels = belle_sip_list_remove(@, c)]
    BY <1>9, ReleasedIsListed
  <2>9. m = 1
    BY <1>3, <2>8 DEF IsListed
  <2>10. g[c].ref = h + n /\ g[c].ref # 0
    BY <1>4, <2>7, <2>9
  <2>11. g[c].state # "FREE"
    BY <1>5, <2>7, <2>10
  <2>12. /\ chans' \in [Chans -> Fields]
         /\ \A d \in Chans : d # c => chans'[d] = g[d]
         /\ chans'[c].ref = g[c].ref - 1 /\ Same(g[c], chans'[c]) /\ Sane(chans'[c])
    BY <2>5, <2>7, <2>10, <2>11, UnrefFields
  <2>13. PICK y \in Fields : y = chans'[c]
    BY <2>12
  <2>14. y.listens = FALSE
    BY <2>7, <2>12, <2>13, FreeIsFields DEF Same, Fields
  <2>15. Same(chans[c], chans'[c])
    <3>1. g[c] # Free
      BY <2>10, FreeIsFields
    <3> QED
      BY <1>2, <2>2, <2>7, <2>12, <3>1 DEF Same
  <2>16. chans'[c].ref = (IF c \in held THEN 1 ELSE 0) + deferred'[c]
    <3>1. chans'[c].ref = h + (n - 1)
      BY <1>4, <2>10, <2>12
    <3> QED
      BY <1>3, <1>6, <3>1
  <2>17. lp' = [lp EXCEPT ![l].channels = belle_sip_list_remove(@, c)]
    BY <1>1, <2>8
  <2>18. \A d \in Chans : d # c => chans'[d] = chans[d] /\ deferred'[d] = deferred[d]
    BY <1>6, <2>6, <2>7, <2>12
  <2>19. chans'[c].listens = FALSE
    BY <2>13, <2>14
  <2> QED
    BY <1>1, <1>8, <2>8, <2>12, <2>15, <2>16, <2>17, <2>18, <2>19, RemovalKeeps
<1>10. CASE ~(chans[c].listens /\ ~chans[c].force_close)
  <2>1. chans' = Unref(chans, c) /\ lp' = lp
    BY <1>1, <1>10, Zenon DEF release_channel, Unlisted
  <2>2. chans[c].ref # 0 /\ chans[c].state # "FREE"
    BY <1>2, <1>4, <1>5
  <2>3. /\ chans' \in [Chans -> Fields]
        /\ \A d \in Chans : d # c => chans'[d] = chans[d]
        /\ chans'[c].ref = chans[c].ref - 1 /\ Same(chans[c], chans'[c]) /\ Sane(chans'[c])
    BY <2>1, <2>2, UnrefFields DEF Inv, ListeningTypeOK
  <2>4. Count(c)' = h + (n - 1) + m
    BY <1>1, <1>3, <1>6, <2>1 DEF Count, IsListed, Listed
  <2>5. chans'[c].ref = Count(c)'
    BY <1>2, <1>4, <2>3, <2>4
  <2>6. \A d \in Chans : d # c => /\ chans'[d] = chans[d] /\ deferred'[d] = deferred[d]
                                  /\ (d \in held' <=> d \in held)
    BY <1>1, <1>6, <2>3
  <2> QED
    BY <1>1, <1>8, <2>1, <2>3, <2>5, <2>6, OneChannelKeeps
<1> QED
  BY <1>9, <1>10

LEMMA KeepAliveKeeps ==
    ASSUME Inv, NEW l \in LPs, NEW failing \in SUBSET Chans, KeepAlive(l, failing)
    PROVE  Inv'
<1> USE DEF Inv
<1>1. /\ Quiet /\ \A c \in failing : chans[c].state = "READY"
      /\ chans' = [c \in Chans |-> IF c \in failing
                                    THEN [chans[c] EXCEPT !.state = "ERROR", !.ref = @ + 1]
                                    ELSE chans[c]]
      /\ deferred' = [c \in Chans |-> deferred[c] + IF c \in failing THEN 1 ELSE 0]
      /\ lp' = lp /\ held' = held /\ cleaning' = cleaning
  BY DEF KeepAlive
<1>2. ASSUME NEW c \in Chans
      PROVE  /\ chans'[c] \in Fields /\ Same(chans[c], chans'[c]) /\ Sane(chans'[c])
             /\ deferred'[c] \in Nat /\ chans'[c].ref = Count(c)'
  <2>1. PICK x \in Fields : x = chans[c]
    BY DEF ListeningTypeOK
  <2>2. PICK h \in 0..1, n \in Nat, m \in 0..1 :
          /\ h = IF c \in held THEN 1 ELSE 0
          /\ n = deferred[c]
          /\ m = IF IsListed(c) THEN 1 ELSE 0
          /\ chans[c].ref = h + n + m /\ chans[c].ref \in Nat
    BY Counted
  <2>3. CASE c \in failing
    <3>1. PICK r \in Nat : r = x.ref + 1 /\ r # 0
      BY <2>1, <2>2
    <3>2. PICK y : y = [x EXCEPT !.state = "ERROR", !.ref = r]
      OBVIOUS
    <3>3. /\ y \in Fields /\ y.ref = r /\ y.state = "ERROR" /\ y.owner = x.owner
          /\ y.has_name = x.has_name /\ y.sock = x.sock /\ y.listens = x.listens
          /\ y.force_close = x.force_close
      BY <3>1, <3>2 DEF Fields, ChannelStates
    <3>4. chans'[c] = y
      BY <1>1, <2>1, <2>3, <3>1, <3>2
    <3>5. deferred'[c] = n + 1
      BY <1>1, <2>2, <2>3
    <3>6. Count(c)' = h + (n + 1) + m
      BY <1>1, <2>2, <3>5 DEF Count, IsListed, Listed
    <3>7. Same(chans[c], chans'[c]) /\ Sane(chans'[c])
      BY <2>1, <3>1, <3>3, <3>4 DEF Same, Sane
    <3>8. chans'[c].ref = Count(c)'
      BY <2>1, <2>2, <3>1, <3>3, <3>4, <3>6
    <3> QED
      BY <3>3, <3>4, <3>5, <3>7, <3>8
  <2>4. CASE c \notin failing
    <3>1. chans'[c] = x
      BY <1>1, <2>1, <2>4
    <3>2. deferred'[c] = n
      <4>1. deferred'[c] = deferred[c] + 0
        BY <1>1, <2>4
      <4> QED
        BY <2>2, <4>1
    <3>3. Count(c)' = h + n + m
      BY <1>1, <2>2, <3>2 DEF Count, IsListed, Listed
    <3>4. Same(chans[c], chans'[c]) /\ Sane(chans'[c])
      BY <2>1, <3>1 DEF Same, CountInv
    <3> QED
      BY <2>1, <2>2, <3>1, <3>2, <3>3, <3>4
  <2> QED
    BY <2>3, <2>4
<1>3. chans' \in [Chans -> Fields] /\ deferred' \in [Chans -> Nat]
  <2>1. /\ chans' = [c \in Chans |-> chans'[c]] /\ \A c \in Chans : chans'[c] \in Fields
        /\ deferred' = [c \in Chans |-> deferred'[c]] /\ \A c \in Chans : deferred'[c] \in Nat
    BY <1>1, <1>2
  <2> QED
    BY <2>1
<1>4. ListeningTypeOK'
  BY <1>1, <1>3 DEF ListeningTypeOK
<1>5. CountInv'
  BY <1>2 DEF CountInv
<1>6. ListsInv' /\ ListensInv' /\ SocketInv'
  <2>1. /\ \A k \in LPs : lp'[k].channels = lp[k].channels
        /\ lp'["UDP"].sock = lp["UDP"].sock
    BY <1>1
  <2>2. \A c \in Chans : Same(chans[c], chans'[c])
    BY <1>2
  <2> QED
    BY <1>4, <1>5, <2>1, <2>2, KeptLists
<1>7. ClosingInv'
  BY <1>1, StillQuiet
<1> QED
  BY <1>4, <1>5, <1>6, <1>7

LEMMA AcceptKeeps ==
    ASSUME Inv, NEW ok \in BOOLEAN, AcceptFails(ok)
    PROVE  Inv'
<1> USE DEF Inv
<1>1. /\ Quiet /\ \E s \in Nat : lp' = [lp EXCEPT !["TCP"].sock = s]
      /\ chans' = chans /\ held' = held /\ deferred' = deferred /\ cleaning' = cleaning
  <2>1. lp["TCP"].sock \in Nat /\ Closed \in Nat
    BY ListTypes DEF LPs, Closed
  <2>2. PICK s : s = IF ok THEN lp["TCP"].sock ELSE Closed
    OBVIOUS
  <2>3. s \in Nat
    BY <2>1, <2>2
  <2>4. lp' = [lp EXCEPT !["TCP"].sock = s]
    BY <2>2 DEF AcceptFails
  <2> QED
    BY <2>3, <2>4 DEF AcceptFails
<1>2. PICK s \in Nat : lp' = [lp EXCEPT !["TCP"].sock = s]
  BY <1>1
<1>3. "TCP" \in LPs /\ "UDP" \in LPs
  BY DEF LPs
<1>4. PICK x \in [sock : Nat, channels : Seq(Chans)] : x = lp["TCP"]
  BY <1>3 DEF ListeningTypeOK
<1>5. PICK y : y = [x EXCEPT !.sock = s]
  OBVIOUS
<1>6. y \in [sock : Nat, channels : Seq(Chans)] /\ y.channels = x.channels
  BY <1>5
<1>7. lp' = [lp EXCEPT !["TCP"] = y]
  BY <1>2, <1>4, <1>5
<1>8. /\ lp' \in [LPs -> [sock : Nat, channels : Seq(Chans)]]
      /\ \A k \in LPs : lp'[k].channels = lp[k].channels
      /\ lp'["UDP"] = lp["UDP"]
  BY <1>3, <1>4, <1>6, <1>7 DEF ListeningTypeOK
<1>9. ListeningTypeOK'
  BY <1>1, <1>8 DEF ListeningTypeOK
<1>10. CountInv'
  <2>1. \A d \in Chans : IsListed(d)' <=> IsListed(d)
    BY <1>8 DEF IsListed, Listed
  <2>2. \A d \in Chans : /\ chans'[d].ref = chans[d].ref /\ Sane(chans'[d])
                         /\ deferred'[d] = deferred[d] /\ (d \in held' <=> d \in held)
                         /\ (IsListed(d)' <=> IsListed(d))
    BY <1>1, <2>1 DEF CountInv
  <2> QED
    BY <2>2, SameCounted
<1>11. ListsInv' /\ ListensInv' /\ SocketInv'
  <2>1. \A c \in Chans : Same(chans[c], chans'[c])
    BY <1>1 DEF Same
  <2> QED
    BY <1>8, <1>9, <1>10, <2>1, KeptLists
<1>12. ClosingInv'
  BY <1>1, StillQuiet
<1> QED
  BY <1>9, <1>10, <1>11, <1>12

\* A step that only moves the clean-up on.
LEMMA CleaningKeeps ==
    ASSUME Inv, lp' = lp, chans' = chans, held' = held, deferred' = deferred,
           cleaning' \in [lp : LPs \cup {Nobody}, next : {"keep", "reopen", Nobody},
                          at : Chans \cup {Nobody}, todo : Chans \cup {Nobody}],
           ClosingInv'
    PROVE  Inv'
<1> USE DEF Inv
<1>1. ListeningTypeOK'
  BY DEF ListeningTypeOK
<1>2. ListsInv' /\ ListensInv' /\ SocketInv'
  BY DEF ListsInv, ListensInv, SocketInv, Listed
<1>3. CountInv'
  BY DEF CountInv, Count, IsListed, Listed
<1> QED
  BY <1>1, <1>2, <1>3

LEMMA StartKeeps ==
    ASSUME Inv, NEW l \in LPs, belle_sip_provider_clean_channels(l) \/ RecvFails
    PROVE  Inv'
<1> USE DEF Inv
<1>1. PICK k \in LPs, next \in {"keep", "reopen"} :
        /\ Quiet /\ StartCleaning(k, next)
        /\ lp' = lp /\ chans' = chans /\ held' = held /\ deferred' = deferred
  BY DEF belle_sip_provider_clean_channels, RecvFails, LPs
<1> DEFINE list == lp[k].channels
           todo == IF list = <<>> THEN Nobody ELSE Head(list)
<1>2. cleaning' = [lp |-> k, next |-> next, at |-> Nobody, todo |-> todo]
  BY <1>1 DEF StartCleaning
<1>3. list \in Seq(Chans) /\ Len(list) \in Nat
  BY ListTypes
<1>4. todo \in Chans \cup {Nobody} /\ todo = IF 0 = Len(list) THEN Nobody ELSE list[0 + 1]
  BY <1>3
<1> HIDE DEF todo, list
<1>5. cleaning' \in [lp : LPs \cup {Nobody}, next : {"keep", "reopen", Nobody},
                     at : Chans \cup {Nobody}, todo : Chans \cup {Nobody}]
  BY <1>2, <1>4
<1>6. /\ cleaning'.lp = k /\ cleaning'.at = Nobody /\ cleaning'.todo = todo
      /\ lp'[k].channels = list
  BY <1>1, <1>2 DEF list
<1>7. Closing(0)'
  <2>1. 0 \in 0..Len(list) /\ \A i \in 1..0 : FALSE
    BY <1>3
  <2> QED
    BY <1>4, <1>6, <2>1 DEF Closing
<1>8. ClosingInv'
  <2>1. 0 \in 0..Len(list)
    BY <1>3
  <2>2. ~Quiet'
    BY <1>6, ListeningPointsAssumption DEF Quiet, LPs, Nobody
  <2> QED
    BY <1>6, <1>7, <2>1, <2>2 DEF ClosingInv
<1> QED
  BY <1>1, <1>5, <1>8, CleaningKeeps

\* The channels of a list are distinct and in no other one.
LEMMA ListedOnce ==
    ASSUME ListeningTypeOK, ListsInv, NEW l \in LPs, NEW c \in Listed(l)
    PROVE  \A k \in LPs : c \in Listed(k) => k = l
<1>1. ASSUME NEW k \in LPs, c \in Listed(k) PROVE chans[c].owner = k
  <2>1. PICK i \in 1..Len(lp[k].channels) : c = lp[k].channels[i]
    BY <1>1, ListTypes DEF Listed
  <2> QED
    BY <2>1 DEF ListsInv
<1> QED
  BY <1>1

\* The clean-up under way, with rigid names.
LEMMA UnderWay ==
    ASSUME Inv, cleaning.lp # Nobody
    PROVE  \E l \in LPs : \E list \in Seq(Chans) : \E n \in 0..Len(list) :
             /\ cleaning.lp = l /\ lp[l].channels = list /\ Len(list) \in Nat
             /\ \A i \in 1..n : chans[list[i]].force_close
             /\ cleaning.at # Nobody => n # 0 /\ list[n] = cleaning.at
             /\ cleaning.at = Nobody =>
                  cleaning.todo = IF n = Len(list) THEN Nobody ELSE list[n + 1]
<1> USE DEF Inv
<1>1. cleaning.lp \in LPs
  BY DEF ListeningTypeOK
<1>2. PICK l \in LPs : cleaning.lp = l
  BY <1>1
<1>3. PICK list \in Seq(Chans) : lp[l].channels = list
  BY ListTypes
<1>4. PICK n \in 0..Len(list) : Closing(n)
  BY <1>2, <1>3 DEF ClosingInv, Quiet
<1> QED
  BY <1>2, <1>3, <1>4 DEF Closing

LEMMA CleanNextKeeps ==
    ASSUME Inv, CleanNext
    PROVE  Inv'
<1> USE DEF Inv
<1>1. PICK c : c = cleaning.todo
  OBVIOUS
<1>2. /\ cleaning.lp # Nobody /\ cleaning.at = Nobody /\ c # Nobody
      /\ chans' = [chans EXCEPT ![c].force_close = TRUE, ![c].state = "DISCONNECTED"]
      /\ cleaning' = [cleaning EXCEPT !.at = c]
      /\ lp' = lp /\ held' = held /\ deferred' = deferred
  BY <1>1 DEF CleanNext
<1>3. PICK l \in LPs : \E list \in Seq(Chans) : \E n \in 0..Len(list) :
        /\ cleaning.lp = l /\ lp[l].channels = list /\ Len(list) \in Nat
        /\ \A i \in 1..n : chans[list[i]].force_close
        /\ cleaning.at # Nobody => n # 0 /\ list[n] = cleaning.at
        /\ cleaning.at = Nobody =>
             cleaning.todo = IF n = Len(list) THEN Nobody ELSE list[n + 1]
  BY <1>2, UnderWay
<1>4. PICK list \in Seq(Chans) : \E n \in 0..Len(list) :
        /\ cleaning.lp = l /\ lp[l].channels = list /\ Len(list) \in Nat
        /\ \A i \in 1..n : chans[list[i]].force_close
        /\ cleaning.todo = IF n = Len(list) THEN Nobody ELSE list[n + 1]
  BY <1>2, <1>3
<1>5. PICK n \in 0..Len(list) :
        /\ cleaning.lp = l /\ lp[l].channels = list /\ Len(list) \in Nat
        /\ \A i \in 1..n : chans[list[i]].force_close
        /\ cleaning.todo = IF n = Len(list) THEN Nobody ELSE list[n + 1]
  BY <1>4
<1>6. n # Len(list) /\ n + 1 \in 1..Len(list) /\ c = list[n + 1] /\ c \in Chans
  BY <1>1, <1>2, <1>5
<1>7. c \in Listed(l) /\ IsListed(c) /\ \A i \in 1..Len(list) : list[i] \in Chans
  BY <1>5, <1>6 DEF Listed, IsListed
<1>8. PICK x \in Fields : x = chans[c]
  BY <1>6 DEF ListeningTypeOK
<1>9. PICK y : y = [x EXCEPT !.force_close = TRUE, !.state = "DISCONNECTED"]
  OBVIOUS
<1>10. /\ y \in Fields /\ y.ref = x.ref /\ y.state = "DISCONNECTED" /\ y.owner = x.owner
       /\ y.has_name = x.has_name /\ y.sock = x.sock /\ y.listens = x.listens
       /\ y.force_close = TRUE
  BY <1>8, <1>9 DEF Fields, ChannelStates
<1>11. chans' = [chans EXCEPT ![c] = y]
  BY <1>2, <1>8, <1>9
<1>12. /\ chans' \in [Chans -> Fields] /\ chans'[c] = y
       /\ \A d \in Chans : d # c => chans'[d] = chans[d]
  BY <1>6, <1>10, <1>11 DEF ListeningTypeOK
<1>13. x.ref # 0
  BY <1>6, <1>7, <1>8, ListedIsUsed
<1>14. Same(chans[c], chans'[c]) /\ Sane(chans'[c])
  BY <1>8, <1>10, <1>12, <1>13 DEF Same, Sane
<1>15. ListeningTypeOK'
  BY <1>2, <1>6, <1>12 DEF ListeningTypeOK
<1>16. CountInv'
  <2>1. \A d \in Chans : IsListed(d)' <=> IsListed(d)
    BY <1>2 DEF IsListed, Listed
  <2>2. ASSUME NEW d \in Chans PROVE chans'[d].ref = chans[d].ref /\ Sane(chans'[d])
    BY <1>8, <1>10, <1>12, <1>14 DEF CountInv
  <2>3. \A d \in Chans : /\ chans'[d].ref = chans[d].ref /\ Sane(chans'[d])
                         /\ deferred'[d] = deferred[d] /\ (d \in held' <=> d \in held)
                         /\ (IsListed(d)' <=> IsListed(d))
    BY <1>2, <2>1, <2>2
  <2> QED
    BY <2>3, SameCounted
<1>17. ListsInv' /\ ListensInv' /\ SocketInv'
  <2>1. \A d \in Chans : Same(chans[d], chans'[d])
    BY <1>12, <1>14 DEF Same
  <2>2. (\A k \in LPs : lp'[k].channels = lp[k].channels) /\ lp'["UDP"].sock = lp["UDP"].sock
    BY <1>2
  <2> QED
    BY <1>15, <1>16, <2>1, <2>2, KeptLists
<1>18. ClosingInv'
  <2>1. cleaning'.lp = l /\ cleaning'.at = c /\ lp'[l].channels = list
    BY <1>2, <1>5 DEF ListeningTypeOK
  <2>2. ASSUME NEW i \in 1..(n + 1) PROVE chans'[list[i]].force_close
    <3>1. list[i] \in Chans
      BY <1>6, <1>7
    <3>2. CASE list[i] = c
      BY <1>10, <1>12, <3>2
    <3>3. CASE list[i] # c
      <4>1. i \in 1..n
        BY <1>6, <3>3
      <4>2. chans[list[i]].force_close
        BY <1>5, <4>1
      <4> QED
        BY <1>12, <3>1, <3>3, <4>2
    <3> QED
      BY <3>2, <3>3
  <2>3. Closing(n + 1)'
    <3>1. n + 1 \in 0..Len(list) /\ n + 1 # 0
      BY <1>6
    <3> QED
      BY <1>2, <1>6, <2>1, <2>2, <3>1 DEF Closing
  <2>4. ~Quiet' /\ n + 1 \in 0..Len(list)
    BY <1>2, <1>5, <1>6, <2>1 DEF Quiet
  <2> QED
    BY <2>1, <2>3, <2>4 DEF ClosingInv
<1> QED
  BY <1>15, <1>16, <1>17, <1>18

LEMMA CleanReturnKeeps ==
    ASSUME Inv, CleanReturn
    PROVE  Inv'
<1> USE DEF Inv
<1>1. /\ cleaning.lp # Nobody /\ cleaning.at # Nobody
      /\ cleaning' = [cleaning EXCEPT !.at = Nobody,
                                      !.todo = After(lp[cleaning.lp].channels, cleaning.at)]
      /\ lp' = lp /\ chans' = chans /\ held' = held /\ deferred' = deferred
  BY DEF CleanReturn, InCallback
<1>2. PICK l \in LPs : \E list \in Seq(Chans) : \E n \in 0..Len(list) :
        /\ cleaning.lp = l /\ lp[l].channels = list /\ Len(list) \in Nat
        /\ \A i \in 1..n : chans[list[i]].force_close
        /\ n # 0 /\ list[n] = cleaning.at
  BY <1>1, UnderWay
<1>3. PICK list \in Seq(Chans) : \E n \in 0..Len(list) :
        /\ cleaning.lp = l /\ lp[l].channels = list /\ Len(list) \in Nat
        /\ \A i \in 1..n : chans[list[i]].force_close
        /\ n # 0 /\ list[n] = cleaning.at
  BY <1>2
<1>4. PICK n \in 0..Len(list) :
        /\ cleaning.lp = l /\ lp[l].channels = list /\ Len(list) \in Nat
        /\ \A i \in 1..n : chans[list[i]].force_close
        /\ n # 0 /\ list[n] = cleaning.at
  BY <1>3
<1>5. n \in 1..Len(list) /\ DOMAIN list = 1..Len(list)
  BY <1>4
<1>6. \A i, j \in 1..Len(list) : list[i] = list[j] => i = j
  BY <1>4 DEF ListsInv
<1>7. (CHOOSE i \in DOMAIN list : list[i] = cleaning.at) = n
  BY <1>4, <1>5, <1>6
<1>8. PICK todo : todo = IF n = Len(list) THEN Nobody ELSE list[n + 1]
  OBVIOUS
<1>9. After(list, cleaning.at) = todo
  <2> DEFINE place == CHOOSE i \in DOMAIN list : list[i] = cleaning.at
  <2>1. After(list, cleaning.at) = IF place = Len(list) THEN Nobody ELSE list[place + 1]
    BY DEF After
  <2>2. place = n
    BY <1>7
  <2> HIDE DEF place
  <2> QED
    BY <1>8, <2>1, <2>2
<1>10. todo \in Chans \cup {Nobody}
  <2>1. CASE n = Len(list)
    BY <1>8, <2>1
  <2>2. CASE n # Len(list)
    <3>1. n + 1 \in 1..Len(list)
      BY <1>4, <2>2
    <3> QED
      BY <1>8, <2>2, <3>1
  <2> QED
    BY <2>1, <2>2
<1>11. cleaning' = [cleaning EXCEPT !.at = Nobody, !.todo = todo]
  BY <1>1, <1>4, <1>9
<1>12. cleaning' \in [lp : LPs \cup {Nobody}, next : {"keep", "reopen", Nobody},
                      at : Chans \cup {Nobody}, todo : Chans \cup {Nobody}]
  BY <1>10, <1>11 DEF ListeningTypeOK
<1>13. cleaning'.lp = l /\ cleaning'.at = Nobody /\ cleaning'.todo = todo
  BY <1>4, <1>11 DEF ListeningTypeOK
<1>14. Closing(n)'
  BY <1>1, <1>4, <1>8, <1>13 DEF Closing
<1>15. ClosingInv'
  BY <1>1, <1>4, <1>13, <1>14 DEF ClosingInv, Quiet
<1> QED
  BY <1>1, <1>12, <1>15, CleaningKeeps

LEMMA CleanEndKeeps ==
    ASSUME Inv, NEW ok \in BOOLEAN, CleanEnd(ok)
    PROVE  Inv'
<1> USE DEF Inv
<1>1. /\ cleaning.lp # Nobody /\ cleaning.at = Nobody /\ cleaning.todo = Nobody
      /\ held' = held /\ deferred' = deferred
      /\ cleaning' = [lp |-> Nobody, next |-> Nobody, at |-> Nobody, todo |-> Nobody]
  BY DEF CleanEnd
<1>2. PICK l \in LPs : \E list \in Seq(Chans) : \E n \in 0..Len(list) :
        /\ cleaning.lp = l /\ lp[l].channels = list /\ Len(list) \in Nat
        /\ \A i \in 1..n : chans[list[i]].force_close
        /\ Nobody = IF n = Len(list) THEN Nobody ELSE list[n + 1]
  BY <1>1, UnderWay
<1>3. PICK list \in Seq(Chans) : \E n \in 0..Len(list) :
        /\ cleaning.lp = l /\ lp[l].channels = list /\ Len(list) \in Nat
        /\ \A i \in 1..n : chans[list[i]].force_close
        /\ Nobody = IF n = Len(list) THEN Nobody ELSE list[n + 1]
  BY <1>2
<1>4. PICK n \in 0..Len(list) :
        /\ cleaning.lp = l /\ lp[l].channels = list /\ Len(list) \in Nat
        /\ \A i \in 1..n : chans[list[i]].force_close
        /\ Nobody = IF n = Len(list) THEN Nobody ELSE list[n + 1]
  BY <1>3
<1>5. n = Len(list)
  <2> SUFFICES ASSUME n # Len(list) PROVE FALSE
    OBVIOUS
  <2>1. n + 1 \in 1..Len(list)
    BY <1>4
  <2>2. list[n + 1] \in Chans
    BY <2>1
  <2> QED
    BY <1>4, <2>2, ListeningPointsAssumption
\* All the channels of the list have been closed.
<1>6. \A c \in Listed(l) : c \in Chans /\ chans[c].force_close
  <2>1. \A c \in Listed(l) : \E i \in 1..Len(list) : c = list[i]
    BY <1>4 DEF Listed
  <2> QED
    BY <1>4, <1>5, <2>1
<1>7. chans' = [c \in Chans |-> IF c \in Listed(l) THEN Unref(chans, c)[c] ELSE chans[c]]
  BY <1>4 DEF CleanEnd
<1>8. PICK s \in Nat : lp' = [lp EXCEPT ![l].channels = <<>>, ![l].sock = s]
  <2>1. PICK old \in Nat : old = lp[l].sock
    BY ListTypes
  <2>2. PICK s : s = IF cleaning.next = "keep" THEN old ELSE IF ok THEN old + 1 ELSE Closed
    OBVIOUS
  <2>3. s \in Nat
    BY <2>2 DEF Closed
  <2>4. lp' = [lp EXCEPT ![l].channels = <<>>, ![l].sock = s]
    BY <1>4, <2>1, <2>2 DEF CleanEnd, emptied
  <2> QED
    BY <2>3, <2>4
<1>9. PICK x \in [sock : Nat, channels : Seq(Chans)] : x = lp[l]
  BY DEF ListeningTypeOK
<1>10. PICK y : y = [x EXCEPT !.channels = <<>>, !.sock = s]
  OBVIOUS
<1>11. <<>> \in Seq(Chans)
  OBVIOUS
<1>12. y \in [sock : Nat, channels : Seq(Chans)] /\ y.channels = <<>> /\ y.sock = s
  BY <1>10, <1>11
<1>13. lp' = [lp EXCEPT ![l] = y]
  BY <1>8, <1>9, <1>10
<1>14. /\ lp' \in [LPs -> [sock : Nat, channels : Seq(Chans)]]
       /\ lp'[l].channels = <<>>
       /\ \A k \in LPs : k # l => lp'[k] = lp[k]
  BY <1>12, <1>13 DEF ListeningTypeOK
<1>15. Listed(l)' = {} /\ \A k \in LPs : k # l => Listed(k)' = Listed(k)
  BY <1>14 DEF Listed
<1>16. \A d \in Chans : IsListed(d)' <=> IsListed(d) /\ d \notin Listed(l)
  <2>1. \A d \in Chans : d \in Listed(l) => \A k \in LPs : d \in Listed(k) => k = l
    BY ListedOnce
  <2> QED
    BY <1>15, <2>1 DEF IsListed
<1>17. ASSUME NEW c \in Chans
       PROVE  /\ chans'[c] \in Fields /\ Same(chans[c], chans'[c]) /\ Sane(chans'[c])
              /\ chans'[c].ref = Count(c)'
  <2>1. PICK h \in 0..1, k \in Nat, m \in 0..1 :
          /\ h = IF c \in held THEN 1 ELSE 0
          /\ k = deferred[c]
          /\ m = IF IsListed(c) THEN 1 ELSE 0
          /\ chans[c].ref = h + k + m /\ chans[c].ref \in Nat
    BY Counted
  <2>2. CASE c \in Listed(l)
    <3>1. IsListed(c) /\ ~IsListed(c)'
      BY <1>16, <2>2 DEF IsListed
    <3>2. chans[c].ref = h + k + 1 /\ chans[c].ref # 0
      BY <2>1, <3>1
    <3>3. chans[c].state # "FREE"
      BY <3>2 DEF CountInv, Sane
    <3>4. chans'[c] = Unref(chans, c)[c]
      BY <1>7, <2>2
    <3>5. /\ Unref(chans, c) \in [Chans -> Fields]
          /\ Unref(chans, c)[c].ref = chans[c].ref - 1
          /\ Same(chans[c], Unref(chans, c)[c]) /\ Sane(Unref(chans, c)[c])
      BY <3>2, <3>3, UnrefFields DEF ListeningTypeOK
    <3>6. Count(c)' = h + k + 0
      BY <1>1, <2>1, <3>1 DEF Count
    <3> QED
      BY <2>1, <3>2, <3>4, <3>5, <3>6
  <2>3. CASE c \notin Listed(l)
    <3>1. chans'[c] = chans[c] /\ (IsListed(c)' <=> IsListed(c))
      BY <1>7, <1>16, <2>3
    <3>2. Count(c)' = Count(c)
      BY <1>1, <3>1 DEF Count
    <3> QED
      BY <3>1, <3>2 DEF Same, CountInv, ListeningTypeOK
  <2> QED
    BY <2>2, <2>3
<1>18. ListeningTypeOK'
  <2>1. chans' = [c \in Chans |-> chans'[c]] /\ \A c \in Chans : chans'[c] \in Fields
    BY <1>7, <1>17
  <2>2. chans' \in [Chans -> Fields]
    BY <2>1
  <2> QED
    BY <1>1, <1>14, <2>2 DEF ListeningTypeOK
<1>19. CountInv'
  BY <1>17 DEF CountInv
<1>20. ListsInv' /\ ListensInv' /\ SocketInv'
  <2>1. ASSUME NEW k \in LPs PROVE Thinner(lp'[k].channels, lp[k].channels)
    <3>1. CASE k = l
      BY <1>14, <3>1 DEF Thinner
    <3>2. CASE k # l
      <4>1. lp'[k].channels = lp[k].channels
        BY <1>14, <3>2
      <4>2. \A i, j \in 1..Len(lp[k].channels) :
              lp[k].channels[i] = lp[k].channels[j] => i = j
        BY DEF ListsInv
      <4>3. Thinner(lp[k].channels, lp[k].channels)
        BY <4>2 DEF Thinner
      <4> QED
        BY <4>1, <4>3
    <3> QED
      BY <3>1, <3>2
  <2>2. \A c \in Chans : Same(chans[c], chans'[c])
    BY <1>17
  <2>3. ASSUME NEW c \in Chans, NEW k \in LPs, chans'[c].listens, ~chans'[c].force_close,
               c \in Listed(k)
        PROVE  c \in Listed(k)'
    <3>1. k # l
      <4> SUFFICES ASSUME k = l PROVE FALSE
        OBVIOUS
      <4>1. chans[c].force_close
        BY <1>6, <2>3
      <4>2. chans'[c] = Free
        BY <2>2, <2>3, <4>1 DEF Same
      <4> QED
        BY <2>3, <4>2, FreeIsFields
    <3> QED
      BY <1>15, <2>3, <3>1
  <2>4. lp'["UDP"].sock = lp["UDP"].sock \/ lp'["UDP"].channels = <<>>
    <3>1. CASE l = "UDP"
      BY <1>14, <3>1
    <3>2. CASE l # "UDP"
      BY <1>14, <3>2 DEF LPs
    <3> QED
      BY <3>1, <3>2
  <2>5. \A k \in LPs : Thinner(lp'[k].channels, lp[k].channels)
    BY <2>1
  <2>6. \A c \in Chans : \A k \in LPs :
          chans'[c].listens /\ ~chans'[c].force_close /\ c \in Listed(k) => c \in Listed(k)'
    BY <2>3
  <2> QED
    BY <1>18, <1>19, <2>2, <2>4, <2>5, <2>6, ThinnedLists
<1>21. ClosingInv'
  BY <1>1 DEF ClosingInv, Quiet
<1> QED
  BY <1>18, <1>19, <1>20, <1>21

-----------------------------------------------------------------------------
(***************************************************************************)
(* The theorems.                                                           *)
(***************************************************************************)
LEMMA InitHolds == ListeningInit => Inv
<1> SUFFICES ASSUME ListeningInit PROVE Inv
  OBVIOUS
<1>1. /\ lp = [l \in LPs |-> [sock |-> 1, channels |-> <<>>]]
      /\ chans = [c \in Chans |-> Free] /\ held = {} /\ deferred = [c \in Chans |-> 0]
      /\ cleaning = [lp |-> Nobody, next |-> Nobody, at |-> Nobody, todo |-> Nobody]
  BY DEF ListeningInit
<1>2. <<>> \in Seq(Chans)
  OBVIOUS
<1>3. [sock |-> 1, channels |-> <<>>] \in [sock : Nat, channels : Seq(Chans)]
  BY <1>2
<1>4. ListeningTypeOK
  BY <1>1, <1>3, FreeIsFields DEF ListeningTypeOK
<1>5. \A l \in LPs : lp[l].channels = <<>> /\ Listed(l) = {}
  BY <1>1 DEF Listed
<1>6. ListsInv
  BY <1>5 DEF ListsInv
<1>7. ListensInv
  BY <1>1, FreeIsFields DEF ListensInv
<1>8. CountInv
  <2>1. \A c \in Chans : ~IsListed(c)
    BY <1>5 DEF IsListed
  <2>2. \A c \in Chans : Count(c) = 0
    BY <1>1, <2>1 DEF Count
  <2>3. \A c \in Chans : chans[c].ref = 0 /\ Sane(chans[c])
    BY <1>1, FreeIsFields DEF Sane
  <2> QED
    BY <2>2, <2>3 DEF CountInv
<1>9. SocketInv
  BY <1>5 DEF SocketInv, LPs
<1>10. ClosingInv
  BY <1>1 DEF ClosingInv, Quiet
<1> QED
  BY <1>4, <1>6, <1>7, <1>8, <1>9, <1>10 DEF Inv

LEMMA StepHolds == ~SendsInCallback /\ Inv /\ [ListeningNext]_listeningVars => Inv'
<1> SUFFICES ASSUME ~SendsInCallback, Inv, [ListeningNext]_listeningVars
             PROVE  Inv'
  OBVIOUS
<1>1. ASSUME NEW c \in Chans, NEW l \in LPs, NEW p \in Peers, NEW byName \in BOOLEAN,
             belle_sip_provider_get_channel(l, p, byName, c)
      PROVE  Inv'
  BY <1>1, GetChannelKeeps
<1>2. ASSUME NEW c \in Chans, ReleaseTransaction(c) PROVE Inv'
  BY <1>2, ReleaseKeeps
<1>3. ASSUME NEW c \in Chans, Connected(c) PROVE Inv'
  BY <1>3, ConnectedKeeps
<1>4. ASSUME NEW c \in Chans, Failed(c) PROVE Inv'
  BY <1>4, FailedKeeps
<1>5. ASSUME NEW c \in Chans, NotifyDeferred(c) PROVE Inv'
  BY <1>5, NotifyKeeps
<1>6. ASSUME NEW c \in Chans, Disconnected(c) PROVE Inv'
  BY <1>6, DisconnectedKeeps
<1>7. ASSUME NEW c \in Chans, NEW p \in Peers, on_udp_data(p, c) \/ on_new_connection(p, c)
      PROVE  Inv'
  BY <1>7, InputKeeps
<1>8. ASSUME NEW l \in LPs, NEW failing \in SUBSET Chans, KeepAlive(l, failing) PROVE Inv'
  BY <1>8, KeepAliveKeeps
<1>9. ASSUME NEW l \in LPs, belle_sip_provider_clean_channels(l) PROVE Inv'
  BY <1>9, StartKeeps
<1>10. CASE RecvFails
  BY <1>10, StartKeeps DEF LPs
<1>11. CASE CleanNext
  BY <1>11, CleanNextKeeps
<1>12. CASE CleanReturn
  BY <1>12, CleanReturnKeeps
<1>13. ASSUME NEW ok \in BOOLEAN, AcceptFails(ok) PROVE Inv'
  BY <1>13, AcceptKeeps
<1>14. ASSUME NEW ok \in BOOLEAN, CleanEnd(ok) PROVE Inv'
  BY <1>14, CleanEndKeeps
<1>15. CASE UNCHANGED listeningVars
  BY <1>15, StutterKeeps
<1> QED
  BY <1>1, <1>2, <1>3, <1>4, <1>5, <1>6, <1>7, <1>8, <1>9, <1>10, <1>11, <1>12, <1>13, <1>14,
     <1>15, Zenon DEF ListeningNext

\* The invariant of the behaviours in which the application sends nothing from the calls of its
\* listener.
IInv == ~SendsInCallback /\ Inv

\* What the fields of the listening points, the channels and the clean-up under way may be, as
\* long as the application sends nothing from the calls of its listener.
THEOREM TypeCorrect == (~SendsInCallback) /\ ListeningSpec => []ListeningTypeOK
<1>1. (~SendsInCallback) /\ ListeningInit => IInv
  BY InitHolds DEF IInv
<1>2. IInv /\ [ListeningNext]_listeningVars => IInv'
  BY StepHolds DEF IInv
<1>3. IInv => ListeningTypeOK
  BY DEF IInv, Inv
<1> QED
  BY <1>1, <1>2, <1>3, PTL DEF ListeningSpec

\* The listening points that have a channel are as many as it counts.
LEMMA HoldersAreCounted ==
    ASSUME ListeningTypeOK, ListsInv, NEW c \in Chans
    PROVE  Holders(c) = Count(c)
<1> DEFINE owners == {l \in LPs : c \in Listed(l)}
<1>1. CASE IsListed(c)
  <2>1. PICK l \in LPs : c \in Listed(l)
    BY <1>1 DEF IsListed
  <2>2. owners = {l}
    BY <2>1, ListedOnce
  <2>3. Cardinality(owners) = 1
    BY <2>2, FS_Singleton
  <2> QED
    BY <1>1, <2>3 DEF Holders, Count
<1>2. CASE ~IsListed(c)
  <2>1. owners = {}
    BY <1>2 DEF IsListed
  <2>2. Cardinality(owners) = 0
    BY <2>1, FS_EmptySet
  <2> QED
    BY <1>2, <2>2 DEF Holders, Count
<1> QED
  BY <1>1, <1>2

LEMMA InvReleases == Inv => ReleasedOnce
<1> SUFFICES ASSUME Inv PROVE ReleasedOnce
  OBVIOUS
<1>1. \A c \in Chans : chans[c].ref = Holders(c)
  BY HoldersAreCounted DEF Inv, CountInv
<1>2. ASSUME NEW c \in Listed("UDP") PROVE chans[c].sock = lp["UDP"].sock
  <2>1. PICK i \in 1..Len(lp["UDP"].channels) : c = lp["UDP"].channels[i]
    BY <1>2, ListTypes DEF Inv, Listed, LPs
  <2> QED
    BY <2>1 DEF Inv, SocketInv
<1> QED
  BY <1>1, <1>2 DEF ReleasedOnce

\* A channel is freed once: its references are those of the transactions, of the deferred
\* notifications and of the one listening point that has it. The channels of the UDP listening
\* point have the socket it reads (channel_state_changed(),
\* belle_sip_listening_point_remove_channel(), belle_sip_listening_point_clean_channels()).
THEOREM ReleasedOnceHolds == (~SendsInCallback) /\ ListeningSpec => []ReleasedOnce
<1>1. (~SendsInCallback) /\ ListeningInit => IInv
  BY InitHolds DEF IInv
<1>2. IInv /\ [ListeningNext]_listeningVars => IInv'
  BY StepHolds DEF IInv
<1>3. IInv => ReleasedOnce
  BY InvReleases DEF IInv
<1> QED
  BY <1>1, <1>2, <1>3, PTL DEF ListeningSpec

LEMMA InvSamePath == Inv => SamePath
<1> SUFFICES ASSUME Inv, NEW p \in Peers,
                    FindChannel("UDP", p, "datagram") # Nobody,
                    ~chans[FindChannel("UDP", p, "datagram")].has_name,
                    NEW d \in Listed("UDP"),
                    chans[d].peer = p, chans[d].has_name, chans[d].current_peer
             PROVE  FALSE
  BY DEF SamePath
<1>1. "UDP" \in LPs
  BY DEF LPs
<1>2. PICK list : list = lp["UDP"].channels
  OBVIOUS
<1>3. list \in Seq(Chans) /\ DOMAIN list = 1..Len(list) /\ Len(list) \in Nat
  BY <1>1, <1>2, ListTypes DEF Inv
<1>4. PICK i \in 1..Len(list) :
        /\ list[i] = FindChannel("UDP", p, "datagram")
        /\ \A j \in 1..Len(list) : belle_sip_channel_matches(list[j], p, "datagram") => i <= j
  BY <1>1, <1>2, FoundIsFirst DEF Inv
<1>5. PICK j \in 1..Len(list) : d = list[j]
  BY <1>2, <1>3 DEF Listed
<1>6. belle_sip_channel_matches(list[j], p, "datagram")
  BY <1>5 DEF belle_sip_channel_matches
<1>7. i <= j
  BY <1>4, <1>6
<1>8. ~chans[list[i]].has_name /\ chans[list[j]].has_name
  BY <1>4, <1>5
<1>9. i # j
  BY <1>8
<1>10. i < j
  BY <1>3, <1>7, <1>9
<1> QED
  BY <1>1, <1>2, <1>8, <1>10 DEF Inv, ListsInv

\* What comes from a party over UDP is given to the channel by which requests go to it: the
\* channels with a name are before the others (belle_sip_listening_point_add_channel(),
\* belle_sip_channel_find_from_list_with_addrinfo()).
THEOREM SamePathHolds == (~SendsInCallback) /\ ListeningSpec => []SamePath
<1>1. (~SendsInCallback) /\ ListeningInit => IInv
  BY InitHolds DEF IInv
<1>2. IInv /\ [ListeningNext]_listeningVars => IInv'
  BY StepHolds DEF IInv
<1>3. IInv => SamePath
  BY InvSamePath DEF IInv
<1> QED
  BY <1>1, <1>2, <1>3, PTL DEF ListeningSpec
=============================================================================
