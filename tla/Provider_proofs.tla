---------------------------- MODULE Provider_proofs ----------------------------
(***************************************************************************)
(* Theorems about Provider, for any number of peers, requests, challengers *)
(* and nonces: the peers of a forked INVITE are kept apart, an ACK is told *)
(* once, the uses of a nonce are counted exactly, and an HTTP request is   *)
(* told the answer to itself and no other.                                 *)
(***************************************************************************)
EXTENDS Provider, FiniteSetTheorems, ListLemmas

-----------------------------------------------------------------------------
(***************************************************************************)
(* Forking.                                                                *)
(***************************************************************************)
ForkStates == {"NULL", "EARLY", "CONFIRMED", "TERMINATED", "RELEASED"}

Forks ==
    [state : ForkStates, tag : ForkTags \cup {NoTag}, needs_ack : BOOLEAN, acked : BOOLEAN,
     leaving : BOOLEAN]

ForkCodes == {100, 180, 200, 486}

Tags == ForkTags \cup {NoTag}

IctStates == {"PROCEEDING", "COMPLETED", "ACCEPTED", "TERMINATED"}

\* The types of the client transaction and its dialogs.
ForkTypeOK ==
    /\ ict \in IctStates
    /\ forks \in Seq(Forks) /\ tdialog \in 0..Len(forks) /\ answers \in Nat
    /\ event \in [code : ForkCodes \cup {0}, tag : Tags, place : 0..Len(forks)]
    /\ lost \in BOOLEAN /\ aborted \in BOOLEAN

\* The transaction's dialog was not released. Only the dialog that was made with the request, before
\* any response, is in state NULL: it is then the only one, and has no tag.
PlaceInv ==
    /\ tdialog # 0 => forks[tdialog].state # "RELEASED"
    /\ \A i \in DOMAIN forks :
         forks[i].state = "NULL" => Len(forks) = 1 /\ tdialog = 1 /\ forks[i].tag = NoTag

\* While the transaction keeps a dialog (or there is none to keep), no peer has two.
ApartInv ==
    ~lost =>
      /\ \A i, j \in DOMAIN forks :
           /\ StillListed(i) /\ StillListed(j) /\ forks[i].tag = forks[j].tag
           /\ forks[i].tag # NoTag
           => i = j
      /\ tdialog = 0 => \A i \in DOMAIN forks : ~StillListed(i)

\* The 2xx of a peer is acknowledged or its call hung up.
Settled == {d \in Forks : d.state = "CONFIRMED" => ~d.needs_ack \/ d.leaving}

\* An event with a dialog is of the dialog's peer; every accepted call is settled.
ToldInv ==
    /\ event.place # 0 /\ event.code \in 101..299 =>
         forks[event.place].tag = event.tag \/ forks[event.place].state = "TERMINATED"
    /\ \A i \in DOMAIN forks : forks[i] \in Settled

\* The program is aborted only when the transaction has lost its dialog.
AbortInv == aborted => lost

ForkInv == ForkTypeOK /\ PlaceInv /\ ApartInv /\ ToldInv /\ AbortInv

\* What a response does to the dialog it goes to.
LEMMA ListenedFork ==
    ASSUME NEW d \in Forks, NEW code \in ForkCodes, NEW tag \in Tags,
           NEW e \in Listened(ForkUpdated(d, code, tag))
    PROVE  /\ e \in Forks
           /\ e \in Settled
           /\ e.tag = d.tag \/ (d.tag = NoTag /\ e.tag = tag /\ code \in 101..299)
           /\ d.state \in {"TERMINATED", "RELEASED"} => e.state = d.state /\ e.tag = d.tag
           /\ d.state # "NULL" => e.state # "NULL"
           /\ e.state = "RELEASED" => d.state = "RELEASED"
           /\ e.state \in {"NULL", "EARLY", "CONFIRMED"} =>
                d.state \in {"NULL", "EARLY", "CONFIRMED"}
           /\ d.state = "NULL" /\ code \in 101..299 =>
                e.state # "NULL" /\ (d.tag \in {tag, NoTag} => e.tag = tag)
<1> DEFINE u == ForkUpdated(d, code, tag)
           w == WithTag(d, tag)
<1>1. /\ w \in Forks /\ w.state = d.state /\ (w.tag = d.tag \/ (d.tag = NoTag /\ w.tag = tag))
      /\ d.tag \in {tag, NoTag} => w.tag = tag
  BY DEF WithTag, Forks, Tags
<1> HIDE DEF w
<1>2. /\ [d EXCEPT !.state = "TERMINATED"] \in Forks
      /\ [d EXCEPT !.state = "TERMINATED"].tag = d.tag
      /\ [d EXCEPT !.state = "TERMINATED"].state = "TERMINATED"
  BY DEF Forks, ForkStates
<1>3. /\ [w EXCEPT !.state = "CONFIRMED", !.needs_ack = TRUE] \in Forks
      /\ [w EXCEPT !.state = "CONFIRMED", !.needs_ack = TRUE].tag = w.tag
      /\ [w EXCEPT !.state = "CONFIRMED", !.needs_ack = TRUE].state = "CONFIRMED"
  BY <1>1 DEF Forks, ForkStates
<1>4. /\ [w EXCEPT !.state = "EARLY"] \in Forks
      /\ [w EXCEPT !.state = "EARLY"].tag = w.tag
      /\ [w EXCEPT !.state = "EARLY"].state = "EARLY"
  BY <1>1 DEF Forks, ForkStates
<1>5. /\ [d EXCEPT !.needs_ack = TRUE] \in Forks
      /\ [d EXCEPT !.needs_ack = TRUE].tag = d.tag
      /\ [d EXCEPT !.needs_ack = TRUE].state = d.state
  BY DEF Forks
<1>6. /\ u \in Forks
      /\ u.tag = d.tag \/ (d.tag = NoTag /\ u.tag = tag /\ code \in 101..299)
      /\ d.state \in {"TERMINATED", "RELEASED"} => u.state = d.state /\ u.tag = d.tag
      /\ d.state # "NULL" => u.state # "NULL"
      /\ u.state = "RELEASED" => d.state = "RELEASED"
      /\ u.state \in {"NULL", "EARLY", "CONFIRMED"} => d.state \in {"NULL", "EARLY", "CONFIRMED"}
      /\ d.state = "NULL" /\ code \in 101..299 =>
           u.state # "NULL" /\ (d.tag \in {tag, NoTag} => u.tag = tag)
  <2>1. CASE d.state \in {"NULL", "EARLY"} /\ code = 486
    <3>1. u = [d EXCEPT !.state = "TERMINATED"]
      BY <2>1 DEF ForkUpdated
    <3> HIDE DEF u
    <3> QED
      BY <1>2, <2>1, <3>1
  <2>2. CASE d.state \in {"NULL", "EARLY"} /\ code = 200
    <3>1. u = [w EXCEPT !.state = "CONFIRMED", !.needs_ack = TRUE]
      BY <2>2 DEF ForkUpdated, w
    <3> HIDE DEF u
    <3> QED
      BY <1>1, <1>3, <2>2, <3>1
  <2>3. CASE d.state = "NULL" /\ code = 180
    <3>1. u = [w EXCEPT !.state = "EARLY"]
      BY <2>3 DEF ForkUpdated, w
    <3> HIDE DEF u
    <3> QED
      BY <1>1, <1>4, <2>3, <3>1
  <2>4. CASE d.state = "CONFIRMED" /\ code = 200
    BY <1>5, <2>4 DEF ForkUpdated
  <2>5. CASE /\ ~(d.state \in {"NULL", "EARLY"} /\ code \in {486, 200})
             /\ ~(d.state = "NULL" /\ code = 180) /\ ~(d.state = "CONFIRMED" /\ code = 200)
    <3>1. u = d
      BY <2>5 DEF ForkUpdated, ForkCodes
    <3> QED
      BY <2>5, <3>1 DEF ForkCodes, Forks, ForkStates
  <2> QED
    BY <2>1, <2>2, <2>3, <2>4, <2>5 DEF ForkCodes
<1> HIDE DEF u
<1>7. /\ [u EXCEPT !.needs_ack = FALSE, !.acked = TRUE] \in Forks
      /\ [u EXCEPT !.needs_ack = FALSE, !.acked = TRUE].tag = u.tag
      /\ [u EXCEPT !.needs_ack = FALSE, !.acked = TRUE].state = u.state
      /\ ~[u EXCEPT !.needs_ack = FALSE, !.acked = TRUE].needs_ack
  BY <1>6 DEF Forks
<1>8. /\ [u EXCEPT !.leaving = TRUE] \in Forks
      /\ [u EXCEPT !.leaving = TRUE].tag = u.tag
      /\ [u EXCEPT !.leaving = TRUE].state = u.state
      /\ [u EXCEPT !.leaving = TRUE].leaving
  BY <1>6 DEF Forks
<1>9. \/ e = u /\ ~u.needs_ack
      \/ e = [u EXCEPT !.needs_ack = FALSE, !.acked = TRUE] \/ e = [u EXCEPT !.leaving = TRUE]
  BY Zenon DEF Listened, u
<1>10. e \in Forks /\ e.tag = u.tag /\ e.state = u.state
  BY <1>6, <1>7, <1>8, <1>9
<1>11. ~e.needs_ack \/ e.leaving
  BY Zenon, <1>7, <1>8, <1>9
<1>12. e \in Settled
  BY Zenon, <1>10, <1>11 DEF Settled
<1> QED
  BY <1>6, <1>10, <1>12

\* What a response does to the dialogs and to the event.
LEMMA HandledForks ==
    ASSUME NEW fs \in Seq(Forks), NEW i \in 1..Len(fs), NEW code \in ForkCodes, NEW tag \in Tags,
           Handled(fs, i, code, tag)
    PROVE  /\ forks' \in Seq(Forks) /\ Len(forks') = Len(fs)
           /\ \A j \in 1..Len(fs) : j # i => forks'[j] = fs[j]
           /\ \/ forks' = fs /\ event' = NoEvent
              \/ /\ forks'[i] \in Listened(ForkUpdated(fs[i], code, tag))
                 /\ event' = [code |-> code, tag |-> tag, place |-> i]
<1> fs[i] \in Forks
  BY ElementOfSeq
<1>1. CASE Repeated200(fs[i], code)
  BY <1>1 DEF Handled
<1>2. CASE ~Repeated200(fs[i], code)
  <2>1. PICK d \in Listened(ForkUpdated(fs[i], code, tag)) : forks' = [fs EXCEPT ![i] = d]
    BY <1>2 DEF Handled
  <2>2. d \in Forks
    BY ListenedFork
  <2>3. forks' \in Seq(Forks) /\ Len(forks') = Len(fs) /\ forks'[i] = d
        /\ \A j \in 1..Len(fs) : j # i => forks'[j] = fs[j]
    BY <2>1, <2>2, ExceptSeq
  <2> QED
    BY <1>2, <2>3 DEF Handled
<1> QED
  BY <1>1, <1>2

\* A new dialog, for a response that has one made.
LEMMA CreateForkKeeps ==
    ASSUME ForkInv, NEW code \in ForkCodes, NEW tag \in Tags, code \in 101..299,
           CreateFork(code, tag), ict' \in IctStates, UNCHANGED lost, answers' \in Nat,
           \A i \in DOMAIN forks : forks[i].state # "NULL",
           ~lost /\ tag # NoTag =>
             \A i \in DOMAIN forks : StillListed(i) => forks[i].tag # tag
    PROVE  ForkInv'
<1> DEFINE n == Len(forks) + 1
           fs == Append(forks, NewFork(tag))
<1> USE DEF Tags
<1>1. /\ NewFork(tag) \in Forks /\ n \in Nat /\ n # 0
      /\ fs \in Seq(Forks) /\ Len(fs) = n /\ fs[n] = NewFork(tag)
      /\ \A i \in 1..Len(forks) : fs[i] = forks[i]
  BY AppendProperties DEF NewFork, Forks, ForkStates, Tags, ForkInv, ForkTypeOK
<1>2. /\ forks' \in Seq(Forks) /\ Len(forks') = n
      /\ \A i \in 1..Len(forks) : forks'[i] = forks[i]
      /\ forks'[n] \in Listened(ForkUpdated(NewFork(tag), code, tag))
      /\ event' = [code |-> code, tag |-> tag, place |-> n]
  <2>1. Handled(fs, n, code, tag)
    BY DEF CreateFork
  <2> HIDE DEF fs
  <2>2. ~Repeated200(fs[n], code)
    BY <1>1 DEF Repeated200, NewFork
  <2>3. /\ forks' \in Seq(Forks) /\ Len(forks') = Len(fs)
        /\ \A j \in 1..Len(fs) : j # n => forks'[j] = fs[j]
        /\ \/ forks' = fs /\ event' = NoEvent
           \/ /\ forks'[n] \in Listened(ForkUpdated(fs[n], code, tag))
              /\ event' = [code |-> code, tag |-> tag, place |-> n]
    <3> n \in 1..Len(fs)
      BY <1>1
    <3> HIDE DEF n
    <3> QED
      BY <1>1, <2>1, HandledForks, Zenon
  <2>4. event' = [code |-> code, tag |-> tag, place |-> n]
    BY <2>1, <2>2 DEF Handled
  <2>5. event' # NoEvent
    BY <1>1, <2>4 DEF NoEvent
  <2> QED
    BY <1>1, <2>3, <2>4, <2>5
<1>3. /\ forks'[n].state \in {"EARLY", "CONFIRMED", "TERMINATED"}
      /\ forks'[n].tag = tag
      /\ forks'[n] \in Settled
  <2> DEFINE d == NewFork(tag)
             e == forks'[n]
  <2>1. d \in Forks /\ d.state = "NULL" /\ d.tag = tag
    BY <1>1 DEF NewFork
  <2> HIDE DEF d
  <2>2. e \in Listened(ForkUpdated(d, code, tag))
    BY <1>2 DEF d
  <2> HIDE DEF e
  <2>3. e.state # "NULL" /\ e.state # "RELEASED" /\ e.tag = tag /\ e \in Settled /\ e \in Forks
    BY <2>1, <2>2, ListenedFork
  <2> QED
    BY <2>3 DEF e, Forks, ForkStates
<1>4. tdialog' = n /\ UNCHANGED aborted
  BY DEF CreateFork
<1>5. DOMAIN forks = 1..Len(forks) /\ DOMAIN forks' = 1..n
  BY <1>2 DEF ForkInv, ForkTypeOK
<1> HIDE DEF fs
<1>6. ForkTypeOK'
  BY <1>1, <1>2, <1>4 DEF ForkInv, ForkTypeOK, ForkCodes
<1>7. PlaceInv'
  BY <1>2, <1>3, <1>4, <1>5 DEF ForkInv, PlaceInv
<1>8. ApartInv'
  BY <1>1, <1>2, <1>3, <1>4, <1>5 DEF ForkInv, ApartInv, StillListed
<1>9. ToldInv'
  <2>1. forks'[n].tag = tag /\ event'.place = n /\ event'.tag = tag
    BY <1>2, <1>3
  <2>2. \A i \in DOMAIN forks' : forks'[i] \in Settled
    <3> SUFFICES ASSUME NEW i \in 1..n PROVE forks'[i] \in Settled
      BY <1>5
    <3>1. CASE i = n
      BY <1>3, <3>1
    <3>2. CASE i \in 1..Len(forks)
      BY <1>2, <1>5, <3>2 DEF ForkInv, ToldInv
    <3> QED
      BY <1>1, <1>2, <3>1, <3>2 DEF ForkInv, ForkTypeOK
  <2> QED
    BY <2>1, <2>2 DEF ToldInv
<1> QED
  BY <1>4, <1>6, <1>7, <1>8, <1>9 DEF ForkInv, AbortInv

\* A response that goes to a dialog there is.
LEMMA HandledKeeps ==
    ASSUME ForkInv, NEW code \in ForkCodes, NEW tag \in Tags, NEW i \in 1..Len(forks),
           Handled(forks, i, code, tag), UNCHANGED <<tdialog, lost, aborted>>, ict' \in IctStates,
           answers' \in Nat, forks[i].state # "RELEASED",
           code \in 101..299 =>
             \/ forks[i].tag = tag
             \/ forks[i].state = "TERMINATED"
             \/ forks[i].state = "NULL" /\ forks[i].tag = NoTag,
           code \notin 101..299 \/ forks[i].state # "EARLY" \/ forks[i].tag = tag
    PROVE  ForkInv'
<1> DEFINE d == forks[i]
           e == forks'[i]
<1>1. /\ forks \in Seq(Forks) /\ i \in 1..Len(forks) /\ DOMAIN forks = 1..Len(forks)
      /\ d \in Forks
  <2>1. forks \in Seq(Forks)
    BY DEF ForkInv, ForkTypeOK
  <2> QED
    BY <2>1, ElementOfSeq
<1>2. /\ forks' \in Seq(Forks) /\ Len(forks') = Len(forks) /\ DOMAIN forks' = 1..Len(forks)
      /\ \A j \in 1..Len(forks) : j # i => forks'[j] = forks[j]
      /\ \/ forks' = forks /\ event' = NoEvent
         \/ /\ e \in Listened(ForkUpdated(d, code, tag))
            /\ event' = [code |-> code, tag |-> tag, place |-> i]
  <2>1. /\ forks' \in Seq(Forks) /\ Len(forks') = Len(forks)
        /\ \A j \in 1..Len(forks) : j # i => forks'[j] = forks[j]
        /\ \/ forks' = forks /\ event' = NoEvent
           \/ /\ e \in Listened(ForkUpdated(d, code, tag))
              /\ event' = [code |-> code, tag |-> tag, place |-> i]
    BY <1>1, HandledForks, Zenon
  <2> HIDE DEF d, e
  <2> QED
    BY <2>1
<1>3. CASE forks' = forks /\ event' = NoEvent
  <2>1. ForkTypeOK'
    BY <1>3 DEF ForkInv, ForkTypeOK, NoEvent, Tags
  <2>2. PlaceInv' /\ AbortInv'
    BY <1>3 DEF ForkInv, PlaceInv, AbortInv
  <2>3. ApartInv'
    BY <1>3 DEF ForkInv, ApartInv, StillListed
  <2>4. ToldInv'
    BY <1>3 DEF ForkInv, ToldInv, NoEvent
  <2> QED
    BY <2>1, <2>2, <2>3, <2>4 DEF ForkInv
<1>4. CASE /\ e \in Listened(ForkUpdated(d, code, tag))
           /\ event' = [code |-> code, tag |-> tag, place |-> i]
  <2> HIDE DEF d, e
  <2>1. /\ e \in Forks /\ e \in Settled
        /\ e.tag = d.tag \/ (d.tag = NoTag /\ e.tag = tag /\ code \in 101..299)
        /\ d.state \in {"TERMINATED", "RELEASED"} => e.state = d.state /\ e.tag = d.tag
        /\ d.state # "NULL" => e.state # "NULL"
        /\ e.state = "RELEASED" => d.state = "RELEASED"
        /\ e.state \in {"NULL", "EARLY", "CONFIRMED"} =>
             d.state \in {"NULL", "EARLY", "CONFIRMED"}
        /\ d.state = "NULL" /\ code \in 101..299 =>
             e.state # "NULL" /\ (d.tag \in {tag, NoTag} => e.tag = tag)
    BY <1>1, <1>4, ListenedFork
  <2>2. /\ d.state # "RELEASED"
        /\ code \in 101..299 => e.tag = tag \/ e.state = "TERMINATED"
        /\ e.tag = d.tag \/ (d.tag = NoTag /\ d.state = "NULL") \/ e.tag = NoTag
        /\ d.tag = forks[i].tag /\ d.state = forks[i].state
        /\ e = forks'[i]
    BY <2>1 DEF d, e, Forks, ForkStates
  <2>3. ForkTypeOK'
    BY <1>1, <1>2, <1>4 DEF ForkInv, ForkTypeOK
  <2>4. tdialog' = tdialog /\ lost' = lost /\ tdialog \in 0..Len(forks) /\ Len(forks) \in Nat
    BY <1>1 DEF ForkInv, ForkTypeOK
  <2>5. PlaceInv'
    <3>1. tdialog' # 0 => forks'[tdialog'].state # "RELEASED"
      <4>1. CASE tdialog = i
        BY <2>1, <2>2, <2>4, <4>1
      <4>2. CASE tdialog # i
        <5> SUFFICES ASSUME tdialog # 0 PROVE forks'[tdialog].state # "RELEASED"
          BY <2>4
        <5>1. forks[tdialog].state # "RELEASED"
          BY DEF ForkInv, PlaceInv
        <5>2. tdialog \in 1..Len(forks)
          BY <2>4
        <5>3. forks'[tdialog] = forks[tdialog]
          BY <1>2, <4>2, <5>2
        <5> QED
          BY <5>1, <5>3
      <4> QED
        BY <4>1, <4>2
    <3>2. ASSUME NEW j \in 1..Len(forks), forks'[j].state = "NULL"
          PROVE  Len(forks) = 1 /\ tdialog = 1 /\ forks'[j].tag = NoTag
      <4>1. CASE j = i
        <5>1. d.state = "NULL" /\ code \notin 101..299 /\ e.tag = d.tag
          BY <2>1, <2>2, <3>2, <4>1
        <5>2. d.tag = NoTag /\ Len(forks) = 1 /\ tdialog = 1
          BY <1>1, <2>2, <5>1 DEF ForkInv, PlaceInv
        <5> QED
          BY <2>2, <4>1, <5>1, <5>2
      <4>2. CASE j # i
        <5>1. forks'[j] = forks[j]
          BY <1>2, <4>2
        <5> QED
          BY <1>1, <3>2, <5>1 DEF ForkInv, PlaceInv
      <4> QED
        BY <4>1, <4>2
    <3> QED
      BY <1>2, <2>4, <3>1, <3>2 DEF PlaceInv
  <2>6. ApartInv'
    <3> SUFFICES ASSUME ~lost PROVE
          /\ \A j, k \in 1..Len(forks) :
               /\ forks'[j].state \in {"NULL", "EARLY", "CONFIRMED"}
               /\ forks'[k].state \in {"NULL", "EARLY", "CONFIRMED"}
               /\ forks'[j].tag = forks'[k].tag /\ forks'[j].tag # NoTag
               => j = k
          /\ tdialog = 0 =>
               \A j \in 1..Len(forks) : forks'[j].state \notin {"NULL", "EARLY", "CONFIRMED"}
      <4>1. ~lost' => ~lost
        BY <2>4
      <4>2. tdialog' = tdialog /\ DOMAIN forks' = 1..Len(forks)
        BY <1>2, <2>4
      <4> QED
        BY <4>1, <4>2 DEF ApartInv, StillListed
    <3> USE <1>1, <1>2, <2>1, <2>2, <2>4
    <3>1. /\ \A j, k \in 1..Len(forks) :
               /\ forks[j].state \in {"NULL", "EARLY", "CONFIRMED"}
               /\ forks[k].state \in {"NULL", "EARLY", "CONFIRMED"}
               /\ forks[j].tag = forks[k].tag /\ forks[j].tag # NoTag
               => j = k
          /\ tdialog = 0 =>
               \A j \in 1..Len(forks) : forks[j].state \notin {"NULL", "EARLY", "CONFIRMED"}
      BY DEF ForkInv, ApartInv, StillListed
    <3>2. \A j \in 1..Len(forks) :
            forks'[j].state \in {"NULL", "EARLY", "CONFIRMED"}
              => forks[j].state \in {"NULL", "EARLY", "CONFIRMED"}
      OBVIOUS
    <3>3. CASE d.state = "NULL"
      <4>1. Len(forks) = 1
        BY <3>3 DEF ForkInv, PlaceInv
      <4> QED
        BY <3>1, <3>2, <4>1
    <3>4. CASE d.state # "NULL"
      <4>1. \A j \in 1..Len(forks) : forks'[j].tag = forks[j].tag \/ forks'[j].tag = NoTag
        BY <3>4
      <4>2. ASSUME NEW j \in 1..Len(forks), NEW k \in 1..Len(forks),
                   forks'[j].state \in {"NULL", "EARLY", "CONFIRMED"},
                   forks'[k].state \in {"NULL", "EARLY", "CONFIRMED"},
                   forks'[j].tag = forks'[k].tag, forks'[j].tag # NoTag
            PROVE  j = k
        <5>1. forks[j].tag = forks'[j].tag /\ forks[k].tag = forks'[k].tag
          BY <4>1, <4>2, Zenon
        <5>2. /\ forks[j].state \in {"NULL", "EARLY", "CONFIRMED"}
              /\ forks[k].state \in {"NULL", "EARLY", "CONFIRMED"}
          BY <3>2, <4>2, Zenon
        <5>3. forks[j].tag = forks[k].tag /\ forks[j].tag # NoTag
          BY <4>2, <5>1, Zenon
        <5> QED
          BY <3>1, <5>2, <5>3, Zenon
      <4>3. tdialog = 0 =>
              \A j \in 1..Len(forks) : forks'[j].state \notin {"NULL", "EARLY", "CONFIRMED"}
        BY <3>1, <3>2, Zenon
      <4> QED
        BY <4>2, <4>3, Zenon
    <3> QED
      BY <3>3, <3>4
  <2>7. ToldInv'
    <3>1. event'.place = i /\ event'.tag = tag /\ event'.code = code
      BY <1>4
    <3>2. \A j \in DOMAIN forks' : forks'[j] \in Settled
      BY <1>1, <1>2, <2>1, <2>2 DEF ForkInv, ToldInv
    <3> QED
      BY <2>2, <3>1, <3>2 DEF ToldInv
  <2> QED
    BY <2>3, <2>5, <2>6, <2>7 DEF ForkInv, AbortInv
<1> QED
  BY <1>2, <1>3, <1>4

\* belle_sip_provider_find_dialog_from_message() finds one dialog at most.
LEMMA FoundOnce ==
    ASSUME ForkInv, NEW tag
    PROVE  ~lost => Cardinality(FoundForks(tag)) < 2
<1> SUFFICES ASSUME ~lost PROVE Cardinality(FoundForks(tag)) < 2
  OBVIOUS
<1> DEFINE F == FoundForks(tag)
<1>1. \A i, j \in F : i = j
  BY DEF ForkInv, ApartInv, FoundForks, ForkMatches
<1>2. CASE F = {}
  BY <1>2, FS_EmptySet
<1>3. CASE F # {}
  <2> HIDE DEF F
  <2>1. PICK i : i \in F
    BY <1>3
  <2>2. F = {i}
    BY <1>1, <2>1
  <2>3. Cardinality(F) = 1
    BY <2>2, FS_Singleton, Zenon
  <2> QED
    BY <2>3 DEF F
<1> QED
  BY <1>2, <1>3

\* belle_sip_client_transaction_notify_response() keeps the peers apart.
LEMMA NotifyKeeps ==
    ASSUME ForkInv, NEW code \in ForkCodes, NEW tag \in Tags, tag = NoTag => code = 180,
           belle_sip_client_transaction_notify_response(code, tag),
           UNCHANGED lost, ict' \in IctStates, answers' \in Nat
    PROVE  ForkInv'
<1> USE DEF ForkCodes
<1>0. /\ forks \in Seq(Forks) /\ Len(forks) \in Nat /\ tdialog \in 0..Len(forks)
      /\ DOMAIN forks = 1..Len(forks)
  BY DEF ForkInv, ForkTypeOK
<1>1. CASE /\ AnotherFork(code, tag) /\ Cardinality(FoundForks(tag)) > 1
           /\ aborted' = TRUE /\ UNCHANGED <<forks, tdialog, event>>
  <2>1. lost
    <3> DEFINE n == Cardinality(FoundForks(tag))
    <3>1. ~lost => n < 2
      BY FoundOnce, Zenon
    <3>2. n > 1 /\ n \in Nat
      <4>1. FoundForks(tag) \subseteq 1..Len(forks)
        BY <1>0 DEF FoundForks
      <4>2. IsFiniteSet(FoundForks(tag))
        <5>1. IsFiniteSet(1..Len(forks))
          BY <1>0, FS_Interval
        <5> QED
          BY <4>1, <5>1, FS_Subset, Zenon
      <4> QED
        BY <1>1, <4>2, FS_CardinalityType
    <3> HIDE DEF n
    <3> QED
      BY <3>1, <3>2
  <2>2. lost' /\ AbortInv'
    BY <2>1 DEF AbortInv
  <2>3. ForkTypeOK' /\ PlaceInv' /\ ToldInv'
    BY <1>1 DEF ForkInv, ForkTypeOK, PlaceInv, ToldInv
  <2>4. ApartInv'
    BY <2>2 DEF ApartInv
  <2> QED
    BY <2>2, <2>3, <2>4 DEF ForkInv
<1>2. ASSUME NEW i \in FoundForks(tag), Handled(forks, i, code, tag), UNCHANGED <<tdialog, aborted>>
      PROVE  ForkInv'
  <2>1. /\ i \in 1..Len(forks) /\ forks[i].tag = tag
        /\ forks[i].state # "RELEASED"
    BY <1>0, <1>2 DEF FoundForks, ForkMatches, StillListed
  <2> QED
    BY <1>2, <2>1, HandledKeeps
<1>3. CASE AnotherFork(code, tag) /\ FoundForks(tag) = {} /\ CreateFork(code, tag)
  <2>1. code \in 101..299 /\ forks[tdialog].state # "NULL" /\ tdialog # 0
    BY <1>3 DEF AnotherFork
  <2>2. \A i \in DOMAIN forks : forks[i].state # "NULL"
    BY <1>0, <2>1 DEF ForkInv, PlaceInv
  <2>3. tag # NoTag => \A i \in DOMAIN forks : StillListed(i) => forks[i].tag # tag
    BY <1>3, <2>2 DEF FoundForks, ForkMatches
  <2> QED
    BY <1>3, <2>1, <2>2, <2>3, CreateForkKeeps
<1>4. CASE /\ tdialog # 0 /\ ~AnotherFork(code, tag) /\ Handled(forks, tdialog, code, tag)
           /\ UNCHANGED <<tdialog, aborted>>
  <2> DEFINE i == tdialog
  <2>1. i \in 1..Len(forks) /\ forks[i] \in Forks
    BY <1>0, <1>4, ElementOfSeq
  <2>2. forks[i].state # "RELEASED" /\ (forks[i].state = "NULL" => forks[i].tag = NoTag)
    BY <1>0, <1>4, <2>1 DEF ForkInv, PlaceInv
  <2>3. code \in 101..299 => forks[i].state \notin {"EARLY", "CONFIRMED"} \/ forks[i].tag = tag
    BY <1>4 DEF AnotherFork, ForkMatches
  <2>4. forks[i].state \in ForkStates
    BY <2>1 DEF Forks
  <2> QED
    BY <1>4, <2>1, <2>2, <2>3, <2>4, HandledKeeps DEF ForkStates
<1>5. CASE tdialog = 0 /\ should_dialog_be_created(code) /\ CreateFork(code, tag)
  <2>1. code \in 101..299
    BY <1>5 DEF should_dialog_be_created
  <2>2. \A i \in DOMAIN forks : forks[i].state # "NULL"
    BY <1>5 DEF ForkInv, PlaceInv
  <2>3. ~lost => \A i \in DOMAIN forks : ~StillListed(i)
    BY <1>5 DEF ForkInv, ApartInv
  <2> QED
    BY <1>5, <2>1, <2>2, <2>3, CreateForkKeeps
<1>6. CASE /\ tdialog = 0 /\ ~should_dialog_be_created(code)
           /\ event' = [code |-> code, tag |-> tag, place |-> 0]
           /\ UNCHANGED <<forks, tdialog, aborted>>
  <2>1. ForkTypeOK'
    BY <1>0, <1>6 DEF ForkInv, ForkTypeOK
  <2>2. PlaceInv' /\ AbortInv' /\ ToldInv'
    BY <1>6 DEF ForkInv, PlaceInv, AbortInv, ToldInv
  <2>3. ApartInv'
    BY <1>6 DEF ForkInv, ApartInv, StillListed
  <2> QED
    BY <2>1, <2>2, <2>3 DEF ForkInv
<1> QED
  BY <1>1, <1>2, <1>3, <1>4, <1>5, <1>6 DEF belle_sip_client_transaction_notify_response

\* belle_sip_dialog_delete()
LEMMA DeletedKeeps ==
    ASSUME ForkInv, NEW i \in 1..Len(forks), Deleted(i), UNCHANGED aborted
    PROVE  ForkInv'
<1> DEFINE d == forks[i]
           e == forks'[i]
<1>1. /\ forks \in Seq(Forks) /\ Len(forks) \in Nat /\ tdialog \in 0..Len(forks)
      /\ DOMAIN forks = 1..Len(forks) /\ d \in Forks
  <2>1. forks \in Seq(Forks) /\ tdialog \in 0..Len(forks)
    BY DEF ForkInv, ForkTypeOK
  <2> QED
    BY <2>1, ElementOfSeq
<1>2. /\ forks' \in Seq(Forks) /\ Len(forks') = Len(forks) /\ DOMAIN forks' = 1..Len(forks)
      /\ \A j \in 1..Len(forks) : j # i => forks'[j] = forks[j]
      /\ e.state = "TERMINATED" /\ e \in Settled
  <2> DEFINE x == [d EXCEPT !.state = "TERMINATED", !.needs_ack = FALSE]
  <2>1. x \in Forks /\ x.state = "TERMINATED"
    BY <1>1 DEF Forks, ForkStates
  <2>2. x \in Settled
    BY <2>1 DEF Settled
  <2>3. forks' = [forks EXCEPT ![i] = x]
    BY <1>1 DEF Deleted
  <2> HIDE DEF x, d
  <2>4. forks' \in Seq(Forks) /\ Len(forks') = Len(forks) /\ e = x
        /\ \A j \in 1..Len(forks) : j # i => forks'[j] = forks[j]
    BY <1>1, <2>1, <2>3, ExceptSeq
  <2> QED
    BY <2>1, <2>2, <2>4
<1> HIDE DEF d, e
<1>3. /\ event' = NoEvent
      /\ UNCHANGED <<ict, tdialog, answers, lost, aborted>>
  BY DEF Deleted
<1>4. ForkTypeOK'
  BY <1>1, <1>2, <1>3 DEF ForkInv, ForkTypeOK, NoEvent, Tags
<1>5. PlaceInv' /\ AbortInv'
  <2>1. \A j \in 1..Len(forks) :
          (forks'[j].state \in {"NULL", "RELEASED"} => forks'[j] = forks[j])
    BY <1>2 DEF e
  <2>2. AbortInv'
    <3>1. (aborted' => aborted) /\ (lost => lost')
      BY <1>3
    <3> QED
      BY <3>1 DEF ForkInv, AbortInv
  <2>3. PlaceInv'
    BY <1>1, <1>2, <1>3, <2>1 DEF ForkInv, PlaceInv
  <2> QED
    BY <2>2, <2>3
<1>6. ApartInv'
  <2>1. \A j \in 1..Len(forks) :
          forks'[j].state \in {"NULL", "EARLY", "CONFIRMED"} => forks'[j] = forks[j]
    BY <1>2 DEF e
  <2>2. ~lost' => ~lost
    BY <1>3
  <2> QED
    BY <1>1, <1>2, <1>3, <2>1, <2>2 DEF ForkInv, ApartInv, StillListed
<1>7. ToldInv'
  BY <1>1, <1>2, <1>3 DEF ForkInv, ToldInv, NoEvent, e
<1> QED
  BY <1>4, <1>5, <1>6, <1>7 DEF ForkInv

\* belle_sip_transaction_reset_dialog()
LEMMA ReleasedKeeps ==
    ASSUME ForkInv, NEW i \in 1..Len(forks), ForkReleased(i)
    PROVE  ForkInv'
<1> DEFINE d == forks[i]
           e == forks'[i]
<1>1. /\ forks \in Seq(Forks) /\ Len(forks) \in Nat /\ tdialog \in 0..Len(forks)
      /\ DOMAIN forks = 1..Len(forks) /\ d \in Forks
  <2>1. forks \in Seq(Forks) /\ tdialog \in 0..Len(forks)
    BY DEF ForkInv, ForkTypeOK
  <2> QED
    BY <2>1, ElementOfSeq
<1>2. /\ forks' \in Seq(Forks) /\ Len(forks') = Len(forks) /\ DOMAIN forks' = 1..Len(forks)
      /\ \A j \in 1..Len(forks) : j # i => forks'[j] = forks[j]
      /\ e.state = "RELEASED" /\ e \in Settled /\ d.state = "TERMINATED"
  <2> DEFINE x == [d EXCEPT !.state = "RELEASED"]
  <2>1. x \in Forks /\ x.state = "RELEASED"
    BY <1>1 DEF Forks, ForkStates
  <2>2. x \in Settled
    BY <2>1 DEF Settled
  <2>3. forks' = [forks EXCEPT ![i] = x] /\ d.state = "TERMINATED"
    BY <1>1 DEF ForkReleased
  <2> HIDE DEF x, d
  <2>4. forks' \in Seq(Forks) /\ Len(forks') = Len(forks) /\ e = x
        /\ \A j \in 1..Len(forks) : j # i => forks'[j] = forks[j]
    BY <1>1, <2>1, <2>3, ExceptSeq
  <2> QED
    BY <2>1, <2>2, <2>3, <2>4
<1> HIDE DEF d, e
<1>3. /\ event' = NoEvent /\ tdialog' = (IF tdialog = i THEN 0 ELSE tdialog)
      /\ UNCHANGED <<ict, answers, aborted>>
  BY DEF ForkReleased
<1>4. /\ lost => lost'
      /\ tdialog = i /\ (\E j \in DOMAIN forks : StillListed(j)) => lost'
      /\ lost' \in BOOLEAN
  BY Zenon DEF ForkReleased, ForkInv, ForkTypeOK
<1>5. ForkTypeOK'
  BY <1>1, <1>2, <1>3, <1>4 DEF ForkInv, ForkTypeOK, NoEvent, Tags
<1>6. PlaceInv' /\ AbortInv'
  <2>1. AbortInv'
    <3>1. aborted' => aborted
      BY <1>3
    <3> QED
      BY <1>4, <3>1, Zenon DEF ForkInv, AbortInv
  <2>2. \A j \in 1..Len(forks) : forks'[j].state = "NULL" => forks'[j] = forks[j] /\ j # i
    BY <1>2 DEF e
  <2>3. \A j \in 1..Len(forks) :
          forks'[j].state = "NULL" => Len(forks') = 1 /\ tdialog' = 1 /\ forks'[j].tag = NoTag
    BY <1>1, <1>2, <1>3, <2>2 DEF ForkInv, PlaceInv
  <2>4. tdialog' # 0 => forks'[tdialog'].state # "RELEASED"
    <3> SUFFICES ASSUME tdialog' # 0 PROVE forks'[tdialog'].state # "RELEASED"
      OBVIOUS
    <3>1. tdialog' = tdialog /\ tdialog # i /\ tdialog \in 1..Len(forks)
      BY <1>1, <1>3
    <3>2. forks'[tdialog] = forks[tdialog]
      BY <1>2, <3>1
    <3> QED
      BY <3>1, <3>2 DEF ForkInv, PlaceInv
  <2> QED
    BY <1>2, <2>1, <2>3, <2>4 DEF PlaceInv
<1>7. ApartInv'
  <2>1. \A j \in 1..Len(forks) :
          forks'[j].state \in {"NULL", "EARLY", "CONFIRMED"} => forks'[j] = forks[j]
    BY <1>2 DEF e
  <2>2. ~lost' => ~lost /\ (tdialog' = 0 => \A j \in 1..Len(forks) : ~StillListed(j))
    BY <1>1, <1>3, <1>4 DEF ForkInv, ApartInv
  <2> QED
    BY <1>1, <1>2, <1>3, <2>1, <2>2 DEF ForkInv, ApartInv, StillListed
<1>8. ToldInv'
  BY <1>1, <1>2, <1>3 DEF ForkInv, ToldInv, NoEvent, e
<1> QED
  BY <1>5, <1>6, <1>7, <1>8 DEF ForkInv

\* Every step of the forked call keeps the invariant.
LEMMA ForkStep == ForkInv /\ [ForkNext]_forkVars => ForkInv'
<1> SUFFICES ASSUME ForkInv, [ForkNext]_forkVars PROVE ForkInv'
  OBVIOUS
<1>0. /\ forks \in Seq(Forks) /\ Len(forks) \in Nat /\ DOMAIN forks = 1..Len(forks)
      /\ ict \in IctStates /\ answers \in Nat
  BY DEF ForkInv, ForkTypeOK
\* Steps that leave the dialogs alone.
<1>1. ASSUME UNCHANGED <<forks, tdialog, lost>>, ict' \in IctStates, answers' \in Nat,
             aborted' \in BOOLEAN, aborted' => aborted \/ lost,
             \/ event' = event
             \/ event' \in [code : ForkCodes \cup {0}, tag : Tags, place : {0}]
      PROVE  ForkInv'
  <2>1. ForkTypeOK'
    BY <1>0, <1>1 DEF ForkInv, ForkTypeOK
  <2>2. PlaceInv'
    BY <1>1 DEF ForkInv, PlaceInv
  <2>3. ToldInv'
    <3>1. CASE event' = event
      BY <1>1, <3>1 DEF ForkInv, ToldInv
    <3>2. CASE event' \in [code : ForkCodes \cup {0}, tag : Tags, place : {0}]
      BY <1>1, <3>2 DEF ForkInv, ToldInv
    <3> QED
      BY <1>1, <3>1, <3>2
  <2>4. ApartInv'
    BY <1>1 DEF ForkInv, ApartInv, StillListed
  <2>5. AbortInv'
    <3>1. lost => lost'
      BY <1>1
    <3> QED
      BY <1>1, <3>1 DEF ForkInv, AbortInv
  <2> QED
    BY <2>1, <2>2, <2>3, <2>4, <2>5 DEF ForkInv
<1>2. NoEvent \in [code : ForkCodes \cup {0}, tag : Tags, place : {0}]
  BY DEF NoEvent, Tags
<1>3. aborted \in BOOLEAN /\ (aborted => lost)
  BY DEF ForkInv, ForkTypeOK, AbortInv
<1>4. ASSUME NEW code \in ForkCodes, NEW tag \in Tags, ForkAnswers(code, tag)
      PROVE  ForkInv'
  <2>1. /\ answers' \in Nat /\ (tag = NoTag => code = 180) /\ UNCHANGED lost
    BY <1>0, <1>4 DEF ForkAnswers
  <2>2. ict' \in IctStates
    BY <1>0, <1>4 DEF ForkAnswers, IctStates
  <2>3. CASE belle_sip_client_transaction_notify_response(code, tag)
    BY <2>1, <2>2, <2>3, NotifyKeeps
  <2>4. CASE /\ event' \in {NoEvent, [code |-> code, tag |-> tag, place |-> 0]}
             /\ UNCHANGED <<forks, tdialog, aborted>>
    <3>1. event' \in [code : ForkCodes \cup {0}, tag : Tags, place : {0}]
      BY <1>2, <2>4
    <3>2. aborted' \in BOOLEAN /\ (aborted' => aborted)
      BY <1>3, <2>4, Zenon
    <3> QED
      BY <1>1, <2>1, <2>2, <2>4, <3>1, <3>2
  <2> QED
    BY <1>4, <2>3, <2>4 DEF ForkAnswers
<1>5. CASE ForkTimer
  BY <1>0, <1>1, <1>2, <1>3, <1>5 DEF ForkTimer, IctStates
<1>6. ASSUME NEW i \in 1..Len(forks), ForkBye(i) \/ ForkGivenUp(i) \/ ForkReleased(i)
      PROVE  ForkInv'
  BY <1>6, DeletedKeeps, ReleasedKeeps DEF ForkBye, ForkGivenUp
<1>7. ASSUME NEW tag \in ForkTags, PeerBye(tag)
      PROVE  ForkInv'
  <2>1. CASE \E i \in DOMAIN forks : FoundForks(tag) = {i} /\ Deleted(i) /\ UNCHANGED aborted
    BY <1>0, <2>1, DeletedKeeps
  <2>2. CASE /\ Cardinality(FoundForks(tag)) > 1 /\ aborted' = TRUE
             /\ UNCHANGED <<ict, forks, tdialog, answers, event, lost>>
    <3>1. lost
      <4> DEFINE n == Cardinality(FoundForks(tag))
      <4>1. ~lost => n < 2
        BY FoundOnce, Zenon
      <4>2. n > 1 /\ n \in Nat
        <5>1. FoundForks(tag) \subseteq 1..Len(forks)
          BY <1>0 DEF FoundForks
        <5>2. IsFiniteSet(1..Len(forks))
          BY <1>0, FS_Interval
        <5>3. IsFiniteSet(FoundForks(tag))
          BY <5>1, <5>2, FS_Subset, Zenon
        <5> QED
          BY <2>2, <5>3, FS_CardinalityType
      <4> HIDE DEF n
      <4> QED
        BY <4>1, <4>2
    <3> QED
      BY <1>0, <1>1, <2>2, <3>1
  <2> QED
    BY <1>7, <2>1, <2>2 DEF PeerBye
<1>8. CASE UNCHANGED forkVars
  BY <1>0, <1>1, <1>3, <1>8 DEF forkVars
<1> QED
  BY <1>0, <1>4, <1>5, <1>6, <1>7, <1>8 DEF ForkNext, ForkCodes, Tags

\* The invariant holds in every state.
LEMMA ForkInvariant == Spec => []ForkInv
<1>1. Init => ForkInv
  <2> SUFFICES ASSUME ForkInit PROVE ForkInv
    BY DEF Init
  <2>1. NewFork(NoTag) \in Forks /\ NewFork(NoTag).tag = NoTag
    BY DEF NewFork, Forks, ForkStates
  <2>2. forks \in Seq(Forks) /\ Len(forks) \in {0, 1}
        /\ \A i \in DOMAIN forks : i = 1 /\ Len(forks) = 1 /\ forks[i] = NewFork(NoTag)
    <3> DEFINE x == NewFork(NoTag)
    <3>1. x \in Forks /\ forks \in {<<>>, <<x>>}
      BY <2>1 DEF ForkInit
    <3> HIDE DEF x
    <3>2. /\ <<>> \in Seq(Forks) /\ Len(<<>>) = 0 /\ DOMAIN <<>> = {}
          /\ <<x>> \in Seq(Forks) /\ Len(<<x>>) = 1 /\ DOMAIN <<x>> = {1} /\ <<x>>[1] = x
      BY <3>1
    <3>3. CASE forks = <<>>
      BY <3>2, <3>3
    <3>4. CASE forks = <<x>>
      BY <3>2, <3>4 DEF x
    <3> QED
      BY <3>1, <3>3, <3>4
  <2>3. NewFork(NoTag) \in Settled
    BY <2>1 DEF Settled, NewFork
  <2> HIDE DEF NewFork
  <2>4. ForkTypeOK
    <3>1. NoEvent \in [code : ForkCodes \cup {0}, tag : Tags, place : 0..Len(forks)]
      BY <2>2 DEF NoEvent, Tags
    <3>2. tdialog \in 0..Len(forks)
      BY <2>2 DEF ForkInit
    <3> QED
      BY <2>2, <3>1, <3>2 DEF ForkInit, ForkTypeOK, IctStates
  <2>5. PlaceInv
    <3>1. NewFork(NoTag).state # "RELEASED"
      BY DEF NewFork
    <3> QED
      BY <2>1, <2>2, <3>1 DEF ForkInit, PlaceInv
  <2>6. ApartInv /\ AbortInv
    BY <2>1, <2>2 DEF ForkInit, ApartInv, AbortInv
  <2>7. ToldInv
    BY <2>2, <2>3 DEF ForkInit, ToldInv, NoEvent
  <2> QED
    BY <2>4, <2>5, <2>6, <2>7 DEF ForkInv
<1>2. ForkInv /\ [Next]_vars => ForkInv'
  <2>1. [Next]_vars => [ForkNext]_forkVars
    BY DEF Next, vars
  <2> QED
    BY <2>1, ForkStep
<1> QED
  BY <1>1, <1>2, PTL DEF Spec

\* The answers of the peers of a forked INVITE are kept apart
\* (belle_sip_client_transaction_notify_response(), belle_sip_dialog_check_ack_sent()).
THEOREM ForkedApartHolds == Spec => []ForkedApart
<1>1. ForkInv => ForkedApart
  <2> SUFFICES ASSUME ForkInv PROVE ForkedApart
    OBVIOUS
  <2>1. ~lost => \A tag \in ForkTags : Cardinality(FoundForks(tag)) < 2
    BY FoundOnce, Zenon
  <2>2. \A i \in DOMAIN forks :
          forks[i].state = "CONFIRMED" => ~forks[i].needs_ack \/ forks[i].leaving
    BY Zenon DEF ForkInv, ToldInv, Settled
  <2>3. event.place # 0 /\ event.code \in 101..299 =>
          forks[event.place].tag = event.tag \/ forks[event.place].state = "TERMINATED"
    BY DEF ForkInv, ToldInv
  <2> QED
    BY Zenon, <2>1, <2>2, <2>3 DEF ForkedApart
<1> QED
  BY <1>1, ForkInvariant, PTL

\* The provider aborts the program because two dialogs match only after the dialog of the
\* transaction went away while others were left (belle_sip_provider_find_dialog_from_message(),
\* belle_sip_transaction_reset_dialog()): as long as it has that one, no sequence of responses,
\* hang-ups and BYEs leads there.
THEOREM AbortsOnlyWhenLost == Spec => [](aborted => lost)
<1>1. ForkInv => (aborted => lost)
  BY DEF ForkInv, AbortInv
<1> QED
  BY <1>1, ForkInvariant, PTL

-----------------------------------------------------------------------------
(***************************************************************************)
(* Dispatch.                                                               *)
(***************************************************************************)
Branches == {<<r.cseq>> : r \in Requests} \cup {<<r.branch>> : r \in Requests}

ServerStates == {"PROCEEDING", "COMPLETED", "CONFIRMED", "ACCEPTED"}

ServerTransactions ==
    [branch : Branches, method : {"INVITE", "CANCEL", "BYE"}, cseq : {1, 2, 3},
     in_dialog : BOOLEAN, state : ServerStates]

CallDialogs ==
    [state : {"NONE", "NULL", "EARLY", "CONFIRMED"}, needs_ack : BOOLEAN,
     remote_cseq : {0, 1, 2, 3}, last : {<<>>} \cup (Branches \X {"INVITE", "CANCEL", "BYE"})]

AnswerCodes == {180, 200, 480, 486, 491}

\* The branch of the first INVITE and of the ACK of its failure.
FirstBranch == BranchOf(Request("INVITE", "b1", 1, FALSE))

DispatchTypeOK ==
    /\ server_transactions \in Seq(ServerTransactions) /\ dialog \in CallDialogs
    /\ acks \in Nat /\ made \in Nat

\* A dialog that waits for an ACK has not passed one on since its last 2xx.
NeedsAckInv == acks <= 1 /\ (dialog.needs_ack => acks = 0)

\* An INVITE has one transaction, which its ACK finds.
OneInviteInv ==
    /\ \A i, j \in DOMAIN server_transactions :
         /\ server_transactions[i].method = "INVITE" /\ server_transactions[j].method = "INVITE"
         /\ server_transactions[i].branch = server_transactions[j].branch
         => i = j
    /\ \A i \in DOMAIN server_transactions :
         server_transactions[i].method = "INVITE" /\ server_transactions[i].cseq = 1
           => server_transactions[i].branch = FirstBranch

DispatchInv == DispatchTypeOK /\ NeedsAckInv /\ OneInviteInv

\* A transaction that is put in front of the list.
LEMMA AddedTransaction ==
    ASSUME DispatchInv, NEW req \in Requests, req.method # "ACK",
           NEW state \in {"PROCEEDING", "COMPLETED"},
           add_server_transaction(Transaction(req, state)),
           req.method = "INVITE" => Matching(req) = {}, UNCHANGED old
    PROVE  /\ server_transactions' \in Seq(ServerTransactions) /\ made' \in Nat
           /\ OneInviteInv'
<1> DEFINE tr == Transaction(req, state)
           list == server_transactions
<1>1. /\ list \in Seq(ServerTransactions) /\ Len(list) \in Nat /\ DOMAIN list = 1..Len(list)
      /\ made \in Nat
  BY DEF DispatchInv, DispatchTypeOK
<1>2. BranchOf(req) \in Branches
  BY DEF BranchOf, Branches
<1>3. tr \in ServerTransactions /\ tr.branch = BranchOf(req) /\ tr.method = req.method
      /\ tr.cseq = req.cseq
  BY <1>2 DEF Transaction, ServerTransactions, ServerStates, Requests, Request, InDialog
<1>4. tr.method = "INVITE" /\ tr.cseq = 1 => tr.branch = FirstBranch
  <2>1. req.method = "INVITE" /\ req.cseq = 1 => req.branch = "b1"
    BY DEF Requests, Request
  <2>2. FirstBranch = IF old THEN <<1>> ELSE <<"b1">>
    BY DEF FirstBranch, BranchOf, Request
  <2> QED
    BY <1>3, <2>1, <2>2 DEF BranchOf
<1>5. tr.method = "INVITE" => \A i \in DOMAIN list :
        list[i].method = "INVITE" => list[i].branch # tr.branch
  BY <1>3 DEF Matching, transaction_match
<1>6. server_transactions' = <<tr>> \o list /\ made' = made + 1
  BY DEF add_server_transaction
<1> HIDE DEF tr
<1>7. /\ server_transactions' \in Seq(ServerTransactions)
      /\ Len(server_transactions') = Len(list) + 1
      /\ DOMAIN server_transactions' = 1..(Len(list) + 1)
      /\ server_transactions'[1] = tr
      /\ \A j \in 2..(Len(list) + 1) : server_transactions'[j] = list[j - 1]
  BY <1>1, <1>3, <1>6
<1>8. FirstBranch' = FirstBranch
  BY DEF FirstBranch, BranchOf, Request
<1> HIDE DEF list
<1>9. OneInviteInv'
  <2>1. /\ \A i, j \in 1..Len(list) :
            list[i].method = "INVITE" /\ list[j].method = "INVITE"
              /\ list[i].branch = list[j].branch => i = j
        /\ \A i \in 1..Len(list) :
             list[i].method = "INVITE" /\ list[i].cseq = 1 => list[i].branch = FirstBranch
    BY <1>1 DEF DispatchInv, OneInviteInv, list
  <2>2. \A i \in 1..(Len(list) + 1) :
          i = 1 \/ (i - 1 \in 1..Len(list) /\ server_transactions'[i] = list[i - 1])
    BY <1>1, <1>7
  <2> DEFINE us == server_transactions'
  <2>3. \A i \in 2..(Len(list) + 1) : i - 1 \in 1..Len(list) /\ us[i] = list[i - 1]
    BY <1>1, <1>7, <2>2
  <2>4. \A i \in 1..Len(list) :
          list[i].method = "INVITE" /\ tr.method = "INVITE" => list[i].branch # tr.branch
    BY <1>1, <1>5
  <2>5. us[1] = tr /\ DOMAIN us = 1..(Len(list) + 1) /\ Len(list) \in Nat
    BY <1>1, <1>7
  <2> HIDE DEF us
  <2>6. ASSUME NEW i \in 1..(Len(list) + 1), NEW j \in 1..(Len(list) + 1),
               us[i].method = "INVITE", us[j].method = "INVITE", us[i].branch = us[j].branch
        PROVE  i = j
    <3>1. CASE i = 1 \/ j = 1
      BY <2>3, <2>4, <2>5, <2>6, <3>1
    <3>2. CASE i # 1 /\ j # 1
      <4>1. i - 1 = j - 1
        BY <2>1, <2>3, <2>6, <3>2
      <4> QED
        BY <4>1
    <3> QED
      BY <3>1, <3>2
  <2>7. ASSUME NEW i \in 1..(Len(list) + 1), us[i].method = "INVITE", us[i].cseq = 1
        PROVE  us[i].branch = FirstBranch
    BY <1>4, <2>1, <2>3, <2>5, <2>7
  <2> QED
    BY <1>8, <2>5, <2>6, <2>7, Zenon DEF OneInviteInv, us
<1> QED
  BY <1>1, <1>6, <1>7, <1>9

\* A change of a transaction's state.
LEMMA ChangedTransaction ==
    ASSUME DispatchInv, NEW i \in 1..Len(server_transactions),
           \E s \in ServerStates :
             server_transactions' = [server_transactions EXCEPT ![i].state = s],
           UNCHANGED old
    PROVE  server_transactions' \in Seq(ServerTransactions) /\ OneInviteInv'
<1> PICK s \in ServerStates :
      server_transactions' = [server_transactions EXCEPT ![i].state = s]
  OBVIOUS
<1> DEFINE list == server_transactions
           tr == [list[i] EXCEPT !.state = s]
<1>1. /\ list \in Seq(ServerTransactions) /\ Len(list) \in Nat /\ DOMAIN list = 1..Len(list)
      /\ list[i] \in ServerTransactions
  <2>1. list \in Seq(ServerTransactions)
    BY DEF DispatchInv, DispatchTypeOK
  <2> QED
    BY <2>1, ElementOfSeq
<1>2. /\ tr \in ServerTransactions /\ tr.method = list[i].method /\ tr.branch = list[i].branch
      /\ tr.cseq = list[i].cseq
  BY <1>1 DEF ServerTransactions
<1>3. server_transactions' = [list EXCEPT ![i] = tr]
  BY <1>1
<1> HIDE DEF tr, list
<1>4. /\ server_transactions' \in Seq(ServerTransactions)
      /\ DOMAIN server_transactions' = 1..Len(list)
      /\ \A j \in 1..Len(list) :
           /\ server_transactions'[j].method = list[j].method
           /\ server_transactions'[j].branch = list[j].branch
           /\ server_transactions'[j].cseq = list[j].cseq
  <2>1. /\ server_transactions' \in Seq(ServerTransactions)
        /\ DOMAIN server_transactions' = 1..Len(list)
        /\ server_transactions'[i] = tr
        /\ \A j \in 1..Len(list) : j # i => server_transactions'[j] = list[j]
    BY <1>1, <1>2, <1>3, ExceptSeq DEF list
  <2> QED
    BY <1>2, <2>1
<1>5. FirstBranch' = FirstBranch
  BY DEF FirstBranch, BranchOf, Request
<1> QED
  BY <1>1, <1>4, <1>5 DEF DispatchInv, OneInviteInv, list

\* belle_sip_provider_set_transaction_terminated() takes a transaction out of the list.
LEMMA RemovedTransaction ==
    ASSUME DispatchInv, NEW i \in 1..Len(server_transactions),
           server_transactions' = RemoveAt(server_transactions, i), UNCHANGED old
    PROVE  server_transactions' \in Seq(ServerTransactions) /\ OneInviteInv'
<1> DEFINE list == server_transactions
           n == Len(list)
<1>1. /\ list \in Seq(ServerTransactions) /\ n \in Nat /\ DOMAIN list = 1..n
      /\ \A j \in 1..n : list[j] \in ServerTransactions
  <2>1. list \in Seq(ServerTransactions)
    BY DEF DispatchInv, DispatchTypeOK
  <2> QED
    BY <2>1, ElementOfSeq
<1>2. server_transactions' = SubSeq(list, 1, i - 1) \o SubSeq(list, i + 1, n)
  BY DEF RemoveAt
<1> HIDE DEF list
<1>3. /\ server_transactions' \in Seq(ServerTransactions)
      /\ Len(server_transactions') = n - 1
      /\ \A j \in 1..(n - 1) : server_transactions'[j] = IF j < i THEN list[j] ELSE list[j + 1]
  <2> DEFINE a == SubSeq(list, 1, i - 1)
             b == SubSeq(list, i + 1, n)
  <2>1. /\ a \in Seq(ServerTransactions) /\ Len(a) = i - 1
        /\ \A j \in 1..(i - 1) : a[j] = list[j]
    BY <1>1, SubSeqProperties DEF list
  <2>2. /\ b \in Seq(ServerTransactions) /\ Len(b) = n - i
        /\ \A j \in 1..(n - i) : b[j] = list[i + j]
    <3>1. i + 1 \in 1..(n + 1) /\ n \in (i + 1) - 1 .. n
      BY <1>1 DEF list
    <3>2. /\ b \in Seq(ServerTransactions)
          /\ Len(b) = IF i + 1 <= n THEN n - (i + 1) + 1 ELSE 0
          /\ \A j \in 1..(n - (i + 1) + 1) : b[j] = list[(i + 1) + j - 1]
      BY <1>1, <3>1, SubSeqProperties
    <3>3. i \in 1..n /\ n \in Nat
      BY <1>1 DEF list
    <3> HIDE DEF b, n
    <3>4. Len(b) = n - i
      BY <3>2, <3>3
    <3>5. ASSUME NEW j \in 1..(n - i) PROVE b[j] = list[i + j]
      <4>1. j \in 1..(n - (i + 1) + 1) /\ (i + 1) + j - 1 = i + j
        BY <3>3
      <4> QED
        BY <3>2, <4>1
    <3> QED
      BY <3>2, <3>4, <3>5
  <2> HIDE DEF a, b
  <2>3. /\ a \o b \in Seq(ServerTransactions) /\ Len(a \o b) = n - 1
        /\ \A j \in 1..(n - 1) : (a \o b)[j] = IF j < i THEN a[j] ELSE b[j - i + 1]
    <3>1. /\ a \o b \in Seq(ServerTransactions) /\ Len(a \o b) = Len(a) + Len(b)
          /\ \A j \in 1..(Len(a) + Len(b)) :
               (a \o b)[j] = IF j <= Len(a) THEN a[j] ELSE b[j - Len(a)]
      BY <2>1, <2>2, ConcatProperties
    <3>2. Len(a) + Len(b) = n - 1
      BY <1>1, <2>1, <2>2 DEF list
    <3>3. \A j \in 1..(n - 1) : (j <= i - 1 <=> j < i) /\ j - (i - 1) = j - i + 1
      BY <1>1 DEF list
    <3> QED
      BY <2>1, <3>1, <3>2, <3>3
  <2>4. \A j \in 1..(n - 1) : (a \o b)[j] = IF j < i THEN list[j] ELSE list[j + 1]
    BY <1>1, <2>1, <2>2, <2>3 DEF list
  <2> QED
    BY <1>2, <2>3, <2>4 DEF a, b
<1>4. FirstBranch' = FirstBranch
  BY DEF FirstBranch, BranchOf, Request
<1>5. OneInviteInv'
  <2>1. /\ \A j, k \in 1..n :
            list[j].method = "INVITE" /\ list[k].method = "INVITE"
              /\ list[j].branch = list[k].branch => j = k
        /\ \A j \in 1..n :
             list[j].method = "INVITE" /\ list[j].cseq = 1 => list[j].branch = FirstBranch
    BY <1>1 DEF DispatchInv, OneInviteInv, list
  <2>2. DOMAIN server_transactions' = 1..(n - 1)
    BY <1>3
  <2>3. \A j \in 1..(n - 1) : j \in 1..n /\ j + 1 \in 1..n
    BY <1>1
  <2>4. \A j, k \in 1..(n - 1) :
          /\ server_transactions'[j].method = "INVITE" /\ server_transactions'[k].method = "INVITE"
          /\ server_transactions'[j].branch = server_transactions'[k].branch
          => j = k
    <3> SUFFICES ASSUME NEW j \in 1..(n - 1), NEW k \in 1..(n - 1),
                        server_transactions'[j].method = "INVITE",
                        server_transactions'[k].method = "INVITE",
                        server_transactions'[j].branch = server_transactions'[k].branch
                 PROVE  j = k
      OBVIOUS
    <3> DEFINE f(m) == IF m < i THEN m ELSE m + 1
    <3>1. f(j) \in 1..n /\ f(k) \in 1..n
      BY <2>3
    <3>2. server_transactions'[j] = list[f(j)] /\ server_transactions'[k] = list[f(k)]
      BY <1>3
    <3>3. f(j) = f(k)
      <4> HIDE DEF f
      <4> QED
        BY <2>1, <3>1, <3>2
    <3> QED
      BY <1>1, <3>3 DEF list
  <2>5. \A j \in 1..(n - 1) :
          server_transactions'[j].method = "INVITE" /\ server_transactions'[j].cseq = 1
            => server_transactions'[j].branch = FirstBranch'
    BY <1>3, <1>4, <2>1, <2>3
  <2> QED
    BY <2>2, <2>4, <2>5 DEF OneInviteInv
<1> QED
  BY <1>3, <1>5

\* What an answer does to the dialog: only a 2xx to an INVITE makes it wait for an ACK.
LEMMA UpdatedDialog ==
    ASSUME NEW d \in CallDialogs, NEW tr \in ServerTransactions,
           NEW code \in AnswerCodes
    PROVE  /\ Updated(d, tr, code) \in CallDialogs
           /\ Updated(d, tr, code).needs_ack =>
                d.needs_ack \/ (tr.method = "INVITE" /\ code = 200)
<1> DEFINE seen == [d EXCEPT !.last = <<tr.branch, tr.method>>, !.remote_cseq = tr.cseq]
           e == Updated(d, tr, code)
<1>1. <<tr.branch, tr.method>> \in Branches \X {"INVITE", "CANCEL", "BYE"} /\ tr.cseq \in {1, 2, 3}
  BY DEF ServerTransactions
<1>2. seen \in CallDialogs /\ seen.needs_ack = d.needs_ack
  BY <1>1 DEF CallDialogs
<1>3. NoDialog \in CallDialogs /\ NoDialog.needs_ack = FALSE
  BY DEF NoDialog, CallDialogs
<1>4. \/ e = NoDialog \/ e = seen
      \/ e = [seen EXCEPT !.state = "CONFIRMED", !.needs_ack = TRUE]
           /\ tr.method = "INVITE" /\ code = 200
      \/ e = [seen EXCEPT !.state = "EARLY"]
      \/ e = [seen EXCEPT !.needs_ack = TRUE] /\ tr.method = "INVITE" /\ code = 200
      \/ e = [seen EXCEPT !.needs_ack = FALSE]
  <2> HIDE DEF seen
  <2>1. CASE d.state \in {"NULL", "EARLY"} /\ tr.method = "INVITE"
    <3>1. e = IF code >= 300 THEN NoDialog
              ELSE IF code >= 200 THEN [seen EXCEPT !.state = "CONFIRMED", !.needs_ack = TRUE]
              ELSE [seen EXCEPT !.state = "EARLY"]
      BY <2>1 DEF Updated, seen
    <3> HIDE DEF e
    <3> QED
      BY <2>1, <3>1 DEF AnswerCodes
  <2>2. CASE d.state = "CONFIRMED" /\ tr.method = "INVITE" /\ code >= 200
    <3>1. e = [seen EXCEPT !.needs_ack = code < 300]
      BY <2>2 DEF Updated, seen
    <3> HIDE DEF e
    <3>2. CASE code = 200
      <4>1. (code < 300) = TRUE
        BY <3>2
      <4> QED
        BY <2>2, <3>1, <3>2, <4>1, Zenon
    <3>3. CASE code # 200
      <4>1. (code < 300) = FALSE
        BY <2>2, <3>3 DEF AnswerCodes
      <4> QED
        BY <3>1, <4>1, Zenon
    <3> QED
      BY <3>2, <3>3
  <2>3. CASE ~(d.state \in {"NULL", "EARLY"} /\ tr.method = "INVITE")
             /\ ~(d.state = "CONFIRMED" /\ tr.method = "INVITE" /\ code >= 200)
    <3>1. e \in {NoDialog, seen}
      BY <2>3 DEF Updated, seen
    <3> QED
      BY <3>1
  <2> QED
    BY <2>1, <2>2, <2>3
<1> HIDE DEF seen, e
<1>5. /\ [seen EXCEPT !.state = "CONFIRMED", !.needs_ack = TRUE] \in CallDialogs
      /\ [seen EXCEPT !.state = "EARLY"] \in CallDialogs
      /\ [seen EXCEPT !.state = "EARLY"].needs_ack = seen.needs_ack
      /\ [seen EXCEPT !.needs_ack = TRUE] \in CallDialogs
      /\ [seen EXCEPT !.needs_ack = FALSE] \in CallDialogs
      /\ [seen EXCEPT !.needs_ack = FALSE].needs_ack = FALSE
  BY <1>2 DEF CallDialogs
<1>6. e \in CallDialogs
  BY <1>2, <1>3, <1>4, <1>5
<1>7. e.needs_ack => d.needs_ack \/ (tr.method = "INVITE" /\ code = 200)
  BY Zenon, <1>2, <1>3, <1>4, <1>5
<1> QED
  BY <1>6, <1>7 DEF e

\* belle_sip_dialog_handle_ack()
LEMMA HandleAckKeeps ==
    ASSUME DispatchInv, NEW req, handle_ack(req)
    PROVE  dialog' \in CallDialogs /\ acks' \in Nat /\ NeedsAckInv'
<1>1. dialog \in CallDialogs /\ acks \in Nat /\ acks <= 1 /\ (dialog.needs_ack => acks = 0)
  BY DEF DispatchInv, DispatchTypeOK, NeedsAckInv
<1>2. CASE dialog.needs_ack /\ dialog' = acknowledged(dialog) /\ acks' = acks + 1
  <2>1. acknowledged(dialog) \in CallDialogs /\ acknowledged(dialog).needs_ack = FALSE
    BY <1>1 DEF acknowledged, CallDialogs
  <2>2. acks = 0
    BY <1>1, <1>2, Zenon
  <2>3. acks' = 1
    BY <1>2, <2>2
  <2>4. ~dialog'.needs_ack
    BY <1>2, <2>1, Zenon
  <2> QED
    BY <1>2, <2>1, <2>3, <2>4 DEF NeedsAckInv
<1>3. CASE UNCHANGED <<dialog, acks>>
  BY <1>1, <1>3 DEF NeedsAckInv
<1> QED
  BY <1>2, <1>3 DEF handle_ack

\* The provider or the application makes a transaction for a request.
LEMMA DispatchRequestKeeps ==
    ASSUME DispatchInv, NEW req \in Requests, belle_sip_provider_dispatch_request(req)
    PROVE  DispatchInv'
<1>0. /\ server_transactions \in Seq(ServerTransactions) /\ dialog \in CallDialogs /\ acks \in Nat
      /\ made \in Nat /\ acks <= 1 /\ (dialog.needs_ack => acks = 0) /\ OneInviteInv
  BY DEF DispatchInv, DispatchTypeOK, NeedsAckInv
<1>1. UNCHANGED old /\ Matching(req) = {}
  BY DEF belle_sip_provider_dispatch_request
<1>2. UNCHANGED server_transactions => OneInviteInv'
  <2>1. FirstBranch' = FirstBranch
    BY <1>1 DEF FirstBranch, BranchOf, Request
  <2> QED
    BY <1>0, <2>1 DEF OneInviteInv
<1>3. CASE handle_ack(req) /\ UNCHANGED <<server_transactions, made>>
  BY <1>0, <1>2, <1>3, HandleAckKeeps DEF DispatchInv, DispatchTypeOK
<1>4. ASSUME NEW code \in {491, 480}, AnswerItself(req, code), req.method # "ACK"
      PROVE  DispatchInv'
  <2> DEFINE tr == Transaction(req, "COMPLETED")
  <2>1. /\ server_transactions' \in Seq(ServerTransactions) /\ made' \in Nat
        /\ OneInviteInv'
    BY <1>1, <1>4, AddedTransaction DEF AnswerItself
  <2>2. tr \in ServerTransactions
    <3>1. BranchOf(req) \in Branches
      BY DEF BranchOf, Branches
    <3> QED
      BY <1>4, <3>1 DEF Transaction, ServerTransactions, ServerStates, Requests, Request, InDialog
  <2> HIDE DEF tr
  <2>3. dialog' = dialog \/ dialog' = Updated(dialog, tr, code)
    BY <1>4 DEF AnswerItself, tr
  <2>4. dialog' \in CallDialogs /\ (dialog'.needs_ack => dialog.needs_ack)
    <3>1. CASE dialog' = dialog
      BY <1>0, <3>1, Zenon
    <3>2. CASE dialog' = Updated(dialog, tr, code)
      <4> DEFINE e == Updated(dialog, tr, code)
      <4>1. e \in CallDialogs /\ (e.needs_ack => dialog.needs_ack \/ code = 200)
        <5>1. code \in AnswerCodes
          BY DEF AnswerCodes
        <5>2. e \in CallDialogs
              /\ (e.needs_ack => dialog.needs_ack \/ (tr.method = "INVITE" /\ code = 200))
          <6>1. dialog \in CallDialogs
            BY <1>0
          <6> QED
            BY <2>2, <5>1, <6>1, UpdatedDialog
        <5> QED
          BY <5>2, Zenon
      <4>2. code # 200
        OBVIOUS
      <4> HIDE DEF e
      <4>3. dialog' = e
        BY <3>2 DEF e
      <4> QED
        BY <4>1, <4>2, <4>3, Zenon
    <3> QED
      BY <2>3, <3>1, <3>2
  <2>5. acks' = acks
    BY <1>4 DEF AnswerItself
  <2>6. NeedsAckInv'
    <3>1. dialog'.needs_ack => acks' = 0
      BY <1>0, <2>4, <2>5, Zenon
    <3> QED
      BY <1>0, <2>5, <3>1 DEF NeedsAckInv
  <2> QED
    BY <1>0, <2>1, <2>4, <2>5, <2>6 DEF DispatchInv, DispatchTypeOK
<1>5. CASE TellApplication(req)
  <2>1. acks' = acks
    BY <1>5 DEF TellApplication
  <2>2. CASE UNCHANGED <<server_transactions, made, dialog>>
    BY <1>0, <1>2, <2>1, <2>2 DEF DispatchInv, DispatchTypeOK, NeedsAckInv
  <2>3. CASE /\ req.method # "ACK"
             /\ add_server_transaction(Transaction(req, "PROCEEDING"))
             /\ dialog' \in {dialog, [NoDialog EXCEPT !.state = "NULL"]}
    <3>1. /\ server_transactions' \in Seq(ServerTransactions) /\ made' \in Nat
          /\ OneInviteInv'
      BY <1>1, <2>3, AddedTransaction
    <3>2. /\ [NoDialog EXCEPT !.state = "NULL"] \in CallDialogs
          /\ [NoDialog EXCEPT !.state = "NULL"].needs_ack = FALSE
      BY DEF NoDialog, CallDialogs
    <3>3. dialog' \in CallDialogs
      BY <1>0, <2>3, <3>2
    <3>4. dialog'.needs_ack => acks' = 0
      BY <1>0, <2>1, <2>3, <3>2, Zenon
    <3> QED
      BY <1>0, <2>1, <3>1, <3>3, <3>4 DEF DispatchInv, DispatchTypeOK, NeedsAckInv
  <2> QED
    BY <1>5, <2>2, <2>3 DEF TellApplication
<1> QED
  BY <1>3, <1>4, <1>5 DEF belle_sip_provider_dispatch_request

\* The request has a transaction.
LEMMA OnRequestKeeps ==
    ASSUME DispatchInv, NEW req \in Requests, belle_sip_server_transaction_on_request(req)
    PROVE  DispatchInv'
<1> DEFINE i == FindTransaction(req)
<1>0. /\ server_transactions \in Seq(ServerTransactions) /\ dialog \in CallDialogs /\ acks \in Nat
      /\ made \in Nat /\ NeedsAckInv /\ OneInviteInv
      /\ DOMAIN server_transactions = 1..Len(server_transactions)
  BY DEF DispatchInv, DispatchTypeOK
<1>1. UNCHANGED old /\ Matching(req) # {}
  BY DEF belle_sip_server_transaction_on_request
<1>2. UNCHANGED server_transactions => OneInviteInv'
  <2>1. FirstBranch' = FirstBranch
    BY <1>1 DEF FirstBranch, BranchOf, Request
  <2> QED
    BY <1>0, <2>1 DEF OneInviteInv
<1>3. UNCHANGED <<dialog, acks>> => NeedsAckInv'
  BY <1>0 DEF NeedsAckInv
<1>4. CASE req.method = "ACK" /\ OnAck(i, req)
  <2> HIDE DEF i
  <2>1. UNCHANGED made
    BY <1>4 DEF OnAck
  <2>2. CASE /\ server_transactions[i].state = "COMPLETED"
             /\ server_transactions' = [server_transactions EXCEPT ![i].state = "CONFIRMED"]
             /\ UNCHANGED <<dialog, acks>>
    <3>1. CASE i \in 1..Len(server_transactions)
      <4>1. server_transactions' \in Seq(ServerTransactions) /\ OneInviteInv'
        <5>1. "CONFIRMED" \in ServerStates /\ UNCHANGED old
          BY <1>1 DEF ServerStates
        <5> QED
          BY <2>2, <3>1, <5>1, ChangedTransaction
      <4> QED
        BY <1>0, <1>3, <2>1, <2>2, <4>1 DEF DispatchInv, DispatchTypeOK
    <3>2. CASE i \notin 1..Len(server_transactions)
      <4>1. server_transactions' = server_transactions
        BY <1>0, <2>2, <3>2
      <4> QED
        BY <1>0, <1>2, <1>3, <2>1, <2>2, <4>1 DEF DispatchInv, DispatchTypeOK
    <3> QED
      BY <3>1, <3>2
  <2>3. CASE handle_ack(req) /\ UNCHANGED server_transactions
    BY <1>0, <1>2, <2>1, <2>3, HandleAckKeeps DEF DispatchInv, DispatchTypeOK
  <2>4. CASE UNCHANGED <<server_transactions, dialog, acks>>
    BY <1>0, <1>2, <1>3, <2>1, <2>4 DEF DispatchInv, DispatchTypeOK
  <2> QED
    BY <1>4, <2>2, <2>3, <2>4 DEF OnAck
<1>5. CASE req.method = "CANCEL" /\ add_server_transaction(Transaction(req, "PROCEEDING"))
           /\ UNCHANGED <<dialog, acks>>
  <2>1. /\ server_transactions' \in Seq(ServerTransactions) /\ made' \in Nat /\ OneInviteInv'
    BY <1>1, <1>5, AddedTransaction
  <2> QED
    BY <1>0, <1>3, <1>5, <2>1 DEF DispatchInv, DispatchTypeOK
<1>6. CASE UNCHANGED <<server_transactions, made, dialog, acks>>
  BY <1>0, <1>2, <1>3, <1>6 DEF DispatchInv, DispatchTypeOK
<1> QED
  BY <1>4, <1>5, <1>6 DEF belle_sip_server_transaction_on_request

\* The application answers.
LEMMA SendResponseKeeps ==
    ASSUME DispatchInv, NEW i \in 1..Len(server_transactions), NEW code \in {180, 200, 486},
           belle_sip_server_transaction_send_response(i, code)
    PROVE  DispatchInv'
<1> DEFINE tr == server_transactions[i]
           e == Updated(dialog, tr, code)
<1>0. /\ server_transactions \in Seq(ServerTransactions) /\ dialog \in CallDialogs /\ acks \in Nat
      /\ made \in Nat /\ acks <= 1 /\ (dialog.needs_ack => acks = 0)
      /\ tr \in ServerTransactions
  <2>1. server_transactions \in Seq(ServerTransactions)
    BY DEF DispatchInv, DispatchTypeOK
  <2> QED
    BY <2>1, ElementOfSeq DEF DispatchInv, DispatchTypeOK, NeedsAckInv
<1>1. /\ UNCHANGED <<old, made>>
      /\ dialog' \in {dialog, e}
      /\ acks' = IF tr.method = "INVITE" /\ code \in 200..299 THEN 0 ELSE acks
  BY DEF belle_sip_server_transaction_send_response
<1>2. server_transactions' \in Seq(ServerTransactions) /\ OneInviteInv'
  <2> DEFINE s == IF code < 200 THEN "PROCEEDING"
                  ELSE IF tr.method = "INVITE" /\ code < 300 THEN "ACCEPTED" ELSE "COMPLETED"
  <2>1. server_transactions' = [server_transactions EXCEPT ![i].state = s]
    BY DEF belle_sip_server_transaction_send_response
  <2>2. s \in ServerStates
    BY DEF ServerStates
  <2> HIDE DEF s
  <2>3. \E q \in ServerStates :
          server_transactions' = [server_transactions EXCEPT ![i].state = q]
    BY <2>1, <2>2
  <2> QED
    BY <1>1, <2>3, ChangedTransaction
<1>3. /\ e \in CallDialogs
      /\ e.needs_ack => dialog.needs_ack \/ (tr.method = "INVITE" /\ code = 200)
  <2>1. code \in AnswerCodes
    BY DEF AnswerCodes
  <2> QED
    <3>1. dialog \in CallDialogs /\ tr \in ServerTransactions
      BY <1>0
    <3> HIDE DEF tr
    <3> QED
      BY <2>1, <3>1, UpdatedDialog
<1> HIDE DEF e, tr
<1>4. dialog' \in CallDialogs /\ acks' \in Nat /\ acks' <= 1
  BY <1>0, <1>1, <1>3
<1>5. (acks = 0 \/ (tr.method = "INVITE" /\ code = 200)) => acks' = 0
  BY <1>1
<1>6. dialog'.needs_ack => acks' = 0
  <2>1. CASE dialog' = dialog
    BY <1>0, <1>5, <2>1, Zenon
  <2>2. CASE dialog' = e
    BY <1>0, <1>3, <1>5, <2>2, Zenon
  <2> QED
    BY <1>1, <2>1, <2>2
<1> QED
  BY <1>0, <1>1, <1>2, <1>4, <1>6 DEF DispatchInv, DispatchTypeOK, NeedsAckInv

\* Every step of the server's side keeps the invariant.
LEMMA DispatchStep == DispatchInv /\ [DispatchNext]_dispatchVars => DispatchInv'
<1> SUFFICES ASSUME DispatchInv, [DispatchNext]_dispatchVars PROVE DispatchInv'
  OBVIOUS
<1>0. /\ server_transactions \in Seq(ServerTransactions) /\ dialog \in CallDialogs /\ acks \in Nat
      /\ made \in Nat /\ NeedsAckInv /\ OneInviteInv
      /\ DOMAIN server_transactions = 1..Len(server_transactions)
  BY DEF DispatchInv, DispatchTypeOK
<1>1. UNCHANGED <<old, server_transactions, made, dialog, acks>> => DispatchInv'
  BY <1>0 DEF DispatchInv, DispatchTypeOK, NeedsAckInv, OneInviteInv, FirstBranch, BranchOf,
              Request
<1>2. ASSUME NEW req \in Requests,
             \/ belle_sip_server_transaction_on_request(req)
             \/ belle_sip_provider_dispatch_request(req)
      PROVE  DispatchInv'
  BY <1>2, OnRequestKeeps, DispatchRequestKeeps
<1>3. CASE DispatchMalformed
  BY <1>1, <1>3 DEF DispatchMalformed
<1>4. ASSUME NEW i \in 1..Len(server_transactions), NEW code \in {180, 200, 486},
             belle_sip_server_transaction_send_response(i, code)
      PROVE  DispatchInv'
  BY <1>4, SendResponseKeeps
<1>5. ASSUME NEW i \in 1..Len(server_transactions), TransactionTerminated(i)
      PROVE  DispatchInv'
  <2>1. UNCHANGED <<old, made, dialog, acks>>
        /\ server_transactions' = RemoveAt(server_transactions, i)
    BY <1>5 DEF TransactionTerminated
  <2>2. server_transactions' \in Seq(ServerTransactions) /\ OneInviteInv'
    BY <2>1, RemovedTransaction
  <2> QED
    BY <1>0, <2>1, <2>2 DEF DispatchInv, DispatchTypeOK, NeedsAckInv
<1>6. CASE UNCHANGED dispatchVars
  BY <1>1, <1>6 DEF dispatchVars
<1> QED
  BY <1>0, <1>2, <1>3, <1>4, <1>5, <1>6 DEF DispatchNext

\* An ACK of a failure is taken by the transaction that waits for it.
LEMMA FailureAckIsTaken ==
    ASSUME DispatchInv, DispatchNext, AwaitsAck
    PROVE  reported' # Request("ACK", "b1", 1, TRUE)
<1> DEFINE r == Request("ACK", "b1", 1, TRUE)
<1>0. /\ DOMAIN server_transactions = 1..Len(server_transactions)
      /\ Len(server_transactions) \in Nat
  BY DEF DispatchInv, DispatchTypeOK
<1>1. NoRequest # r
  BY DEF NoRequest, Request
<1>2. r \in Requests /\ r.method = "ACK" /\ BranchOf(r) = FirstBranch
  BY DEF Requests, FirstBranch, BranchOf, Request
<1>3. PICK k \in DOMAIN server_transactions :
        /\ server_transactions[k].method = "INVITE" /\ server_transactions[k].cseq = 1
        /\ server_transactions[k].state = "COMPLETED"
  BY DEF AwaitsAck
<1> USE <1>0
<1>4. Matching(r) = {k}
  <2>1. server_transactions[k].branch = FirstBranch
    BY <1>3 DEF DispatchInv, OneInviteInv
  <2>2. k \in Matching(r)
    BY <1>2, <1>3, <2>1 DEF Matching, transaction_match
  <2>3. ASSUME NEW j \in Matching(r) PROVE j = k
    <3>1. /\ j \in 1..Len(server_transactions) /\ server_transactions[j].branch = FirstBranch
          /\ server_transactions[j].method \in {"ACK", "INVITE"}
      BY <1>0, <1>2 DEF Matching, transaction_match
    <3>2. server_transactions[j] \in ServerTransactions
      BY <3>1, ElementOfSeq DEF DispatchInv, DispatchTypeOK
    <3>3. server_transactions[j].method = "INVITE"
      BY <3>1, <3>2 DEF ServerTransactions
    <3> QED
      BY <1>0, <1>3, <2>1, <3>1, <3>3 DEF DispatchInv, OneInviteInv
  <2> QED
    BY <2>2, <2>3
<1>5. FindTransaction(r) = k
  <2>1. k \in Matching(r) /\ \A j \in Matching(r) : k <= j
    <3>1. k \in 1..Len(server_transactions) /\ k <= k
      BY <1>0, <1>3
    <3> QED
      BY <1>4, <3>1, Zenon
  <2>2. FindTransaction(r) \in Matching(r)
    BY <2>1, Zenon DEF FindTransaction
  <2> QED
    BY <1>4, <2>2
<1> HIDE DEF r
<1>6. ASSUME NEW req \in Requests, belle_sip_server_transaction_on_request(req)
      PROVE  reported' # r
  <2>1. CASE req = r
    <3>1. OnAck(k, r)
      BY <1>2, <1>5, <1>6, <2>1 DEF belle_sip_server_transaction_on_request
    <3> QED
      BY <1>1, <1>3, <3>1 DEF OnAck, Untold
  <2>2. CASE req # r
    <3>1. reported' \in {req, NoRequest}
      BY <1>6 DEF belle_sip_server_transaction_on_request, OnAck, handle_ack, Tell, Untold
    <3> QED
      BY <1>1, <2>2, <3>1
  <2> QED
    BY <2>1, <2>2
<1>7. ASSUME NEW req \in Requests, belle_sip_provider_dispatch_request(req)
      PROVE  reported' # r
  <2>1. req # r
    BY <1>4, <1>7 DEF belle_sip_provider_dispatch_request
  <2>2. reported' \in {req, NoRequest}
    BY <1>7 DEF belle_sip_provider_dispatch_request, handle_ack, AnswerItself, TellApplication,
                Tell, Untold
  <2> QED
    BY <1>1, <2>1, <2>2
<1>8. DispatchMalformed => reported' # r
  BY <1>1 DEF DispatchMalformed, Untold
<1>9. ASSUME NEW i \in DOMAIN server_transactions, NEW code \in {180, 200, 486},
             \/ belle_sip_server_transaction_send_response(i, code)
             \/ TransactionTerminated(i)
      PROVE  reported' # r
  BY <1>1, <1>9 DEF belle_sip_server_transaction_send_response, TransactionTerminated, Untold
<1>10. reported' # r
  BY <1>6, <1>7, <1>8, <1>9 DEF DispatchNext
<1> QED
  BY <1>10 DEF r

\* The invariant holds in every state.
LEMMA DispatchInvariant == Spec => []DispatchInv
<1>1. Init => DispatchInv
  <2> SUFFICES ASSUME DispatchInit PROVE DispatchInv
    BY DEF Init
  <2>1. DispatchTypeOK
    BY DEF DispatchInit, DispatchTypeOK, NoDialog, CallDialogs
  <2>2. ~dialog.needs_ack
    BY DEF DispatchInit, NoDialog
  <2>3. NeedsAckInv
    BY <2>2 DEF DispatchInit, NeedsAckInv
  <2>4. OneInviteInv
    BY DEF DispatchInit, OneInviteInv
  <2> QED
    BY <2>1, <2>3, <2>4 DEF DispatchInv
<1>2. DispatchInv /\ [Next]_vars => DispatchInv'
  <2>1. [Next]_vars => [DispatchNext]_dispatchVars
    BY DEF Next, vars
  <2> QED
    BY <2>1, DispatchStep
<1> QED
  BY <1>1, <1>2, PTL DEF Spec

\* The application hears of the ACK of its last 2xx at most once, and not of that of a failure for
\* which the transaction of the INVITE waits (belle_sip_server_transaction_on_request(),
\* belle_sip_dialog_handle_ack()).
THEOREM AcksReportedHolds == Spec => AcksReported
<1> DEFINE A == AckToldOnce' /\ (AwaitsAck => reported' # Request("ACK", "b1", 1, TRUE))
<1>1. DispatchInv /\ DispatchInv' /\ [Next]_vars => [A]_dispatchVars
  <2> SUFFICES ASSUME DispatchInv, DispatchInv', DispatchNext PROVE A
    BY DEF Next, vars
  <2>1. AckToldOnce'
    BY DEF DispatchInv, NeedsAckInv, AckToldOnce
  <2> QED
    BY <2>1, FailureAckIsTaken
<1> HIDE DEF A
<1>2. Spec => [][A]_dispatchVars
  BY <1>1, DispatchInvariant, PTL DEF Spec
<1> QED
  BY <1>2 DEF A, AcksReported
-----------------------------------------------------------------------------
(***************************************************************************)
(* Authentication.                                                         *)
(***************************************************************************)
RequestStates == {"none", "sent", "accepted", "forbidden"} \cup Challengers

Contexts ==
    [call_id : CallIds, realm : Challengers \cup {NoRealm}, nonce : 1..MaxNonce,
     nonce_count : Nat, is_proxy : BOOLEAN]

CredentialSets == SUBSET [nonce : 1..MaxNonce, nonce_count : Nat, proxy : BOOLEAN]

\* A list of contexts, by their places.
ContextList(list) == list \in [DOMAIN list -> Contexts]

AuthTypeOK ==
    /\ ContextList(auth_contexts)
    /\ request \in [CallIds -> [state : RequestStates, credentials : CredentialSets,
                                nonce : 0..MaxNonce]]
    /\ issued \in 0..MaxNonce /\ uses \in [1..MaxNonce -> Nat]

\* No two contexts have a nonce in common, and each has counted its uses.
Counting(list) ==
    /\ \A i, j \in DOMAIN list : list[i].nonce = list[j].nonce => i = j
    /\ \A i \in DOMAIN list : list[i].nonce_count = uses[list[i].nonce]

\* The nonce n has not been used by any request, and is in no context of the list.
Fresh(n, list) == uses[n] = 0 /\ \A i \in DOMAIN list : list[i].nonce # n

IsChallenged(c) == request[c].state \in Challengers

\* The nonces to come and those of the challenges that wait for their request are fresh, and no
\* two challenges have one in common.
FreshInv ==
    /\ \A n \in 1..MaxNonce : n > issued => Fresh(n, auth_contexts)
    /\ \A c \in CallIds : IsChallenged(c) =>
         request[c].nonce \in 1..issued /\ Fresh(request[c].nonce, auth_contexts)
    /\ \A c, d \in CallIds :
         IsChallenged(c) /\ IsChallenged(d) /\ request[c].nonce = request[d].nonce => c = d

AuthInv == AuthTypeOK /\ Counting(auth_contexts) /\ FreshInv

\* Forgetting contexts keeps the invariant's parts about the list.
LEMMA CleanupKeeps ==
    ASSUME NEW list, ContextList(list), NEW credentials
    PROVE  /\ ContextList(cleanup(list, credentials))
           /\ DOMAIN cleanup(list, credentials) \subseteq DOMAIN list
           /\ \A i \in DOMAIN cleanup(list, credentials) :
                cleanup(list, credentials)[i] = list[i]
<1> DEFINE proxies == {c \in credentials : c.proxy}
           first == IF proxies # {} THEN proxies ELSE credentials
           kept == {j \in DOMAIN list : list[j].nonce # (CHOOSE c \in first : TRUE).nonce}
<1>1. kept \subseteq DOMAIN list
  OBVIOUS
<1>2. cleanup(list, credentials) = list
      \/ cleanup(list, credentials) = [i \in kept |-> list[i]]
  BY DEF cleanup
<1> HIDE DEF kept
<1> QED
  BY <1>1, <1>2 DEF ContextList

\* A request counts the contexts it is sent with once each, and leaves the other nonces alone.
LEMMA SentKeeps ==
    ASSUME NEW list, ContextList(list), Counting(list), uses \in [1..MaxNonce -> Nat],
           NEW c \in CallIds, Sent(list, c)
    PROVE  /\ ContextList(auth_contexts') /\ Counting(auth_contexts)'
           /\ DOMAIN auth_contexts' = DOMAIN list
           /\ \A i \in DOMAIN list : auth_contexts'[i].nonce = list[i].nonce
           /\ uses' \in [1..MaxNonce -> Nat]
           /\ \A n \in 1..MaxNonce : Fresh(n, list) => Fresh(n, auth_contexts)'
           /\ \E s \in CredentialSets :
                request' = [request EXCEPT ![c] = [state |-> "sent", credentials |-> s,
                                                   nonce |-> 0]]
<1> DEFINE found == Found(list, c, setting.realm)
           counted == Counted(list, c)
           credentials == Credentials(counted, c)
           used(n) == {d \in credentials : d.nonce = n}
           given(i) == [nonce |-> counted[i].nonce, nonce_count |-> counted[i].nonce_count,
                        proxy |-> counted[i].is_proxy
                                  \/ (counted[i].call_id # c /\ ~setting.register)]
<1>1. found \subseteq DOMAIN list
  BY DEF Found
<1>2. counted = [i \in DOMAIN list |->
                   IF i \in found THEN [list[i] EXCEPT !.nonce_count = @ + 1] ELSE list[i]]
  BY DEF Counted
<1>3. auth_contexts' = counted
      /\ uses' = [n \in 1..MaxNonce |-> uses[n] + Cardinality(used(n))]
      /\ request' = [request EXCEPT ![c] = [state |-> "sent", credentials |-> credentials,
                                            nonce |-> 0]]
  BY DEF Sent
<1> HIDE DEF found
<1>4. \A i \in DOMAIN list :
        /\ counted[i] \in Contexts
        /\ counted[i].nonce = list[i].nonce /\ counted[i].call_id = list[i].call_id
        /\ counted[i].realm = list[i].realm
        /\ counted[i].nonce_count = list[i].nonce_count + (IF i \in found THEN 1 ELSE 0)
  <2> TAKE i \in DOMAIN list
  <2>1. list[i] \in Contexts
    BY DEF ContextList
  <2>2. CASE i \in found
    <3>1. counted[i] = [list[i] EXCEPT !.nonce_count = @ + 1]
      BY <1>2, <2>2
    <3> QED
      BY <2>1, <2>2, <3>1 DEF Contexts
  <2>3. CASE i \notin found
    BY <1>2, <2>1, <2>3 DEF Contexts
  <2> QED
    BY <2>2, <2>3
<1>5. DOMAIN counted = DOMAIN list
  BY <1>2
<1>6. Found(counted, c, setting.realm) = found
  BY <1>4, <1>5 DEF Found, found
<1>7. credentials = {given(i) : i \in found}
  BY <1>6 DEF Credentials
<1> HIDE DEF counted
<1>8. credentials \in CredentialSets
  <2>1. ASSUME NEW i \in found
        PROVE  given(i) \in [nonce : 1..MaxNonce, nonce_count : Nat, proxy : BOOLEAN]
    BY <1>1, <1>4 DEF Contexts
  <2> QED
    BY <1>7, <2>1 DEF CredentialSets
<1> HIDE DEF credentials, given
<1>9. ASSUME NEW i \in found PROVE Cardinality(used(counted[i].nonce)) = 1
  <2>1. \A j \in found : given(j).nonce = counted[j].nonce
    BY DEF given
  <2>2. \A j \in found : counted[j].nonce = counted[i].nonce => j = i
    BY <1>1, <1>4 DEF Counting
  <2>3. used(counted[i].nonce) = {given(i)}
    BY <1>7, <2>1, <2>2
  <2> QED
    BY <2>3, FS_Singleton
<1>10. ASSUME NEW n, \A i \in found : counted[i].nonce # n PROVE Cardinality(used(n)) = 0
  <2>1. used(n) = {}
    BY <1>7, <1>10 DEF given
  <2> QED
    BY <2>1, FS_EmptySet
<1> HIDE DEF used
<1>11. \A n \in 1..MaxNonce : Cardinality(used(n)) \in {0, 1}
  BY <1>9, <1>10
<1>12. uses' \in [1..MaxNonce -> Nat]
  BY <1>3, <1>11
<1>13. ContextList(auth_contexts')
  BY <1>2, <1>3, <1>4, <1>5 DEF ContextList, counted
<1>14. Counting(auth_contexts)'
  <2>1. \A i, j \in DOMAIN counted : counted[i].nonce = counted[j].nonce => i = j
    BY <1>4, <1>5 DEF Counting
  <2>2. ASSUME NEW i \in DOMAIN list PROVE counted[i].nonce_count = uses'[counted[i].nonce]
    <3>1. list[i] \in Contexts /\ list[i].nonce \in 1..MaxNonce
      BY DEF ContextList, Contexts
    <3>2. list[i].nonce_count = uses[list[i].nonce]
      BY DEF Counting
    <3>3. Cardinality(used(counted[i].nonce)) = IF i \in found THEN 1 ELSE 0
      <4>1. CASE i \in found
        BY <1>9, <4>1
      <4>2. CASE i \notin found
        <5>1. \A j \in found : counted[j].nonce # counted[i].nonce
          BY <1>1, <1>5, <2>1, <4>2
        <5> QED
          BY <1>10, <4>2, <5>1
      <4> QED
        BY <4>1, <4>2
    <3> QED
      BY <1>3, <1>4, <3>1, <3>2, <3>3
  <2> QED
    BY <1>3, <1>5, <2>1, <2>2 DEF Counting
<1>15. ASSUME NEW n \in 1..MaxNonce, Fresh(n, list) PROVE Fresh(n, auth_contexts)'
  <2>1. \A i \in DOMAIN list : counted[i].nonce # n
    BY <1>4, <1>15 DEF Fresh
  <2>2. uses'[n] = 0
    BY <1>1, <1>3, <1>10, <1>15, <2>1 DEF Fresh
  <2> QED
    BY <1>3, <1>5, <2>1, <2>2 DEF Fresh
<1> QED
  BY <1>3, <1>4, <1>5, <1>8, <1>12, <1>13, <1>14, <1>15

\* A challenge with a fresh nonce goes to one context, whose count starts again.
LEMMA UpdateKeeps ==
    ASSUME NEW list, ContextList(list), Counting(list),
           NEW c \in CallIds, NEW who \in Challengers, NEW n \in 1..MaxNonce, Fresh(n, list)
    PROVE  LET updated == update_or_create_auth_context(list, c, who, n) IN
           /\ ContextList(updated) /\ Counting(updated)
           /\ \A m \in 1..MaxNonce : m # n /\ Fresh(m, list) => Fresh(m, updated)
<1> DEFINE updated == update_or_create_auth_context(list, c, who, n)
           same == {i \in Found(list, c, setting.realm) : list[i].realm = who}
           chosen == CHOOSE k \in same : \A j \in same : k <= j
           filled == authorization_context_fill_from_auth(list[chosen], who, n)
           last == Max(DOMAIN list \cup {0}) + 1
           new == authorization_context_fill_from_auth(NewContext(c), who, n)
<1>1. \/ updated = [list EXCEPT ![chosen] = filled]
      \/ updated = [i \in DOMAIN list \cup {last} |-> IF i = last THEN new ELSE list[i]]
  BY DEF update_or_create_auth_context
<1>2. new \in Contexts /\ new.nonce = n /\ new.nonce_count = 0
  BY DEF Contexts, Challengers, NewContext, NoRealm, authorization_context_fill_from_auth,
         reset_count
<1>3. chosen \in DOMAIN list =>
        filled \in Contexts /\ filled.nonce = n /\ filled.nonce_count = 0
  <2> SUFFICES ASSUME chosen \in DOMAIN list
               PROVE  filled \in Contexts /\ filled.nonce = n /\ filled.nonce_count = 0
    OBVIOUS
  <2>1. list[chosen] \in Contexts /\ list[chosen].nonce # n
    BY DEF ContextList, Fresh
  <2> HIDE DEF chosen
  <2>2. reset_count(list[chosen], n) = 0
    BY <2>1 DEF Contexts, reset_count
  <2>3. filled = [list[chosen] EXCEPT !.realm = who, !.nonce_count = 0, !.nonce = n,
                                      !.is_proxy = list[chosen].is_proxy \/ who = "proxy"]
    BY <2>1, <2>2 DEF Contexts, authorization_context_fill_from_auth
  <2>4. PICK b \in BOOLEAN : b = (list[chosen].is_proxy \/ who = "proxy")
    OBVIOUS
  <2>5. filled = [list[chosen] EXCEPT !.realm = who, !.nonce_count = 0, !.nonce = n,
                                      !.is_proxy = b]
    BY <2>3, <2>4, Zenon
  <2> HIDE DEF filled
  <2> QED
    BY <2>1, <2>5 DEF Contexts
<1>4. \E at, changed :
        /\ changed \in Contexts /\ changed.nonce = n /\ changed.nonce_count = 0
        /\ at \in DOMAIN updated /\ DOMAIN updated = DOMAIN list \cup {at}
        /\ updated[at] = changed /\ updated = [i \in DOMAIN updated |-> updated[i]]
        /\ \A i \in DOMAIN list : i # at => updated[i] = list[i]
      \/ updated = list
  <2> HIDE DEF updated, chosen, filled, last, new
  <2>1. CASE updated = [list EXCEPT ![chosen] = filled]
    <3>1. CASE chosen \in DOMAIN list
      <4>1. chosen \in DOMAIN updated /\ DOMAIN updated = DOMAIN list \cup {chosen}
            /\ updated[chosen] = filled /\ updated = [i \in DOMAIN updated |-> updated[i]]
            /\ \A i \in DOMAIN list : i # chosen => updated[i] = list[i]
        BY <2>1, <3>1
      <4> QED
        BY <1>3, <3>1, <4>1
    <3>2. CASE chosen \notin DOMAIN list
      <4>1. updated = list
        BY <2>1, <3>2 DEF ContextList
      <4> QED
        BY <4>1
    <3> QED
      BY <3>1, <3>2
  <2>2. CASE updated = [i \in DOMAIN list \cup {last} |-> IF i = last THEN new ELSE list[i]]
    BY <1>2, <2>2
  <2> QED
    BY <1>1, <2>1, <2>2
<1> HIDE DEF updated
<1>5. ContextList(updated)
  BY <1>4 DEF ContextList
<1>6. Counting(updated)
  BY <1>4 DEF Counting, Fresh
<1>7. \A m \in 1..MaxNonce : m # n /\ Fresh(m, list) => Fresh(m, updated)
  BY <1>4 DEF Fresh
<1> QED
  BY <1>5, <1>6, <1>7 DEF updated

\* A challenged request is sent again, with its nonce in one context.
LEMMA ResendKeeps ==
    ASSUME AuthInv, NEW c \in CallIds, Resend(c)
    PROVE  AuthInv'
<1> DEFINE who == request[c].state
           n == request[c].nonce
           updated == update_or_create_auth_context(auth_contexts, c, who, n)
<1>1. who \in Challengers /\ Sent(updated, c)
  BY DEF Resend
<1>2. n \in 1..MaxNonce /\ n \in 1..issued /\ Fresh(n, auth_contexts) /\ issued' = issued
  BY <1>1 DEF AuthInv, AuthTypeOK, FreshInv, IsChallenged, Sent
<1>3. /\ ContextList(updated) /\ Counting(updated)
      /\ \A m \in 1..MaxNonce : m # n /\ Fresh(m, auth_contexts) => Fresh(m, updated)
  BY <1>1, <1>2, UpdateKeeps DEF AuthInv, AuthTypeOK
<1> HIDE DEF updated
<1>4. /\ ContextList(auth_contexts') /\ Counting(auth_contexts)'
      /\ uses' \in [1..MaxNonce -> Nat]
      /\ \A m \in 1..MaxNonce : Fresh(m, updated) => Fresh(m, auth_contexts)'
      /\ \E s \in CredentialSets :
           request' = [request EXCEPT ![c] = [state |-> "sent", credentials |-> s, nonce |-> 0]]
  BY <1>1, <1>3, SentKeeps DEF AuthInv, AuthTypeOK
<1>5. AuthTypeOK'
  <2>1. PICK s \in CredentialSets :
          request' = [request EXCEPT ![c] = [state |-> "sent", credentials |-> s, nonce |-> 0]]
    BY <1>2, <1>4
  <2>2. 0 \in 0..MaxNonce
    BY AuthenticationAssumption
  <2>3. request' \in [CallIds -> [state : RequestStates, credentials : CredentialSets,
                                  nonce : 0..MaxNonce]]
    BY <2>1, <2>2 DEF AuthInv, AuthTypeOK, RequestStates
  <2> QED
    BY <1>2, <1>4, <2>3 DEF AuthInv, AuthTypeOK
<1>6. \A d \in CallIds : IsChallenged(d)' => d # c /\ request'[d] = request[d]
  BY <1>4 DEF AuthInv, AuthTypeOK, IsChallenged, Challengers
<1>7. \A m \in 1..MaxNonce : m # n /\ Fresh(m, auth_contexts) => Fresh(m, auth_contexts)'
  BY <1>3, <1>4
<1>8. FreshInv'
  <2>1. ASSUME NEW m \in 1..MaxNonce, m > issued' PROVE Fresh(m, auth_contexts)'
    BY <1>2, <1>7, <2>1 DEF AuthInv, AuthTypeOK, FreshInv
  <2>2. ASSUME NEW d \in CallIds, IsChallenged(d)'
        PROVE  request'[d].nonce \in 1..issued' /\ Fresh(request[d].nonce, auth_contexts)'
    <3>1. d # c /\ request'[d] = request[d] /\ IsChallenged(d) /\ IsChallenged(c)
      BY <1>1, <1>6, <2>2 DEF IsChallenged
    <3>2. request[d].nonce # n
      BY <3>1 DEF AuthInv, FreshInv
    <3> QED
      BY <1>2, <1>7, <3>1, <3>2 DEF AuthInv, AuthTypeOK, FreshInv
  <2>3. ASSUME NEW d \in CallIds, NEW e \in CallIds, IsChallenged(d)', IsChallenged(e)',
               request'[d].nonce = request'[e].nonce
        PROVE  d = e
    BY <1>6, <2>3 DEF AuthInv, FreshInv, IsChallenged
  <2> QED
    BY <2>1, <2>2, <2>3 DEF FreshInv
<1> QED
  BY <1>4, <1>5, <1>8 DEF AuthInv

\* The application's request is sent with the contexts there are.
LEMMA SendRequestKeeps ==
    ASSUME AuthInv, NEW c \in CallIds, SendRequest(c)
    PROVE  AuthInv'
<1>1. /\ ContextList(auth_contexts') /\ Counting(auth_contexts)'
      /\ uses' \in [1..MaxNonce -> Nat]
      /\ \A m \in 1..MaxNonce : Fresh(m, auth_contexts) => Fresh(m, auth_contexts)'
      /\ \E s \in CredentialSets :
           request' = [request EXCEPT ![c] = [state |-> "sent", credentials |-> s, nonce |-> 0]]
  BY SentKeeps DEF AuthInv, AuthTypeOK, SendRequest
<1>2. issued' = issued
  BY DEF SendRequest, Sent
<1>3. AuthTypeOK'
  <2>1. PICK s \in CredentialSets :
          request' = [request EXCEPT ![c] = [state |-> "sent", credentials |-> s, nonce |-> 0]]
    BY <1>1, <1>2
  <2>2. 0 \in 0..MaxNonce
    BY AuthenticationAssumption
  <2>3. request' \in [CallIds -> [state : RequestStates, credentials : CredentialSets,
                                  nonce : 0..MaxNonce]]
    BY <2>1, <2>2 DEF AuthInv, AuthTypeOK, RequestStates
  <2> QED
    BY <1>1, <1>2, <2>3 DEF AuthInv, AuthTypeOK
<1>4. \A d \in CallIds : IsChallenged(d)' => IsChallenged(d) /\ request'[d] = request[d]
  BY <1>1 DEF AuthInv, AuthTypeOK, IsChallenged, Challengers
<1>5. FreshInv'
  BY <1>1, <1>2, <1>4 DEF AuthInv, AuthTypeOK, FreshInv
<1> QED
  BY <1>1, <1>3, <1>5 DEF AuthInv

\* A refused request leaves contexts it had, with a fresh nonce if it is challenged.
LEMMA RefusalKeeps ==
    ASSUME AuthInv, NEW c \in CallIds, Challenged(c) \/ Forbidden(c) \/ Accepted(c)
    PROVE  AuthInv'
<1>1. PICK credentials : \/ auth_contexts' = auth_contexts
                         \/ auth_contexts' = cleanup(auth_contexts, credentials)
  BY DEF Challenged, Forbidden, Accepted
<1>2. /\ ContextList(auth_contexts') /\ DOMAIN auth_contexts' \subseteq DOMAIN auth_contexts
      /\ \A i \in DOMAIN auth_contexts' : auth_contexts'[i] = auth_contexts[i]
  BY <1>1, CleanupKeeps DEF AuthInv, AuthTypeOK
<1>3. uses' = uses
  BY DEF Challenged, Forbidden, Accepted
<1>4. Counting(auth_contexts)'
  BY <1>2, <1>3 DEF AuthInv, Counting
<1>5. \A m : Fresh(m, auth_contexts) => Fresh(m, auth_contexts)'
  BY <1>2, <1>3 DEF Fresh
<1>6. {} \in CredentialSets
  BY DEF CredentialSets
<1>7. CASE Challenged(c)
  <2>1. PICK who \in Challengers :
          request' = [request EXCEPT ![c] = [state |-> who, credentials |-> {},
                                             nonce |-> issued + 1]]
    BY <1>7 DEF Challenged, Challengers
  <2>2. issued' = issued + 1 /\ issued < MaxNonce
    BY <1>7 DEF Challenged
  <2>3. issued \in 0..MaxNonce /\ MaxNonce \in Nat
    BY AuthenticationAssumption DEF AuthInv, AuthTypeOK
  <2>4. issued + 1 \in 1..MaxNonce /\ issued + 1 \in 1..issued' /\ issued' \in 0..MaxNonce
    BY <2>2, <2>3
  <2>5. AuthTypeOK'
    BY <1>2, <1>3, <1>6, <2>1, <2>4 DEF AuthInv, AuthTypeOK, RequestStates
  <2>6. \A d \in CallIds : d # c => request'[d] = request[d]
    BY <2>1 DEF AuthInv, AuthTypeOK
  <2>7. request'[c].nonce = issued + 1
    BY <2>1 DEF AuthInv, AuthTypeOK
  <2>8. Fresh(issued, auth_contexts)'
    <3>1. issued' \in 1..MaxNonce /\ issued' > issued
      BY <2>2, <2>3
    <3>2. Fresh(issued', auth_contexts)
      BY <3>1 DEF AuthInv, FreshInv
    <3> QED
      BY <1>5, <3>2
  <2>9. FreshInv'
    <3>1. ASSUME NEW m \in 1..MaxNonce, m > issued' PROVE Fresh(m, auth_contexts)'
      BY <1>5, <2>2, <2>3, <3>1 DEF AuthInv, FreshInv
    <3>2. ASSUME NEW d \in CallIds, IsChallenged(d)'
          PROVE  request'[d].nonce \in 1..issued' /\ Fresh(request[d].nonce, auth_contexts)'
      <4>1. CASE d = c
        BY <2>2, <2>4, <2>7, <2>8, <4>1
      <4>2. CASE d # c
        <5>1. request[d].nonce \in 1..issued /\ Fresh(request[d].nonce, auth_contexts)
          BY <2>6, <3>2, <4>2 DEF AuthInv, FreshInv, IsChallenged
        <5> QED
          BY <1>5, <2>2, <2>3, <2>6, <4>2, <5>1
      <4> QED
        BY <4>1, <4>2
    <3>3. ASSUME NEW d \in CallIds, NEW e \in CallIds, IsChallenged(d)', IsChallenged(e)',
                 request'[d].nonce = request'[e].nonce
          PROVE  d = e
      <4>1. \A f \in CallIds : f # c /\ IsChallenged(f)' =>
              /\ IsChallenged(f) /\ request'[f] = request[f]
              /\ request'[f].nonce # issued + 1
        BY <2>3, <2>6 DEF AuthInv, FreshInv, IsChallenged
      <4> QED
        BY <2>7, <3>3, <4>1 DEF AuthInv, FreshInv
    <3> QED
      BY <3>1, <3>2, <3>3 DEF FreshInv
  <2> QED
    BY <1>4, <2>5, <2>9 DEF AuthInv
<1>8. CASE Forbidden(c) \/ Accepted(c)
  <2>1. PICK s \in {"forbidden", "accepted"} :
          request' = [request EXCEPT ![c].state = s, ![c].credentials = {}]
    BY <1>8 DEF Forbidden, Accepted
  <2>2. issued' = issued
    BY <1>8 DEF Forbidden, Accepted
  <2>3. AuthTypeOK'
    BY <1>2, <1>3, <1>6, <2>1, <2>2 DEF AuthInv, AuthTypeOK, RequestStates
  <2>4. \A d \in CallIds : IsChallenged(d)' => IsChallenged(d) /\ request'[d] = request[d]
    BY <2>1 DEF AuthInv, AuthTypeOK, IsChallenged, Challengers
  <2>5. FreshInv'
    BY <1>5, <2>2, <2>4 DEF AuthInv, FreshInv
  <2> QED
    BY <1>4, <2>3, <2>5 DEF AuthInv
<1> QED
  BY <1>7, <1>8

\* The invariant is kept by every step.
LEMMA AuthStep == AuthInv /\ [AuthNext]_authVars => AuthInv'
<1> SUFFICES ASSUME AuthInv, [AuthNext]_authVars PROVE AuthInv'
  OBVIOUS
<1>1. ASSUME NEW w \in Challengers, NEW n \in 1..MaxNonce, NonceExpires(w, n) PROVE AuthInv'
  BY <1>1 DEF NonceExpires, AuthInv, AuthTypeOK, Counting, FreshInv, Fresh, IsChallenged
<1>2. CASE UNCHANGED authVars
  BY <1>2 DEF authVars, AuthInv, AuthTypeOK, Counting, FreshInv, Fresh, IsChallenged
<1> QED
  BY <1>1, <1>2, SendRequestKeeps, ResendKeeps, RefusalKeeps DEF AuthNext

\* The invariant holds in every state.
LEMMA AuthInvariant == Spec => []AuthInv
<1>1. Init => AuthInv
  <2> SUFFICES ASSUME AuthInit PROVE AuthInv
    BY DEF Init
  <2>1. AuthTypeOK
    BY AuthenticationAssumption
       DEF AuthInit, AuthTypeOK, ContextList, RequestStates, CredentialSets
  <2>2. Counting(auth_contexts)
    BY DEF AuthInit, Counting
  <2>3. FreshInv
    BY DEF AuthInit, FreshInv, Fresh, IsChallenged, Challengers
  <2> QED
    BY <2>1, <2>2, <2>3 DEF AuthInv
<1>2. AuthInv /\ [Next]_vars => AuthInv'
  <2>1. [Next]_vars => [AuthNext]_authVars
    BY DEF Next, vars
  <2> QED
    BY <2>1, AuthStep
<1> QED
  BY <1>1, <1>2, PTL DEF Spec

\* The count of a context is the number of the requests that had its nonce
\* (belle_sip_provider_add_authorization(), authorization_context_fill_from_auth()).
THEOREM CountIsExactHolds == Spec => []CountIsExact
<1>1. AuthInv => CountIsExact
  BY DEF AuthInv, Counting, CountIsExact
<1> QED
  BY <1>1, AuthInvariant, PTL
-----------------------------------------------------------------------------
(***************************************************************************)
(* The HTTP provider.  A handler changes what it has several times, so the *)
(* parts of the invariant are about a state s as Now gives it.             *)
(***************************************************************************)
HttpStates == {"none", "INIT", "READY", "ERROR", "DISCONNECTED", "destroyed"}

\* The answer of the site to a request, and a request, but for its credentials.
HttpAnswers == [of : HttpRequests, code : {200, 401}]

RequestType(auth) ==
    [sent : BOOLEAN, cancelled : BOOLEAN, auth_attempt_count : Nat,
     channel : HttpChannels \cup {NoChannel}, split : BOOLEAN, hosts : Nat,
     answers : Seq(HttpAnswers), errors : Nat, auth : {auth}]

\* A channel, but for what is under way to the site.
ChannelType(wire) ==
    [state : HttpStates, outgoing : Seq(HttpRequests), pending : Seq(HttpRequests), wire : {wire},
     ref : Nat, about_to_be_closed : BOOLEAN, force_close : BOOLEAN, notified : BOOLEAN]

Has(list, e) == \E i \in 1..Len(list) : list[i] = e

Once(list) == \A i, j \in 1..Len(list) : list[i] = list[j] => i = j

HttpTypeOK(s) ==
    /\ s = [req |-> s.req, ch |-> s.ch, list |-> s.list]
    /\ s.req = [r \in HttpRequests |-> s.req[r]]
    /\ s.ch = [c \in HttpChannels |-> s.ch[c]]
    /\ \A r \in HttpRequests : s.req[r] \in RequestType(s.req[r].auth)
    /\ \A c \in HttpChannels : s.ch[c] \in ChannelType(s.ch[c].wire)
    /\ s.list \in Seq(HttpChannels) /\ Once(s.list)

\* In which states a channel is in the list, and a notice is to come; one that is connected has
\* sent what waits for an answer.
ChannelOK(x, listed) ==
    /\ x.state \in {"INIT", "READY"} =>
         listed /\ x.notified /\ ~x.force_close /\ Len(x.wire) = Len(x.pending)
    /\ x.state = "ERROR" => listed /\ ~x.notified /\ ~x.force_close
    /\ x.state = "DISCONNECTED" => ~listed /\ x.force_close
    /\ x.state \in {"none", "destroyed"} =>
         ~listed /\ x.notified /\ x.ref = 0 /\ x.pending = <<>>

\* What reached the site are the first of the requests that wait for their responses, as they are.
WireAt(s, x) ==
    \E n \in 0..Len(x.pending) : x.wire = [i \in 1..n |-> OnWire(s, x.pending[i])]

\* A channel may still send the request, or tell its outcome.
Queued(x) == x.state \in {"INIT", "READY", "ERROR"}

WaitsAt(x, r) == Has(x.pending, r) \/ (Queued(x) /\ Has(x.outgoing, r))

\* A request waits once.
OnceAt(x) ==
    /\ Once(x.pending)
    /\ Queued(x) => /\ Once(x.outgoing)
                    /\ \A r \in HttpRequests : ~(Has(x.pending, r) /\ Has(x.outgoing, r))

ChannelsOK(s) ==
    \A c \in HttpChannels :
        /\ ChannelOK(s.ch[c], Has(s.list, c))
        /\ WireAt(s, s.ch[c])
        /\ OnceAt(s.ch[c])
        /\ \A d \in HttpChannels \ {c}, r \in HttpRequests :
             ~(WaitsAt(s.ch[c], r) /\ WaitsAt(s.ch[d], r))

Waits(s, r) == \E c \in HttpChannels : WaitsAt(s.ch[c], r)

\* A request that was not sent, or was told its outcome, waits no more.
Unanswered(q) == q.sent /\ q.answers = <<>> /\ q.errors = 0

ToldOK(s) == \A r \in HttpRequests : Waits(s, r) => Unanswered(s.req[r])

\* The site accepts the credentials the application has.
Willing ==
    /\ knows \notin {"wrong", "nothing"}
    /\ site.scheme = "Digest" /\ site.qop \in {Null, "auth"}

HttpSeen == [willing |-> Willing, stale |-> stale]

\* A request, when that is what is seen of the site: one that was sent again has credentials that
\* verify, and each time but the first a nonce was called stale.
RequestOK(q, r, st) ==
    /\ q.hosts = IF q.split THEN 1 ELSE 0
    /\ q.sent => q.split
    /\ ~q.sent => q.answers = <<>> /\ q.errors = 0
    /\ q.auth.nonce \in Nat
    /\ Len(q.answers) <= 1
    /\ q.answers # <<>> => q.errors = 0
    /\ \A i \in 1..Len(q.answers) :
         q.answers[i].of = r /\ (q.answers[i].code = 401 => ~st.willing \/ st.stale > 1)
    /\ st.willing /\ q.auth_attempt_count > 0 =>
         /\ Verifies(q.auth, Method, HttpPaths[r], HttpUser, Password)
         /\ q.auth_attempt_count <= st.stale + 1

RequestsOK(s, st) == \A r \in HttpRequests : RequestOK(s.req[r], r, st)

\* A channel has a reference of the list, one of its deferred notice, and one of the main loop
\* that reads from it.
Holders(x, listed, read) ==
    (IF listed THEN 1 ELSE 0) + (IF x.notified THEN 0 ELSE 1) + (IF read THEN 1 ELSE 0)

HttpRefs(s, rd) ==
    \A c \in HttpChannels : s.ch[c].ref = Holders(s.ch[c], Has(s.list, c), rd = c)

Http(s, st) == HttpTypeOK(s) /\ ChannelsOK(s) /\ ToldOK(s) /\ RequestsOK(s, st)

HttpOK ==
    /\ knows \in Knowledge /\ stale \in Nat /\ reading \in HttpChannels \cup {NoChannel}
    /\ Http(Now, HttpSeen) /\ HttpRefs(Now, reading)

HttpInv == IF role = "HTTP" THEN HttpOK ELSE hreq = <<>> /\ hchan = <<>>

\* What is in a list, after each of the operations on it.
LEMMA ListConcat ==
    ASSUME NEW S, NEW a \in Seq(S), NEW b \in Seq(S)
    PROVE  /\ a \o b \in Seq(S) /\ Len(a \o b) = Len(a) + Len(b)
           /\ \A i \in 1..Len(a) : (a \o b)[i] = a[i]
           /\ \A i \in 1..Len(b) : (a \o b)[i + Len(a)] = b[i]
           /\ \A e : Has(a \o b, e) <=> Has(a, e) \/ Has(b, e)
           /\ Once(a) /\ Once(b) /\ (\A e \in S : ~(Has(a, e) /\ Has(b, e))) => Once(a \o b)
<1>1. /\ a \o b \in Seq(S) /\ Len(a \o b) = Len(a) + Len(b)
      /\ \A i \in 1..(Len(a) + Len(b)) :
           (a \o b)[i] = IF i <= Len(a) THEN a[i] ELSE b[i - Len(a)]
      /\ Len(a) \in Nat /\ Len(b) \in Nat
  BY ConcatProperties, LenProperties
<1> DEFINE w == a \o b
<1> HIDE DEF w
<1>2. /\ \A i \in 1..Len(a) : i \in 1..Len(w) /\ w[i] = a[i]
      /\ \A i \in 1..Len(b) : i + Len(a) \in 1..Len(w) /\ w[i + Len(a)] = b[i]
  BY <1>1 DEF w
<1>3. \A i \in 1..Len(w) : (i \in 1..Len(a) /\ w[i] = a[i])
                            \/ (i - Len(a) \in 1..Len(b) /\ w[i] = b[i - Len(a)])
  BY <1>1 DEF w
<1>4. \A e : Has(w, e) <=> Has(a, e) \/ Has(b, e)
  BY <1>2, <1>3 DEF Has
<1>5. ASSUME Once(a), Once(b), \A e \in S : ~(Has(a, e) /\ Has(b, e)) PROVE Once(w)
  <2> SUFFICES ASSUME NEW i \in 1..Len(w), NEW j \in 1..Len(w), w[i] = w[j] PROVE i = j
    BY DEF Once
  <2>1. w[i] \in S
    BY <1>1, ElementOfSeq DEF w
  <2>2. ~(Has(a, w[i]) /\ Has(b, w[i]))
    BY <1>5, <2>1
  <2> QED
    <3>1. CASE i \in 1..Len(a) /\ w[i] = a[i]
      <4>1. Has(a, w[i])
        BY <3>1 DEF Has
      <4>2. ~(j - Len(a) \in 1..Len(b) /\ w[j] = b[j - Len(a)])
        BY <2>2, <4>1 DEF Has
      <4> QED
        BY <1>3, <1>5, <3>1, <4>2 DEF Once
    <3>2. CASE i - Len(a) \in 1..Len(b) /\ w[i] = b[i - Len(a)]
      <4>1. Has(b, w[i])
        BY <3>2 DEF Has
      <4>2. ~(j \in 1..Len(a) /\ w[j] = a[j])
        BY <2>2, <4>1 DEF Has
      <4>3. j - Len(a) \in 1..Len(b) /\ b[i - Len(a)] = b[j - Len(a)]
        BY <1>3, <3>2, <4>2
      <4> QED
        BY <1>1, <1>5, <3>2, <4>3 DEF Once
    <3> QED
      BY <1>3, <3>1, <3>2
<1> QED
  BY <1>1, <1>2, <1>4, <1>5 DEF w

LEMMA ListAppend ==
    ASSUME NEW S, NEW a \in Seq(S), NEW x \in S
    PROVE  /\ Append(a, x) \in Seq(S) /\ Len(Append(a, x)) = Len(a) + 1
           /\ \A e : Has(Append(a, x), e) <=> Has(a, e) \/ e = x
           /\ Once(a) /\ ~Has(a, x) => Once(Append(a, x))
<1>1. /\ Append(a, x) \in Seq(S) /\ Len(Append(a, x)) = Len(a) + 1
      /\ \A i \in 1..Len(a) : Append(a, x)[i] = a[i]
      /\ Append(a, x)[Len(a) + 1] = x
      /\ Len(a) \in Nat
  BY AppendProperties, LenProperties
<1> QED
  BY <1>1 DEF Has, Once

LEMMA ListPart ==
    ASSUME NEW S, NEW a \in Seq(S), NEW m \in Nat \ {0}, NEW n \in 0..Len(a)
    PROVE  /\ SubSeq(a, m, n) \in Seq(S)
           /\ Len(SubSeq(a, m, n)) = IF m <= n THEN n - m + 1 ELSE 0
           /\ \A i \in 1..(n - m + 1) : SubSeq(a, m, n)[i] = a[m + i - 1]
           /\ \A e : Has(SubSeq(a, m, n), e) <=> \E i \in m..n : a[i] = e
           /\ Once(a) => Once(SubSeq(a, m, n))
<1>1. Len(a) \in Nat /\ \A i \in 1..Len(a) : a[i] \in S
  BY LenProperties
<1>2. /\ SubSeq(a, m, n) \in Seq(S)
      /\ Len(SubSeq(a, m, n)) = IF m <= n THEN n - m + 1 ELSE 0
      /\ \A i \in 1..(n - m + 1) : SubSeq(a, m, n)[i] = a[m + i - 1]
  BY <1>1, SubSeqProperties
<1> DEFINE b == SubSeq(a, m, n)
<1> HIDE DEF b
<1>3. \A i \in 1..Len(b) : m + i - 1 \in m..n /\ b[i] = a[m + i - 1]
  BY <1>1, <1>2 DEF b
<1>4. \A i \in m..n : i - m + 1 \in 1..Len(b) /\ b[i - m + 1] = a[i]
  BY <1>1, <1>2 DEF b
<1>5. \A e : Has(b, e) <=> \E i \in m..n : a[i] = e
  BY <1>3, <1>4 DEF Has
<1>6. Once(a) => Once(b)
  BY <1>1, <1>2, <1>3 DEF b, Once
<1> QED
  BY <1>2, <1>5, <1>6 DEF b

LEMMA ListTail ==
    ASSUME NEW S, NEW a \in Seq(S), a # <<>>
    PROVE  /\ Head(a) \in S /\ Tail(a) \in Seq(S) /\ Len(Tail(a)) = Len(a) - 1 /\ Len(a) > 0
           /\ \A i \in 1..(Len(a) - 1) : Tail(a)[i] = a[i + 1]
           /\ Head(a) = a[1]
           /\ \A e : Has(a, e) <=> e = Head(a) \/ Has(Tail(a), e)
           /\ Once(a) => Once(Tail(a)) /\ ~Has(Tail(a), Head(a))
<1>1. /\ Head(a) \in S /\ Tail(a) \in Seq(S) /\ Len(Tail(a)) = Len(a) - 1
      /\ \A i \in 1..Len(Tail(a)) : Tail(a)[i] = a[i + 1]
      /\ Len(a) \in Nat \ {0}
  BY HeadTailProperties, EmptySeq
<1>2. Head(a) = a[1]
  OBVIOUS
<1> DEFINE b == Tail(a)
<1> HIDE DEF b
<1>3. \A i \in 1..(Len(a) - 1) : i + 1 \in 1..Len(a) /\ b[i] = a[i + 1]
  BY <1>1 DEF b
<1>4. \A i \in 1..Len(a) : i = 1 \/ (i - 1 \in 1..(Len(a) - 1) /\ b[i - 1] = a[i])
  BY <1>1 DEF b
<1>5. Len(b) = Len(a) - 1
  BY <1>1 DEF b
<1>6. \A e : Has(a, e) <=> e = a[1] \/ Has(b, e)
  BY <1>1, <1>3, <1>4, <1>5 DEF Has
<1>7. Once(a) => Once(b) /\ ~Has(b, a[1])
  BY <1>1, <1>3, <1>5 DEF Has, Once
<1> QED
  BY <1>1, <1>2, <1>6, <1>7 DEF b

\* The state in which a channel, or a request, is another.
ChannelBecomes(s, c, x) == [s EXCEPT !.ch[c] = x]

RequestBecomes(s, r, q) == [s EXCEPT !.req[r] = q]

LEMMA ChannelSet ==
    ASSUME NEW s, HttpTypeOK(s), NEW c \in HttpChannels, NEW x, x \in ChannelType(x.wire),
           NEW t, t = ChannelBecomes(s, c, x)
    PROVE  /\ HttpTypeOK(t) /\ t.req = s.req /\ t.list = s.list /\ t.ch[c] = x
           /\ \A d \in HttpChannels \ {c} : t.ch[d] = s.ch[d]
<1>1. /\ s = [req |-> s.req, ch |-> s.ch, list |-> s.list]
      /\ s.ch = [d \in HttpChannels |-> s.ch[d]]
  BY DEF HttpTypeOK
<1>2. t = [req |-> s.req, ch |-> [s.ch EXCEPT ![c] = x], list |-> s.list]
  BY <1>1 DEF ChannelBecomes, RequestBecomes
<1>3. t.req = s.req /\ t.list = s.list /\ t.ch = [s.ch EXCEPT ![c] = x]
  BY <1>2
<1>4. t.ch = [d \in HttpChannels |-> IF d = c THEN x ELSE s.ch[d]]
  BY <1>1, <1>3
<1>5. t.ch[c] = x /\ \A d \in HttpChannels \ {c} : t.ch[d] = s.ch[d]
  BY <1>4
<1>6. t.ch = [d \in HttpChannels |-> t.ch[d]]
  BY <1>4
<1>7. t = [req |-> t.req, ch |-> t.ch, list |-> t.list]
  BY <1>2, <1>3
<1> QED
  BY <1>3, <1>5, <1>6, <1>7 DEF HttpTypeOK

LEMMA RequestSet ==
    ASSUME NEW s, HttpTypeOK(s), NEW r \in HttpRequests, NEW q, q \in RequestType(q.auth),
           NEW t, t = RequestBecomes(s, r, q)
    PROVE  /\ HttpTypeOK(t) /\ t.ch = s.ch /\ t.list = s.list /\ t.req[r] = q
           /\ \A p \in HttpRequests \ {r} : t.req[p] = s.req[p]
<1>1. /\ s = [req |-> s.req, ch |-> s.ch, list |-> s.list]
      /\ s.req = [p \in HttpRequests |-> s.req[p]]
  BY DEF HttpTypeOK
<1>2. t = [req |-> [s.req EXCEPT ![r] = q], ch |-> s.ch, list |-> s.list]
  BY <1>1 DEF ChannelBecomes, RequestBecomes
<1>3. t.ch = s.ch /\ t.list = s.list /\ t.req = [s.req EXCEPT ![r] = q]
  BY <1>2
<1>4. t.req = [p \in HttpRequests |-> IF p = r THEN q ELSE s.req[p]]
  BY <1>1, <1>3
<1>5. t.req[r] = q /\ \A p \in HttpRequests \ {r} : t.req[p] = s.req[p]
  BY <1>4
<1>6. t.req = [p \in HttpRequests |-> t.req[p]]
  BY <1>4
<1>7. t = [req |-> t.req, ch |-> t.ch, list |-> t.list]
  BY <1>2, <1>3
<1> QED
  BY <1>3, <1>5, <1>6, <1>7 DEF HttpTypeOK

\* A channel whose connection fails (channel_set_state(ERROR)).
LEMMA FailingChannel ==
    ASSUME NEW x, x \in ChannelType(x.wire)
    PROVE  /\ Failing(x) \in ChannelType(Failing(x).wire) /\ Failing(x).wire = x.wire
           /\ Failing(x).outgoing = x.outgoing /\ Failing(x).pending = x.pending
           /\ Failing(x).about_to_be_closed = x.about_to_be_closed
           /\ Failing(x).force_close = x.force_close /\ Failing(x).state = "ERROR"
           /\ Failing(x).ref = x.ref + 1 /\ Failing(x).notified = FALSE
<1>1. PICK w : w = x.wire
  OBVIOUS
<1>2. x \in ChannelType(w)
  BY <1>1
<1>3. Failing(x) \in ChannelType(w)
  <2>1. PICK n : n = x.ref + 1
    OBVIOUS
  <2>2. Failing(x) = [x EXCEPT !.state = "ERROR", !.ref = n, !.notified = FALSE]
    BY <1>2, <2>1 DEF Failing
  <2>3. n \in Nat
    BY <1>2, <2>1 DEF ChannelType
  <2> QED
    BY <1>2, <2>2, <2>3 DEF ChannelType, HttpStates
<1>4. /\ Failing(x).outgoing = x.outgoing /\ Failing(x).pending = x.pending
      /\ Failing(x).about_to_be_closed = x.about_to_be_closed
      /\ Failing(x).force_close = x.force_close /\ Failing(x).state = "ERROR"
      /\ Failing(x).ref = x.ref + 1 /\ Failing(x).notified = FALSE /\ Failing(x).wire = x.wire
  BY <1>2 DEF Failing, ChannelType
<1> QED
  BY <1>1, <1>3, <1>4

LEMMA SetErrorEffect ==
    ASSUME NEW s, NEW c
    PROVE  SetError(s, c) = ChannelBecomes(s, c, Failing(s.ch[c]))
  BY DEF SetError, ChannelBecomes

\* The first n messages of a queue on the wire, and those that are tried when n go out.
SentOn(s, out, n) == [i \in 1..n |-> OnWire(s, out[i])]

Tried(out, n) == SubSeq(out, 1, IF n < Len(out) THEN n + 1 ELSE n)

\* What going through the queue of a channel changes.
QueueProcessed(s, c, n, t) ==
    LET x == s.ch[c]
        y == t.ch[c]
        fails == n < Len(x.outgoing)
    IN  /\ HttpTypeOK(t) /\ t.req = s.req /\ t.list = s.list
        /\ \A d \in HttpChannels \ {c} : t.ch[d] = s.ch[d]
        /\ y.outgoing = SubSeq(x.outgoing, n + 3, Len(x.outgoing))
        /\ y.pending = x.pending \o Tried(x.outgoing, n)
        /\ y.wire = x.wire \o SentOn(s, x.outgoing, n)
        /\ y.about_to_be_closed = x.about_to_be_closed /\ y.force_close = x.force_close
        /\ y.state = IF fails THEN "ERROR" ELSE x.state
        /\ y.ref = IF fails THEN x.ref + 1 ELSE x.ref
        /\ y.notified = IF fails THEN FALSE ELSE x.notified

LEMMA ProcessQueueEffect ==
    ASSUME NEW s, HttpTypeOK(s), NEW c \in HttpChannels, NEW n \in 0..Len(s.ch[c].outgoing)
    PROVE  QueueProcessed(s, c, n, process_queue(s, c, n))
<1>0. PICK t : t = process_queue(s, c, n)
  OBVIOUS
<1> DEFINE x == s.ch[c]
           out == x.outgoing
           fails == n < Len(out)
           k == IF fails THEN n + 1 ELSE n
           sent == [i \in 1..n |-> OnWire(s, out[i])]
           rest == SubSeq(out, n + 3, Len(out))
           tried == SubSeq(out, 1, k)
           z == [x EXCEPT !.outgoing = rest, !.pending = x.pending \o tried, !.wire = x.wire \o sent]
           u == [s EXCEPT !.ch[c] = z]
           e == Failing(z)
           v == [u EXCEPT !.ch[c] = e]
<1>1. x \in ChannelType(x.wire)
  BY DEF HttpTypeOK
<1>2. out \in Seq(HttpRequests) /\ x.pending \in Seq(HttpRequests) /\ Len(out) \in Nat /\ n \in Nat
      /\ n <= Len(out)
  BY <1>1 DEF ChannelType
<1>3. rest \in Seq(HttpRequests)
  BY <1>2, ListPart
<1>4. tried \in Seq(HttpRequests)
  <2>1. k \in 0..Len(out)
    BY <1>2
  <2> QED
    <3> HIDE DEF k, out
    <3> QED
      BY <1>2, <2>1, ListPart
<1>5. x.pending \o tried \in Seq(HttpRequests)
  <2> HIDE DEF tried, x
  <2> QED
    BY <1>2, <1>4, ListConcat
<1>6. z = [x EXCEPT !.outgoing = rest, !.pending = x.pending \o tried, !.wire = x.wire \o sent]
  OBVIOUS
<1>7. u = ChannelBecomes(s, c, z) /\ v = ChannelBecomes(u, c, e)
  BY DEF ChannelBecomes
<1>8. e = Failing(z)
  OBVIOUS
<1>9. t = IF fails THEN SetError(u, c) ELSE u
  BY <1>0, Zenon DEF process_queue, http_channel_on_sending
<1> DEFINE p == x.pending \o tried
           w == x.wire \o sent
<1>10. /\ rest = SubSeq(out, n + 3, Len(out)) /\ p = x.pending \o Tried(out, n)
       /\ w = x.wire \o SentOn(s, out, n) /\ out = x.outgoing /\ x = s.ch[c]
  BY DEF Tried, SentOn
<1>11. z = [x EXCEPT !.outgoing = rest, !.pending = p, !.wire = w]
  BY <1>6
<1>12. p \in Seq(HttpRequests)
  BY <1>5
<1>13. fails \in BOOLEAN
  OBVIOUS
<1> HIDE DEF x, z, u, e, v, rest, tried, sent, p, w, out, k
<1>14. /\ z \in ChannelType(z.wire) /\ z.wire = w /\ z.outgoing = rest /\ z.pending = p
       /\ z.about_to_be_closed = x.about_to_be_closed /\ z.force_close = x.force_close
       /\ z.state = x.state /\ z.ref = x.ref /\ z.notified = x.notified
  BY <1>1, <1>3, <1>11, <1>12 DEF ChannelType
<1>15. /\ e \in ChannelType(e.wire) /\ e.wire = w /\ e.outgoing = rest /\ e.pending = p
       /\ e.about_to_be_closed = x.about_to_be_closed /\ e.force_close = x.force_close
       /\ e.state = "ERROR" /\ e.ref = x.ref + 1 /\ e.notified = FALSE
  BY <1>8, <1>14, FailingChannel
<1>16. /\ HttpTypeOK(u) /\ u.req = s.req /\ u.list = s.list /\ u.ch[c] = z
       /\ \A d \in HttpChannels \ {c} : u.ch[d] = s.ch[d]
  BY <1>7, <1>14, ChannelSet
<1>17. /\ HttpTypeOK(v) /\ v.req = u.req /\ v.list = u.list /\ v.ch[c] = e
       /\ \A d \in HttpChannels \ {c} : v.ch[d] = u.ch[d]
  BY <1>7, <1>15, <1>16, ChannelSet
<1>18. SetError(u, c) = v
  BY <1>7, <1>8, <1>16, SetErrorEffect
<1>19. ASSUME fails PROVE QueueProcessed(s, c, n, t)
  <2>1. t = v
    BY <1>9, <1>18, <1>19
  <2> QED
    BY <1>10, <1>15, <1>16, <1>17, <1>19, <2>1 DEF QueueProcessed
<1>20. ASSUME ~fails PROVE QueueProcessed(s, c, n, t)
  <2>1. t = u
    BY <1>9, <1>20
  <2> QED
    BY <1>10, <1>14, <1>16, <1>20, <2>1 DEF QueueProcessed
<1>21. QueueProcessed(s, c, n, t)
  BY <1>19, <1>20
<1> QED
  BY <1>0, <1>21

\* What is seen of a request on the wire.
SameOnWire(p, q) == p.auth = q.auth /\ p.split = q.split /\ p.hosts = q.hosts

Wired(s) == {OnWire(s, r) : r \in HttpRequests}

\* What reached the site is a list of requests as they are on the wire.
LEMMA WireIsList ==
    ASSUME NEW s, NEW x, WireAt(s, x), x.pending \in Seq(HttpRequests)
    PROVE  /\ x.wire \in Seq(Wired(s))
           /\ Len(x.wire) <= Len(x.pending) /\ Len(x.wire) \in Nat
           /\ \A i \in 1..Len(x.wire) : i \in 1..Len(x.pending) /\ x.wire[i] = OnWire(s, x.pending[i])
           /\ x.wire = SentOn(s, x.pending, Len(x.wire))
<1>1. PICK n \in 0..Len(x.pending) : x.wire = [i \in 1..n |-> OnWire(s, x.pending[i])]
  BY DEF WireAt
<1>2. Len(x.pending) \in Nat /\ n \in Nat /\ \A i \in 1..Len(x.pending) : x.pending[i] \in HttpRequests
  BY LenProperties
<1> DEFINE W == Wired(s)
<1>3. \A i \in 1..n : OnWire(s, x.pending[i]) \in W
  BY <1>2 DEF Wired
<1> HIDE DEF W
<1>4. x.wire \in [1..n -> W]
  BY <1>1, <1>3
<1>5. x.wire \in Seq(W) /\ Len(x.wire) = n
  BY <1>2, <1>4
<1> QED
  BY <1>1, <1>2, <1>5 DEF W, SentOn

\* The same requests are on the wire, as they are, when nothing changes that is seen of them.
LEMMA WireSame ==
    ASSUME NEW s, NEW t, NEW x, NEW y, WireAt(s, x), x.pending \in Seq(HttpRequests),
           y.pending = x.pending, y.wire = x.wire,
           \A r \in HttpRequests : Has(x.pending, r) => SameOnWire(s.req[r], t.req[r])
    PROVE  WireAt(t, y)
<1>1. PICK n \in 0..Len(x.pending) : x.wire = [i \in 1..n |-> OnWire(s, x.pending[i])]
  BY DEF WireAt
<1>2. Len(x.pending) \in Nat /\ n \in Nat /\ \A i \in 1..Len(x.pending) : x.pending[i] \in HttpRequests
  BY LenProperties
<1>3. \A i \in 1..n : OnWire(t, x.pending[i]) = OnWire(s, x.pending[i])
  BY <1>2 DEF Has, SameOnWire, OnWire
<1>4. x.wire = [i \in 1..n |-> OnWire(t, x.pending[i])]
  BY <1>1, <1>3
<1> QED
  BY <1>4 DEF WireAt

\* When one channel changes, and requests of it or that do not wait, the invariant is about them.
LEMMA ChangeKeeps ==
    ASSUME NEW s, NEW st, Http(s, st), NEW t, HttpTypeOK(t), NEW su, NEW c \in HttpChannels,
           \A d \in HttpChannels \ {c} : t.ch[d] = s.ch[d] /\ (Has(t.list, d) <=> Has(s.list, d)),
           ChannelOK(t.ch[c], Has(t.list, c)), OnceAt(t.ch[c]), WireAt(t, t.ch[c]),
           \A r \in HttpRequests : WaitsAt(t.ch[c], r) => WaitsAt(s.ch[c], r) \/ ~Waits(s, r),
           \A r \in HttpRequests : Waits(s, r) => SameOnWire(s.req[r], t.req[r]),
           \A r \in HttpRequests : Waits(t, r) => Unanswered(t.req[r]),
           RequestsOK(t, su)
    PROVE  Http(t, su)
<1>1. ASSUME NEW d \in HttpChannels \ {c} PROVE WireAt(t, t.ch[d])
  <2>1. WireAt(s, s.ch[d]) /\ s.ch[d].pending \in Seq(HttpRequests)
    BY DEF Http, ChannelsOK, HttpTypeOK, ChannelType
  <2>2. \A r \in HttpRequests : Has(s.ch[d].pending, r) => SameOnWire(s.req[r], t.req[r])
    BY DEF Waits, WaitsAt
  <2> QED
    BY <2>1, <2>2, WireSame
<1>2. ASSUME NEW d \in HttpChannels
      PROVE  ChannelOK(t.ch[d], Has(t.list, d)) /\ OnceAt(t.ch[d]) /\ WireAt(t, t.ch[d])
  <2>1. CASE d = c
    BY <2>1
  <2>2. CASE d # c
    <3>1. ChannelOK(s.ch[d], Has(s.list, d)) /\ OnceAt(s.ch[d])
      BY DEF Http, ChannelsOK
    <3> QED
      BY <1>1, <2>2, <3>1 DEF ChannelOK
  <2> QED
    BY <2>1, <2>2
<1>3. ASSUME NEW d \in HttpChannels, NEW e \in HttpChannels \ {d}, NEW r \in HttpRequests
      PROVE  ~(WaitsAt(t.ch[d], r) /\ WaitsAt(t.ch[e], r))
  BY DEF Http, ChannelsOK, Waits
<1>4. ChannelsOK(t)
  BY <1>2, <1>3 DEF ChannelsOK
<1> QED
  BY <1>4 DEF Http, ToldOK

\* What goes out, or not, with the queue of a channel that is connected.
LEMMA ProcessQueueKeeps ==
    ASSUME NEW s, NEW st, Http(s, st), NEW rd, HttpRefs(s, rd), NEW c \in HttpChannels,
           s.ch[c].state = "READY", NEW n \in 0..Len(s.ch[c].outgoing),
           NEW t, t = process_queue(s, c, n)
    PROVE  /\ Http(t, st) /\ HttpRefs(t, rd)
           /\ t.req = s.req /\ t.list = s.list
           /\ \A d \in HttpChannels : t.ch[d].about_to_be_closed = s.ch[d].about_to_be_closed
           /\ \A r \in HttpRequests : Waits(t, r) => Waits(s, r)
<1> DEFINE x == s.ch[c]
           y == t.ch[c]
           out == x.outgoing
           k == IF n < Len(out) THEN n + 1 ELSE n
<1>1. HttpTypeOK(s) /\ x \in ChannelType(x.wire)
  BY DEF Http, HttpTypeOK
<1>2. /\ HttpTypeOK(t) /\ t.req = s.req /\ t.list = s.list
      /\ \A d \in HttpChannels \ {c} : t.ch[d] = s.ch[d]
      /\ y.outgoing = SubSeq(out, n + 3, Len(out))
      /\ y.pending = x.pending \o Tried(out, n)
      /\ y.wire = x.wire \o SentOn(s, out, n)
      /\ y.about_to_be_closed = x.about_to_be_closed /\ y.force_close = x.force_close
      /\ y.state = (IF n < Len(out) THEN "ERROR" ELSE x.state)
      /\ y.ref = (IF n < Len(out) THEN x.ref + 1 ELSE x.ref)
      /\ y.notified = (IF n < Len(out) THEN FALSE ELSE x.notified)
  <2>1. QueueProcessed(s, c, n, t)
    BY <1>1, ProcessQueueEffect
  <2> QED
    BY <2>1, Zenon DEF QueueProcessed
<1>3. /\ Has(s.list, c) /\ x.notified /\ ~x.force_close /\ Len(x.wire) = Len(x.pending)
      /\ OnceAt(x) /\ WireAt(s, x)
  BY DEF Http, ChannelsOK, ChannelOK
<1>4. /\ out \in Seq(HttpRequests) /\ x.pending \in Seq(HttpRequests) /\ x.state = "READY"
      /\ Len(out) \in Nat /\ n \in Nat /\ n <= Len(out) /\ k \in 0..Len(out)
      /\ \A r : WaitsAt(x, r) <=> Has(x.pending, r) \/ Has(out, r)
  BY <1>1, LenProperties DEF ChannelType, WaitsAt, Queued
<1> DEFINE rest == SubSeq(out, n + 3, Len(out))
           tried == SubSeq(out, 1, k)
<1> HIDE DEF x, y, out, k
<1>5. /\ rest \in Seq(HttpRequests) /\ (Once(out) => Once(rest))
      /\ \A e : Has(rest, e) <=> \E i \in (n + 3)..Len(out) : out[i] = e
  BY <1>4, ListPart
<1>6. /\ tried \in Seq(HttpRequests) /\ (Once(out) => Once(tried)) /\ Len(tried) = k
      /\ \A i \in 1..k : tried[i] = out[i]
      /\ \A e : Has(tried, e) <=> \E i \in 1..k : out[i] = e
  BY <1>4, ListPart
<1>7. /\ Once(x.pending) /\ Once(out)
      /\ \A r \in HttpRequests : ~(Has(x.pending, r) /\ Has(out, r))
  BY <1>3, <1>4 DEF OnceAt, Queued, out
<1>8. \A r : ~(Has(rest, r) /\ Has(tried, r))
  <2> SUFFICES ASSUME NEW i \in (n + 3)..Len(out), NEW j \in 1..k, out[i] = out[j] PROVE FALSE
    BY <1>5, <1>6
  <2> QED
    BY <1>4, <1>7 DEF Once, k
<1>9. \A r : (Has(rest, r) => Has(out, r)) /\ (Has(tried, r) => Has(out, r))
  BY <1>4, <1>5, <1>6 DEF Has
<1> HIDE DEF rest, tried
<1>10. y.outgoing = rest /\ y.pending = x.pending \o tried
  BY <1>2 DEF rest, tried, Tried, k
<1>11. /\ x.pending \o tried \in Seq(HttpRequests)
       /\ Len(x.pending \o tried) = Len(x.pending) + Len(tried)
       /\ \A e : Has(x.pending \o tried, e) <=> Has(x.pending, e) \/ Has(tried, e)
       /\ Once(x.pending \o tried)
  <2>1. \A e \in HttpRequests : ~(Has(x.pending, e) /\ Has(tried, e))
    BY <1>7, <1>9
  <2>2. Once(x.pending) /\ Once(tried)
    BY <1>6, <1>7
  <2>3. x.pending \in Seq(HttpRequests) /\ tried \in Seq(HttpRequests)
    BY <1>4, <1>6
  <2> QED
    BY <2>1, <2>2, <2>3, ListConcat
<1>12. OnceAt(y) /\ \A r : WaitsAt(y, r) => WaitsAt(x, r)
  BY <1>4, <1>5, <1>7, <1>8, <1>9, <1>10, <1>11 DEF OnceAt, WaitsAt
<1>13. WireAt(t, y) /\ (n = Len(out) => Len(y.wire) = Len(y.pending))
  <2> DEFINE W == Wired(s)
             sent == [i \in 1..n |-> OnWire(s, out[i])]
             p == x.pending \o tried
             m == Len(x.pending)
  <2>1. /\ x.wire \in Seq(W) /\ Len(x.wire) = m /\ m \in Nat
        /\ \A i \in 1..m : x.wire[i] = OnWire(s, x.pending[i])
    <3>1. WireAt(s, x) /\ x.pending \in Seq(HttpRequests) /\ Len(x.wire) = Len(x.pending)
      BY <1>3, <1>4
    <3> QED
      <4>1. /\ x.wire \in Seq(Wired(s))
            /\ \A i \in 1..Len(x.wire) : x.wire[i] = OnWire(s, x.pending[i])
        <5> HIDE DEF W, m, k
        <5>1. /\ x.wire \in Seq(Wired(s))
              /\ \A i \in 1..Len(x.wire) :
                   i \in 1..Len(x.pending) /\ x.wire[i] = OnWire(s, x.pending[i])
          BY <3>1, WireIsList
        <5> QED
          BY <5>1
      <4>2. W = Wired(s) /\ m = Len(x.pending)
        OBVIOUS
      <4>3. Len(x.pending) \in Nat
        BY <3>1, LenProperties
      <4> HIDE DEF W, m
      <4> QED
        BY <3>1, <4>1, <4>2, <4>3
  <2>2. \A i \in 1..n : out[i] \in HttpRequests
    BY <1>4, ElementOfSeq
  <2>3. sent \in Seq(W) /\ Len(sent) = n /\ \A i \in 1..n : sent[i] = OnWire(s, out[i])
    BY <1>4, <2>2 DEF Wired
  <2> HIDE DEF W, sent
  <2>4. /\ x.wire \o sent \in Seq(W) /\ Len(x.wire \o sent) = m + n
        /\ \A i \in 1..m : (x.wire \o sent)[i] = x.wire[i]
        /\ \A i \in 1..n : (x.wire \o sent)[i + m] = sent[i]
    <3>1. x.wire \in Seq(W) /\ sent \in Seq(W)
      BY <2>1, <2>3
    <3>2. /\ x.wire \o sent \in Seq(W) /\ Len(x.wire \o sent) = Len(x.wire) + Len(sent)
          /\ \A i \in 1..Len(x.wire) : (x.wire \o sent)[i] = x.wire[i]
          /\ \A i \in 1..Len(sent) : (x.wire \o sent)[i + Len(x.wire)] = sent[i]
      BY <3>1, ListConcat
    <3>3. Len(x.wire) = m /\ Len(sent) = n
      BY <2>1, <2>3
    <3> QED
      BY <3>2, <3>3
  <2>5. \A i \in 1..(m + k) : p[i] = IF i <= m THEN x.pending[i] ELSE tried[i - m]
    BY <1>4, <1>6, ConcatProperties
  <2>6. k >= n /\ (n = Len(out) => k = n)
    BY <1>4 DEF k
  <2> HIDE DEF m, p
  <2>7. \A i \in 1..(m + n) : (x.wire \o sent)[i] = OnWire(s, p[i])
    <3> SUFFICES ASSUME NEW i \in 1..(m + n) PROVE (x.wire \o sent)[i] = OnWire(s, p[i])
      OBVIOUS
    <3>1. i \in 1..(m + k)
      BY <1>4, <2>1, <2>6
    <3>2. CASE i <= m
      <4>1. i \in 1..m
        BY <1>4, <2>1, <3>2
      <4> QED
        BY <2>1, <2>4, <2>5, <3>1, <3>2, <4>1
    <3>3. CASE i > m
      <4>1. PICK j \in 1..n : i = j + m
        <5>1. i - m \in 1..n /\ i = (i - m) + m
          BY <1>4, <2>1, <3>3
        <5> QED
          BY <5>1
      <4>2. j \in 1..k /\ i - m = j /\ ~(i <= m)
        BY <1>4, <2>1, <2>6, <3>3, <4>1
      <4>3. p[i] = tried[j] /\ tried[j] = out[j]
        BY <1>6, <2>5, <3>1, <4>2
      <4>4. (x.wire \o sent)[i] = sent[j] /\ sent[j] = OnWire(s, out[j])
        BY <2>3, <2>4, <4>1
      <4> QED
        BY <4>3, <4>4
    <3>4. m \in Nat /\ n \in Nat
      BY <1>4, <2>1
    <3>5. i <= m \/ i > m
      BY <3>4
    <3> QED
      BY <3>2, <3>3, <3>5
  <2>8. \A r : OnWire(t, r) = OnWire(s, r)
    BY <1>2 DEF OnWire
  <2>9. x.wire \o sent = [i \in 1..(m + n) |-> OnWire(t, p[i])]
    <3>1. x.wire \o sent = [i \in 1..(m + n) |-> (x.wire \o sent)[i]]
      BY <2>4
    <3> QED
      BY <2>7, <2>8, <3>1
  <2>10. y.wire = x.wire \o sent /\ y.pending = p /\ Len(p) = m + k
    BY <1>2, <1>6, <1>10, <1>11 DEF sent, p, m, SentOn
  <2>11. m + n \in 0..Len(p)
    BY <1>4, <2>1, <2>6, <2>10
  <2> QED
    BY <2>4, <2>6, <2>9, <2>10, <2>11 DEF WireAt
<1>14. ChannelOK(y, Has(t.list, c))
  <2>1. /\ y.force_close = FALSE /\ Has(s.list, c) /\ x.notified = TRUE
        /\ y.state = IF n < Len(out) THEN "ERROR" ELSE "READY"
        /\ y.notified = IF n < Len(out) THEN FALSE ELSE TRUE
    BY <1>1, <1>2, <1>3, <1>4 DEF ChannelType, x
  <2>2. n < Len(out) \/ n = Len(out)
    BY <1>4
  <2>3. t.list = s.list /\ (n = Len(out) => Len(y.wire) = Len(y.pending))
    BY <1>2, <1>13
  <2> QED
    BY <2>1, <2>2, <2>3 DEF ChannelOK
<1>15. \A r \in HttpRequests : Waits(t, r) => Waits(s, r)
  BY <1>2, <1>12 DEF Waits, x, y
<1>16. Http(t, st)
  <2>1. \A r \in HttpRequests : Waits(t, r) => Unanswered(t.req[r])
    BY <1>2, <1>15 DEF Http, ToldOK
  <2>2. RequestsOK(t, st)
    BY <1>2 DEF Http, RequestsOK
  <2>3. \A r \in HttpRequests : SameOnWire(s.req[r], t.req[r])
    BY <1>2 DEF SameOnWire
  <2> QED
    BY <1>2, <1>12, <1>13, <1>14, <2>1, <2>2, <2>3, ChangeKeeps DEF x, y
<1>17. HttpRefs(t, rd)
  <2>1. s.ch[c].ref = Holders(s.ch[c], Has(s.list, c), rd = c)
    BY DEF HttpRefs
  <2>2. t.ch[c].ref = Holders(t.ch[c], Has(t.list, c), rd = c)
    BY <1>2, <1>3, <1>4, <2>1 DEF Holders, x, y
  <2>3. ASSUME NEW d \in HttpChannels \ {c}
        PROVE  t.ch[d].ref = Holders(t.ch[d], Has(t.list, d), rd = d)
    BY <1>2 DEF HttpRefs
  <2> QED
    BY <2>2, <2>3 DEF HttpRefs
<1> QED
  BY <1>2, <1>15, <1>16, <1>17 DEF x, y

\* The channel that is to take a request: it is in the list, and not about to be closed.
LEMMA WithChannelKeeps ==
    ASSUME NEW s, NEW st, Http(s, st), NEW rd \in HttpChannels \cup {NoChannel},
           HttpRefs(s, rd), CanSend(s),
           NEW w, w = WithChannel(s), NEW c, c = ChannelFor(s)
    PROVE  /\ Http(w, st) /\ HttpRefs(w, rd) /\ w.req = s.req
           /\ c \in HttpChannels /\ Has(w.list, c) /\ ~w.ch[c].about_to_be_closed
           /\ \A r \in HttpRequests : Waits(w, r) <=> Waits(s, r)
<1>1. /\ HttpTypeOK(s) /\ s.list \in Seq(HttpChannels)
      /\ DOMAIN s.list = 1..Len(s.list) /\ Len(s.list) \in Nat
  BY LenProperties DEF Http, HttpTypeOK
<1>2. CASE Usable(s) # {}
  <2>1. w = s /\ c = s.list[Min(Usable(s))]
    BY <1>2 DEF WithChannel, ChannelFor
  <2>2. Usable(s) \subseteq Nat
    BY <1>1 DEF Usable
  <2>3. Min(Usable(s)) \in Usable(s)
    BY <1>2, <2>2, MinIsLeast
  <2>4. PICK i \in 1..Len(s.list) : c = s.list[i] /\ ~s.ch[s.list[i]].about_to_be_closed
    BY <1>1, <2>1, <2>3 DEF Usable
  <2>5. c \in HttpChannels
    BY <1>1, <2>4, ElementOfSeq
  <2> QED
    BY <2>1, <2>4, <2>5 DEF Has
<1>3. CASE Usable(s) = {}
  <2>1. FreeChannels(s) # {} /\ FreeChannels(s) \subseteq Nat
    BY <1>3 DEF CanSend, FreeChannels, HttpChannels
  <2>2. c \in FreeChannels(s)
    BY <1>3, <2>1, MinIsLeast DEF ChannelFor
  <2>3. c \in HttpChannels /\ s.ch[c].state = "none"
    BY <2>2 DEF FreeChannels
  <2> DEFINE u == ChannelBecomes(s, c, NewChannelOf)
             list == <<c>> \o s.list
  <2>4. NewChannelOf \in ChannelType(NewChannelOf.wire)
    BY DEF NewChannelOf, ChannelType, HttpStates
  <2>5. /\ HttpTypeOK(u) /\ u.req = s.req /\ u.list = s.list /\ u.ch[c] = NewChannelOf
        /\ \A d \in HttpChannels \ {c} : u.ch[d] = s.ch[d]
    BY <1>1, <2>3, <2>4, ChannelSet
  <2>6. w = [u EXCEPT !.list = list]
    <3>1. w = [s EXCEPT !.ch[c] = NewChannelOf, !.list = list]
      BY <1>3 DEF WithChannel
    <3> QED
      BY <1>1, <3>1 DEF HttpTypeOK, ChannelBecomes
  <2>7. /\ w.req = s.req /\ w.list = list /\ w.ch = u.ch
        /\ w = [req |-> w.req, ch |-> w.ch, list |-> w.list]
    <3> HIDE DEF u, list
    <3> QED
      BY <2>5, <2>6 DEF HttpTypeOK
  <2>8. ~Has(s.list, c) /\ s.ch[c].notified /\ s.ch[c].ref = 0 /\ s.ch[c].pending = <<>>
    BY <2>3 DEF Http, ChannelsOK, ChannelOK
  <2>9. /\ list \in Seq(HttpChannels) /\ Once(list) /\ Has(list, c)
        /\ \A d \in HttpChannels \ {c} : Has(list, d) <=> Has(s.list, d)
    <3> DEFINE one == <<c>>
    <3>1. one \in Seq(HttpChannels) /\ Once(one) /\ (\A e : Has(one, e) <=> e = c)
      BY <2>3 DEF Once, Has
    <3>2. Once(s.list) /\ s.list \in Seq(HttpChannels)
      BY DEF Http, HttpTypeOK
    <3> HIDE DEF one
    <3>3. \A e \in HttpChannels : ~(Has(one, e) /\ Has(s.list, e))
      BY <2>8, <3>1
    <3>4. one \o s.list \in Seq(HttpChannels) /\ Once(one \o s.list)
          /\ \A e : Has(one \o s.list, e) <=> Has(one, e) \/ Has(s.list, e)
      BY <3>1, <3>2, <3>3, ListConcat
    <3> QED
      BY <3>1, <3>4 DEF one
  <2> HIDE DEF u, list
  <2>10. HttpTypeOK(w)
    BY <2>5, <2>7, <2>9 DEF HttpTypeOK
  <2>11. /\ w.ch[c] = NewChannelOf
         /\ \A d \in HttpChannels \ {c} : w.ch[d] = s.ch[d] /\ (Has(w.list, d) <=> Has(s.list, d))
    BY <2>5, <2>7, <2>9
  <2>12. NewChannelOf.pending = <<>> /\ NewChannelOf.outgoing = <<>> /\ NewChannelOf.wire = <<>>
         /\ NewChannelOf.state = "INIT" /\ NewChannelOf.ref = 1 /\ NewChannelOf.notified = TRUE
         /\ NewChannelOf.force_close = FALSE /\ NewChannelOf.about_to_be_closed = FALSE
    BY DEF NewChannelOf
  <2>13. Has(w.list, c) /\ Len(<<>>) = 0
    BY <2>7, <2>9
  <2>14. ChannelOK(w.ch[c], Has(w.list, c))
    BY <2>11, <2>12, <2>13 DEF ChannelOK
  <2>15. OnceAt(w.ch[c]) /\ WireAt(w, w.ch[c])
    <3>1. Once(<<>>) /\ \A r : ~Has(<<>>, r)
      BY DEF Once, Has
    <3>2. OnceAt(w.ch[c])
      BY <2>11, <2>12, <3>1 DEF OnceAt
    <3>3. 0 \in 0..Len(<<>>) /\ <<>> = [i \in 1..0 |-> OnWire(w, <<>>[i])]
      OBVIOUS
    <3>4. WireAt(w, w.ch[c])
      BY <2>11, <2>12, <3>3 DEF WireAt
    <3> QED
      BY <3>2, <3>4
  <2>16. \A r \in HttpRequests : ~WaitsAt(w.ch[c], r) /\ ~WaitsAt(s.ch[c], r)
    BY <2>3, <2>8, <2>11, <2>12 DEF WaitsAt, Has, Queued
  <2>17. \A r \in HttpRequests : Waits(w, r) <=> Waits(s, r)
    BY <2>11, <2>16 DEF Waits
  <2>18. Http(w, st)
    <3>1. \A r \in HttpRequests : Waits(w, r) => Unanswered(w.req[r])
      BY <2>7, <2>17 DEF Http, ToldOK
    <3>2. RequestsOK(w, st)
      BY <2>7 DEF Http, RequestsOK
    <3>3. \A r \in HttpRequests : SameOnWire(s.req[r], w.req[r])
      BY <2>7 DEF SameOnWire
    <3> QED
      BY <2>3, <2>10, <2>11, <2>14, <2>15, <2>16, <3>1, <3>2, <3>3, ChangeKeeps
  <2>19. HttpRefs(w, rd)
    <3>1. rd # c
      BY <2>3, <2>8 DEF HttpRefs, Holders
    <3>2. w.ch[c].ref = Holders(w.ch[c], Has(w.list, c), rd = c)
      BY <2>11, <2>12, <2>13, <3>1 DEF Holders
    <3>3. ASSUME NEW d \in HttpChannels \ {c}
          PROVE  w.ch[d].ref = Holders(w.ch[d], Has(w.list, d), rd = d)
      BY <2>11 DEF HttpRefs, Holders
    <3> QED
      BY <3>2, <3>3 DEF HttpRefs
  <2> QED
    BY <2>3, <2>7, <2>11, <2>12, <2>13, <2>17, <2>18, <2>19
<1> QED
  BY <1>2, <1>3

\* A request and a channel change at once.
BothSet(w, r, q, c, y) ==
    [w EXCEPT !.req = [w.req EXCEPT ![r] = q], !.ch = [w.ch EXCEPT ![c] = y]]

LEMMA BothBecome ==
    ASSUME NEW w, w = [req |-> w.req, ch |-> w.ch, list |-> w.list],
           NEW r, NEW q, NEW c, NEW y
    PROVE  BothSet(w, r, q, c, y) = ChannelBecomes(RequestBecomes(w, r, q), c, y)
<1>1. PICK a, b, l : w = [req |-> a, ch |-> b, list |-> l]
  OBVIOUS
<1>2. w.req = a /\ w.ch = b
  BY <1>1
<1>3. RequestBecomes(w, r, q) = [req |-> [a EXCEPT ![r] = q], ch |-> b, list |-> l]
  BY <1>1, <1>2 DEF RequestBecomes
<1>4. ChannelBecomes(RequestBecomes(w, r, q), c, y)
        = [req |-> [a EXCEPT ![r] = q], ch |-> [b EXCEPT ![c] = y], list |-> l]
  BY <1>3 DEF ChannelBecomes
<1>5. PICK A, B : A = [a EXCEPT ![r] = q] /\ B = [b EXCEPT ![c] = y]
  OBVIOUS
<1>6. [w EXCEPT !.req = A, !.ch = B] = [req |-> A, ch |-> B, list |-> l]
  <2>1. PICK w1 : w1 = [w EXCEPT !.req = A]
    OBVIOUS
  <2>2. w1 = [req |-> A, ch |-> b, list |-> l]
    BY <1>1, <2>1
  <2>3. [w1 EXCEPT !.ch = B] = [req |-> A, ch |-> B, list |-> l]
    BY <2>2
  <2> QED
    BY <2>1, <2>3
<1> QED
  BY <1>2, <1>4, <1>5, <1>6, Zenon DEF BothSet

\* A request that is sent (send_request()).
LEMMA SentRequest ==
    ASSUME NEW a, NEW q \in RequestType(a), NEW c \in HttpChannels
    PROVE  [q EXCEPT !.channel = c, !.sent = TRUE] \in RequestType(a)
<1>1. PICK p : p = [q EXCEPT !.channel = c]
  OBVIOUS
<1>2. p \in RequestType(a)
  BY <1>1 DEF RequestType
<1>3. [p EXCEPT !.sent = TRUE] \in RequestType(a)
  BY <1>2 DEF RequestType
<1> QED
  BY <1>1, <1>3

\* A request that does not wait may change.
LEMMA RequestKeeps ==
    ASSUME NEW s, NEW st, Http(s, st), NEW rd, HttpRefs(s, rd), NEW r \in HttpRequests, ~Waits(s, r),
           NEW q, q \in RequestType(q.auth), RequestOK(q, r, st), NEW t, t = RequestBecomes(s, r, q)
    PROVE  /\ Http(t, st) /\ HttpRefs(t, rd)
           /\ t.ch = s.ch /\ t.list = s.list /\ t.req[r] = q
           /\ \A p \in HttpRequests \ {r} : t.req[p] = s.req[p]
           /\ \A p \in HttpRequests : Waits(t, p) <=> Waits(s, p)
<1>1. /\ HttpTypeOK(t) /\ t.ch = s.ch /\ t.list = s.list /\ t.req[r] = q
      /\ \A p \in HttpRequests \ {r} : t.req[p] = s.req[p]
  BY RequestSet DEF Http
<1>2. \A p \in HttpRequests : Waits(t, p) <=> Waits(s, p)
  BY <1>1 DEF Waits
<1>3. \A p \in HttpRequests : Waits(s, p) => t.req[p] = s.req[p]
  BY <1>1
<1>4. RequestsOK(t, st)
  BY <1>1 DEF Http, RequestsOK
<1>5. ToldOK(t)
  BY <1>2, <1>3 DEF Http, ToldOK
<1>6. ChannelsOK(t)
  <2>1. ASSUME NEW d \in HttpChannels PROVE WireAt(t, t.ch[d])
    <3>1. WireAt(s, s.ch[d]) /\ s.ch[d].pending \in Seq(HttpRequests)
      BY DEF Http, ChannelsOK, HttpTypeOK, ChannelType
    <3>2. \A p \in HttpRequests : Has(s.ch[d].pending, p) => SameOnWire(s.req[p], t.req[p])
      BY <1>3 DEF Waits, WaitsAt, SameOnWire
    <3> QED
      BY <1>1, <3>1, <3>2, WireSame
  <2> QED
    BY <1>1, <2>1 DEF Http, ChannelsOK
<1>7. HttpRefs(t, rd)
  BY <1>1 DEF HttpRefs
<1> QED
  BY <1>1, <1>2, <1>4, <1>5, <1>6, <1>7 DEF Http

\* A request that does not wait is sent.
LEMMA SendKeeps ==
    ASSUME NEW s, NEW st, Http(s, st), NEW rd \in HttpChannels \cup {NoChannel},
           HttpRefs(s, rd), CanSend(s), NEW r \in HttpRequests, ~Waits(s, r),
           s.req[r].answers = <<>>, s.req[r].errors = 0, NEW succeeds \in BOOLEAN,
           NEW t, t = send_request(s, r, succeeds)
    PROVE  /\ Http(t, st) /\ HttpRefs(t, rd) /\ CanSend(t)
           /\ \A p \in HttpRequests \ {r} : t.req[p] = s.req[p] /\ (Waits(t, p) => Waits(s, p))
<1> DEFINE c == ChannelFor(s)
           w == WithChannel(s)
           q == [split_request_url(s.req[r]) EXCEPT !.channel = c, !.sent = TRUE]
           u == RequestBecomes(w, r, q)
           x == w.ch[c]
           y == [x EXCEPT !.outgoing = Append(x.outgoing, r)]
           v == ChannelBecomes(u, c, y)
<1>1. /\ Http(w, st) /\ HttpRefs(w, rd) /\ w.req = s.req
      /\ c \in HttpChannels /\ Has(w.list, c) /\ ~w.ch[c].about_to_be_closed
      /\ \A p \in HttpRequests : Waits(w, p) <=> Waits(s, p)
  BY WithChannelKeeps
<1>2. w = [req |-> w.req, ch |-> w.ch, list |-> w.list] /\ HttpTypeOK(w)
  BY <1>1 DEF Http, HttpTypeOK
<1>3. t = IF v.ch[c].state # "READY" THEN v
          ELSE process_queue(v, c, IF succeeds THEN Len(v.ch[c].outgoing) ELSE 0)
  <2> DEFINE t0 == [w EXCEPT !.req[r] = q, !.ch[c].outgoing = Append(@, r)]
  <2>1. t0 = v
    <3>1. t0 = BothSet(w, r, q, c, y)
      BY DEF BothSet
    <3> HIDE DEF t0, q, y, w, c
    <3> QED
      BY <1>2, <3>1, BothBecome
  <2>2. send_request(s, r, succeeds)
          = IF t0.ch[c].state # "READY" THEN t0
            ELSE process_queue(t0, c, IF succeeds THEN Len(t0.ch[c].outgoing) ELSE 0)
    BY DEF send_request
  <2> HIDE DEF v, t0, c
  <2> QED
    BY <2>1, <2>2, Zenon
<1> DEFINE q0 == s.req[r]
<1>4. q0 \in RequestType(q0.auth) /\ RequestOK(q0, r, st) /\ q0.hosts \in Nat /\ q0.split \in BOOLEAN
  BY DEF Http, RequestsOK, HttpTypeOK, RequestType
<1> HIDE DEF w, c, q0
<1>5. /\ q \in RequestType(q.auth) /\ q.auth = q0.auth /\ q.split = TRUE /\ q.hosts = 1 /\ q.sent = TRUE
      /\ q.answers = q0.answers /\ q.errors = q0.errors
      /\ q.auth_attempt_count = q0.auth_attempt_count
  <2>1. PICK a : a = q0.auth
    OBVIOUS
  <2>2. PICK q1 : q1 = split_request_url(q0)
    OBVIOUS
  <2>3. /\ q1 \in RequestType(a) /\ q1.auth = a /\ q1.split = TRUE /\ q1.hosts = 1
        /\ q1.answers = q0.answers /\ q1.errors = q0.errors
        /\ q1.auth_attempt_count = q0.auth_attempt_count
    <3>1. CASE q0.split
      BY <1>4, <2>1, <2>2, <3>1 DEF split_request_url, RequestOK, RequestType
    <3>2. CASE ~q0.split
      <4>1. q0.hosts = 0 /\ q0 \in RequestType(a)
        BY <1>4, <2>1, <3>2 DEF RequestOK
      <4>2. q1 = [q0 EXCEPT !.split = TRUE, !.hosts = 1]
        BY <2>2, <3>2, <4>1 DEF split_request_url
      <4> QED
        BY <4>1, <4>2 DEF RequestType
    <3> QED
      BY <3>1, <3>2
  <2>4. q = [q1 EXCEPT !.channel = c, !.sent = TRUE]
    BY <2>2 DEF q0
  <2> HIDE DEF q
  <2>5. q \in RequestType(a)
    <3>1. c \in HttpChannels /\ q1 \in RequestType(a)
      BY <1>1, <2>3
    <3> QED
      BY <2>4, <3>1, SentRequest
  <2>6. /\ q.auth = a /\ q.split = q1.split /\ q.hosts = q1.hosts /\ q.sent = TRUE
        /\ q.answers = q1.answers /\ q.errors = q1.errors
        /\ q.auth_attempt_count = q1.auth_attempt_count
    BY <2>3, <2>4 DEF RequestType
  <2> QED
    BY <2>1, <2>3, <2>5, <2>6
<1> HIDE DEF q
<1>6. RequestOK(q, r, st)
  BY <1>4, <1>5 DEF RequestOK, q0
<1>7. /\ Http(u, st) /\ HttpRefs(u, rd) /\ u.ch = w.ch /\ u.list = w.list /\ u.req[r] = q
      /\ \A p \in HttpRequests \ {r} : u.req[p] = w.req[p]
      /\ \A p \in HttpRequests : Waits(u, p) <=> Waits(w, p)
  BY <1>1, <1>5, <1>6, RequestKeeps
<1> HIDE DEF u
<1>8. x \in ChannelType(x.wire) /\ x.outgoing \in Seq(HttpRequests)
  BY <1>1, <1>2 DEF HttpTypeOK, ChannelType
<1>9. /\ Append(x.outgoing, r) \in Seq(HttpRequests)
      /\ \A e : Has(Append(x.outgoing, r), e) <=> Has(x.outgoing, e) \/ e = r
      /\ Once(x.outgoing) /\ ~Has(x.outgoing, r) => Once(Append(x.outgoing, r))
  BY <1>8, ListAppend
<1>10. /\ y \in ChannelType(y.wire) /\ y.wire = x.wire /\ y.pending = x.pending
       /\ y.outgoing = Append(x.outgoing, r) /\ y.state = x.state /\ y.ref = x.ref
       /\ y.about_to_be_closed = x.about_to_be_closed /\ y.force_close = x.force_close
       /\ y.notified = x.notified
  <2> HIDE DEF x
  <2>1. PICK o : o = Append(x.outgoing, r)
    OBVIOUS
  <2> QED
    BY <1>8, <1>9, <2>1 DEF ChannelType
<1> HIDE DEF x, y
<1>11. /\ HttpTypeOK(v) /\ v.req = u.req /\ v.list = u.list /\ v.ch[c] = y
       /\ \A d \in HttpChannels \ {c} : v.ch[d] = u.ch[d]
  <2>1. HttpTypeOK(u) /\ v = ChannelBecomes(u, c, y)
    BY <1>7 DEF Http
  <2> QED
    BY <1>1, <1>10, <2>1, ChannelSet
<1> HIDE DEF v
<1>12. Queued(x) /\ ~WaitsAt(x, r) /\ ~Waits(u, r)
  <2>1. ~Waits(u, r)
    BY <1>1, <1>7
  <2>2. x = u.ch[c] /\ Has(u.list, c)
    BY <1>1, <1>7 DEF x
  <2>3. Queued(x)
    BY <1>1, <1>7, <1>8, <2>2 DEF Http, ChannelsOK, ChannelOK, Queued, ChannelType, HttpStates
  <2> QED
    BY <1>1, <2>1, <2>2, <2>3 DEF Waits
<1>13. /\ ChannelOK(x, Has(u.list, c)) /\ OnceAt(x) /\ WireAt(u, x) /\ x.pending \in Seq(HttpRequests)
       /\ x = u.ch[c]
  BY <1>1, <1>7, <1>8 DEF Http, ChannelsOK, x, ChannelType
<1>14. /\ ChannelOK(y, Has(v.list, c)) /\ OnceAt(y) /\ WireAt(v, y)
       /\ \A p \in HttpRequests : WaitsAt(y, p) <=> WaitsAt(x, p) \/ p = r
  <2>1. ChannelOK(y, Has(v.list, c))
    BY <1>10, <1>11, <1>13 DEF ChannelOK
  <2>2. WireAt(v, y)
    BY <1>10, <1>11, <1>13, WireSame DEF SameOnWire
  <2>3. Queued(y)
    BY <1>10, <1>12 DEF Queued
  <2>4. OnceAt(y) /\ \A p \in HttpRequests : WaitsAt(y, p) <=> WaitsAt(x, p) \/ p = r
    BY <1>9, <1>10, <1>12, <1>13, <2>3 DEF OnceAt, WaitsAt
  <2> QED
    BY <2>1, <2>2, <2>4
<1>15. \A p \in HttpRequests : Waits(v, p) <=> Waits(u, p) \/ p = r
  BY <1>1, <1>11, <1>13, <1>14 DEF Waits
<1>16. Http(v, st)
  <2>1. \A p \in HttpRequests : Waits(v, p) => Unanswered(v.req[p])
    BY <1>4, <1>5, <1>7, <1>11, <1>15 DEF Http, ToldOK, Unanswered, q0
  <2>2. RequestsOK(v, st)
    BY <1>7, <1>11 DEF Http, RequestsOK
  <2>3. \A p \in HttpRequests : SameOnWire(u.req[p], v.req[p])
    BY <1>11 DEF SameOnWire
  <2> QED
    BY <1>1, <1>7, <1>11, <1>12, <1>13, <1>14, <2>1, <2>2, <2>3, ChangeKeeps
<1>17. HttpRefs(v, rd)
  <2>1. x.ref = Holders(x, Has(u.list, c), rd = c)
    BY <1>1, <1>7, <1>13 DEF HttpRefs
  <2>2. y.ref = Holders(y, Has(v.list, c), rd = c)
    BY <1>10, <1>11, <2>1 DEF Holders
  <2> QED
    BY <1>7, <1>11, <2>2 DEF HttpRefs
<1>18. /\ Http(t, st) /\ HttpRefs(t, rd) /\ t.req = v.req /\ t.list = v.list
       /\ t.ch[c].about_to_be_closed = v.ch[c].about_to_be_closed
       /\ \A p \in HttpRequests : Waits(t, p) => Waits(v, p)
  <2>1. CASE v.ch[c].state # "READY"
    BY <1>3, <1>16, <1>17, <2>1
  <2>2. CASE v.ch[c].state = "READY"
    <3>1. PICK n : n = IF succeeds THEN Len(v.ch[c].outgoing) ELSE 0
      OBVIOUS
    <3>2. Len(v.ch[c].outgoing) \in Nat
      BY <1>9, <1>10, <1>11, LenProperties
    <3>3. n \in 0..Len(v.ch[c].outgoing) /\ t = process_queue(v, c, n)
      BY <1>3, <2>2, <3>1, <3>2
    <3> QED
      BY <1>1, <1>16, <1>17, <2>2, <3>3, ProcessQueueKeeps
  <2> QED
    BY <2>1, <2>2
<1>19. CanSend(t)
  <2>1. Has(t.list, c) /\ ~t.ch[c].about_to_be_closed
    BY <1>1, <1>7, <1>10, <1>11, <1>18 DEF x
  <2>2. PICK i \in 1..Len(t.list) : t.list[i] = c
    BY <2>1 DEF Has
  <2>3. DOMAIN t.list = 1..Len(t.list)
    BY <1>18, LenProperties DEF Http, HttpTypeOK
  <2>4. i \in Usable(t)
    BY <2>1, <2>2, <2>3 DEF Usable
  <2> QED
    BY <2>4 DEF CanSend
<1> QED
  BY <1>1, <1>7, <1>11, <1>15, <1>18, <1>19

\* A channel taken from the list (belle_sip_list_remove()).
LEMMA ListRemoved ==
    ASSUME NEW list \in Seq(HttpChannels), Once(list), NEW c,
           NEW rest, rest = belle_sip_list_remove(list, c)
    PROVE  /\ rest \in Seq(HttpChannels) /\ Once(rest)
           /\ \A e : Has(rest, e) <=> Has(list, e) /\ e # c
<1> DEFINE places == {i \in DOMAIN list : list[i] = c}
           n == Len(list)
<1>1. n \in Nat /\ DOMAIN list = 1..n
  BY LenProperties
<1>2. CASE places = {}
  <2>1. rest = list
    BY <1>2 DEF belle_sip_list_remove
  <2>2. ~Has(list, c)
    BY <1>1, <1>2 DEF Has
  <2> QED
    BY <2>1, <2>2
<1>3. CASE places # {}
  <2>1. places \subseteq Nat
    BY <1>1
  <2>2. Min(places) \in places
    <3> HIDE DEF places
    <3> QED
      BY <1>3, <2>1, MinIsLeast
  <2>3. PICK i : i = Min(places)
    OBVIOUS
  <2>4. i \in 1..n /\ list[i] = c
    BY <1>1, <2>2, <2>3
  <2>5. rest = RemoveAt(list, i)
    BY <1>3, <2>3 DEF belle_sip_list_remove
  <2>6. rest \in Seq(HttpChannels)
    BY <2>4, <2>5, RemoveAtProperties
  <2>7. \A j, k \in 1..Len(list) : list[j] = list[k] => j = k
    BY DEF Once
  <2> DEFINE kept == RemoveAt(list, i)
  <2>8. /\ {kept[j] : j \in DOMAIN kept} = {list[j] : j \in DOMAIN list} \ {list[i]}
        /\ \A j, k \in 1..Len(kept) : kept[j] = kept[k] => j = k
    BY <2>4, <2>7, RemoveAtElements
  <2>9. kept = rest /\ DOMAIN kept = 1..Len(kept)
    BY <2>5, <2>6, LenProperties
  <2> HIDE DEF kept
  <2>10. \A e : e \in {kept[j] : j \in DOMAIN kept} <=> Has(kept, e)
    BY <2>9 DEF Has
  <2>11. \A e : e \in {list[j] : j \in DOMAIN list} <=> Has(list, e)
    BY <1>1 DEF Has
  <2> QED
    <3>1. \A e : Has(rest, e) <=> Has(list, e) /\ e # c
      BY <2>4, <2>8, <2>9, <2>10, <2>11
    <3> QED
      BY <2>6, <2>8, <2>9, <3>1 DEF Once
<1> QED
  BY <1>2, <1>3

LEMMA ListSet ==
    ASSUME NEW s, HttpTypeOK(s), NEW list \in Seq(HttpChannels), Once(list),
           NEW t, t = [s EXCEPT !.list = list]
    PROVE  HttpTypeOK(t) /\ t.req = s.req /\ t.ch = s.ch /\ t.list = list
<1>1. s = [req |-> s.req, ch |-> s.ch, list |-> s.list]
  BY DEF HttpTypeOK
<1>2. PICK a, b, l : s = [req |-> a, ch |-> b, list |-> l]
  BY <1>1
<1>3. t = [req |-> a, ch |-> b, list |-> list] /\ a = s.req /\ b = s.ch
  BY <1>2
<1>4. t.req = s.req /\ t.ch = s.ch /\ t.list = list /\ t = [req |-> t.req, ch |-> t.ch, list |-> t.list]
  BY <1>3
<1> QED
  BY <1>4 DEF HttpTypeOK

\* What stays of a request when its channel goes, and of a channel when a reference is lost.
SameButChannel(p, q) ==
    /\ q.sent = p.sent /\ q.auth_attempt_count = p.auth_attempt_count /\ q.split = p.split
    /\ q.hosts = p.hosts /\ q.answers = p.answers /\ q.errors = p.errors /\ q.auth = p.auth

SameButRef(x, y) ==
    /\ y.state = x.state /\ y.outgoing = x.outgoing /\ y.pending = x.pending /\ y.wire = x.wire
    /\ y.about_to_be_closed = x.about_to_be_closed /\ y.force_close = x.force_close
    /\ y.notified = x.notified

Unreferenced(s, c, t) ==
    /\ HttpTypeOK(t) /\ t.list = s.list
    /\ \A d \in HttpChannels \ {c} : t.ch[d] = s.ch[d]
    /\ \A r \in HttpRequests : SameButChannel(s.req[r], t.req[r])
    /\ s.ch[c].ref > 1 =>
         t.req = s.req /\ SameButRef(s.ch[c], t.ch[c]) /\ t.ch[c].ref = s.ch[c].ref - 1
    /\ s.ch[c].ref = 1 => t.ch[c] = Gone

LEMMA ChannelUnrefEffect ==
    ASSUME NEW s, HttpTypeOK(s), NEW c \in HttpChannels, s.ch[c].ref # 0
    PROVE  Unreferenced(s, c, ChannelUnref(s, c))
<1>1. PICK t : t = ChannelUnref(s, c)
  OBVIOUS
<1>2. PICK x : x = s.ch[c]
  OBVIOUS
<1>3. PICK w : w = x.wire
  OBVIOUS
<1>4. x \in ChannelType(w) /\ x.ref \in Nat
  BY <1>2, <1>3 DEF HttpTypeOK, ChannelType
<1>5. CASE x.ref > 1
  <2>1. PICK n : n = x.ref - 1
    OBVIOUS
  <2>2. n \in Nat
    BY <1>4, <1>5, <2>1
  <2>3. PICK y : y = [x EXCEPT !.ref = n]
    OBVIOUS
  <2>4. t = [s EXCEPT !.ch = [s.ch EXCEPT ![c] = y]]
    BY <1>1, <1>2, <1>5, <2>1, <2>3 DEF ChannelUnref
  <2>5. t = ChannelBecomes(s, c, y)
    BY <2>4 DEF ChannelBecomes
  <2>6. y \in ChannelType(w) /\ SameButRef(x, y) /\ y.ref = x.ref - 1 /\ y.wire = w
    BY <1>3, <1>4, <2>1, <2>2, <2>3 DEF ChannelType, SameButRef
  <2>7. /\ HttpTypeOK(t) /\ t.req = s.req /\ t.list = s.list /\ t.ch[c] = y
        /\ \A d \in HttpChannels \ {c} : t.ch[d] = s.ch[d]
    BY <2>5, <2>6, ChannelSet
  <2>8. \A r \in HttpRequests : SameButChannel(s.req[r], t.req[r])
    BY <2>7 DEF SameButChannel
  <2>9. ~(x.ref = 1)
    BY <1>4, <1>5
  <2> QED
    BY <1>1, <1>2, <2>6, <2>7, <2>8, <2>9 DEF Unreferenced
<1>6. CASE x.ref = 1
  <2> DEFINE q(r) == IF s.req[r].channel = c THEN [s.req[r] EXCEPT !.channel = NoChannel]
                     ELSE s.req[r]
  <2>1. PICK req : req = [r \in HttpRequests |-> q(r)]
    OBVIOUS
  <2>2. PICK u : u = ChannelBecomes(s, c, Gone)
    OBVIOUS
  <2>3. Gone \in ChannelType(<<>>) /\ Gone.wire = <<>>
    <3>1. NewChannelOf \in ChannelType(<<>>)
      BY DEF NewChannelOf, ChannelType, HttpStates
    <3>2. PICK g : g = [NewChannelOf EXCEPT !.state = "destroyed"]
      OBVIOUS
    <3>3. g \in ChannelType(<<>>)
      BY <3>1, <3>2 DEF ChannelType, HttpStates
    <3>4. Gone = [g EXCEPT !.ref = 0]
      BY <3>2 DEF Gone
    <3>5. Gone \in ChannelType(<<>>)
      BY <3>3, <3>4 DEF ChannelType
    <3> QED
      BY <3>5 DEF ChannelType
  <2>4. /\ HttpTypeOK(u) /\ u.req = s.req /\ u.list = s.list /\ u.ch[c] = Gone
        /\ \A d \in HttpChannels \ {c} : u.ch[d] = s.ch[d]
    BY <2>2, <2>3, ChannelSet
  <2>5. t = [s EXCEPT !.ch = [s.ch EXCEPT ![c] = Gone], !.req = req]
    BY <1>1, <1>2, <1>6, <2>1 DEF ChannelUnref
  <2>6. t = [u EXCEPT !.req = req]
    BY <2>2, <2>5 DEF ChannelBecomes
  <2>7. /\ t.req = req /\ t.ch = u.ch /\ t.list = u.list
        /\ t = [req |-> t.req, ch |-> t.ch, list |-> t.list]
    <3>1. u = [req |-> u.req, ch |-> u.ch, list |-> u.list]
      BY <2>4 DEF HttpTypeOK
    <3>2. PICK a, b, l : u = [req |-> a, ch |-> b, list |-> l]
      BY <3>1
    <3>3. t = [req |-> req, ch |-> b, list |-> l] /\ b = u.ch /\ l = u.list
      BY <2>6, <3>2
    <3> QED
      BY <3>3
  <2>8. ASSUME NEW r \in HttpRequests
        PROVE  req[r] \in RequestType(req[r].auth) /\ SameButChannel(s.req[r], req[r])
    <3>1. PICK a : a = s.req[r].auth
      OBVIOUS
    <3>2. s.req[r] \in RequestType(a)
      BY <3>1 DEF HttpTypeOK
    <3>3. PICK p : p = [s.req[r] EXCEPT !.channel = NoChannel]
      OBVIOUS
    <3>4. p \in RequestType(a)
      BY <3>2, <3>3 DEF RequestType
    <3>5. SameButChannel(s.req[r], p)
      BY <3>2, <3>3 DEF RequestType, SameButChannel
    <3>6. req[r] = p \/ req[r] = s.req[r]
      BY <2>1, <3>3
    <3> QED
      BY <3>1, <3>2, <3>4, <3>5, <3>6 DEF SameButChannel
  <2> HIDE DEF q
  <2>9. req = [r \in HttpRequests |-> req[r]]
    BY <2>1
  <2>10. HttpTypeOK(t)
    BY <2>4, <2>7, <2>8, <2>9 DEF HttpTypeOK
  <2> QED
    BY <1>1, <1>2, <1>6, <2>4, <2>7, <2>8, <2>10 DEF Unreferenced
<1> QED
  BY <1>2, <1>4, <1>5, <1>6

\* A channel that is destroyed: nothing waits there.
LEMMA GoneIsOK ==
    /\ Gone.state = "destroyed" /\ Gone.ref = 0 /\ Gone.notified = TRUE
    /\ Gone.pending = <<>> /\ Gone.wire = <<>>
    /\ ChannelOK(Gone, FALSE) /\ OnceAt(Gone) /\ (\A r : ~WaitsAt(Gone, r)) /\ \A s : WireAt(s, Gone)
<1>1. /\ Gone.state = "destroyed" /\ Gone.ref = 0 /\ Gone.notified = TRUE
      /\ Gone.pending = <<>> /\ Gone.wire = <<>>
  BY DEF Gone, NewChannelOf
<1>2. Once(<<>>) /\ \A r : ~Has(<<>>, r)
  BY DEF Once, Has
<1>3. ASSUME NEW s PROVE WireAt(s, Gone)
  <2>1. 0 \in 0..Len(<<>>) /\ <<>> = [i \in 1..0 |-> OnWire(s, <<>>[i])]
    OBVIOUS
  <2> QED
    BY <1>1, <2>1 DEF WireAt
<1> QED
  BY <1>1, <1>2, <1>3 DEF ChannelOK, OnceAt, WaitsAt, Queued

\* What stays of a request when connections end, but for the errors it is told.
SameRequest(p, q) ==
    /\ q.sent = p.sent /\ q.auth_attempt_count = p.auth_attempt_count /\ q.split = p.split
    /\ q.hosts = p.hosts /\ q.answers = p.answers /\ q.auth = p.auth

\* At the end of a connection, requests that waited there are told errors or wait no more.
LEMMA EndKeeps ==
    ASSUME NEW s, NEW st, Http(s, st), NEW t, HttpTypeOK(t), NEW c \in HttpChannels,
           \A d \in HttpChannels \ {c} : t.ch[d] = s.ch[d] /\ (Has(t.list, d) <=> Has(s.list, d)),
           ChannelOK(t.ch[c], Has(t.list, c)), OnceAt(t.ch[c]), WireAt(t, t.ch[c]),
           \A r \in HttpRequests : WaitsAt(t.ch[c], r) => WaitsAt(s.ch[c], r),
           \A r \in HttpRequests : SameRequest(s.req[r], t.req[r]),
           \A r \in HttpRequests : t.req[r].errors = s.req[r].errors
                                     \/ (WaitsAt(s.ch[c], r) /\ ~WaitsAt(t.ch[c], r))
    PROVE  Http(t, st) /\ \A r \in HttpRequests : Waits(t, r) => Waits(s, r)
<1>1. \A r \in HttpRequests : Waits(t, r) => Waits(s, r)
  BY DEF Waits
<1>2. ASSUME NEW r \in HttpRequests, Waits(t, r) PROVE t.req[r].errors = s.req[r].errors
  <2>1. CASE WaitsAt(t.ch[c], r)
    BY <2>1
  <2>2. CASE ~WaitsAt(t.ch[c], r)
    <3>1. PICK d \in HttpChannels \ {c} : WaitsAt(s.ch[d], r)
      BY <1>2, <2>2 DEF Waits
    <3>2. ~WaitsAt(s.ch[c], r)
      BY <3>1 DEF Http, ChannelsOK
    <3> QED
      BY <3>2
  <2> QED
    BY <2>1, <2>2
<1>3. \A r \in HttpRequests : Waits(t, r) => Unanswered(t.req[r])
  BY <1>1, <1>2 DEF Http, ToldOK, Unanswered, SameRequest
<1>4. ASSUME NEW r \in HttpRequests PROVE RequestOK(t.req[r], r, st)
  <2>1. RequestOK(s.req[r], r, st) /\ SameRequest(s.req[r], t.req[r])
    BY DEF Http, RequestsOK
  <2>2. CASE t.req[r].errors = s.req[r].errors
    BY <2>1, <2>2 DEF RequestOK, SameRequest
  <2>3. CASE WaitsAt(s.ch[c], r)
    <3>1. Unanswered(s.req[r])
      BY <2>3 DEF Http, ToldOK, Waits
    <3> QED
      BY <2>1, <3>1 DEF RequestOK, SameRequest, Unanswered
  <2> QED
    BY <2>2, <2>3
<1>5. RequestsOK(t, st)
  BY <1>4 DEF RequestsOK
<1>6. \A r \in HttpRequests : SameOnWire(s.req[r], t.req[r])
  BY DEF SameOnWire, SameRequest
<1>7. Http(t, st)
  BY <1>3, <1>5, <1>6, ChangeKeeps
<1> QED
  BY <1>1, <1>7

\* The last reference to a channel goes, and the channel with it.
LEMMA GoneKeeps ==
    ASSUME NEW s, NEW st, Http(s, st), NEW rd, HttpRefs(s, rd), NEW c \in HttpChannels,
           NEW t, HttpTypeOK(t), t.ch[c] = Gone, ~Has(t.list, c), NEW after, after # c,
           after = rd \/ (rd = c /\ after \notin HttpChannels),
           \A d \in HttpChannels \ {c} : t.ch[d] = s.ch[d] /\ (Has(t.list, d) <=> Has(s.list, d)),
           \A r \in HttpRequests : SameRequest(s.req[r], t.req[r]),
           \A r \in HttpRequests : t.req[r].errors = s.req[r].errors \/ WaitsAt(s.ch[c], r)
    PROVE  Http(t, st) /\ HttpRefs(t, after) /\ \A r \in HttpRequests : Waits(t, r) => Waits(s, r)
<1>1. /\ ChannelOK(t.ch[c], Has(t.list, c)) /\ OnceAt(t.ch[c]) /\ WireAt(t, t.ch[c])
      /\ \A r : ~WaitsAt(t.ch[c], r)
  BY GoneIsOK DEF ChannelOK
<1>2. Http(t, st) /\ \A r \in HttpRequests : Waits(t, r) => Waits(s, r)
  BY <1>1, EndKeeps
<1>3. t.ch[c].ref = Holders(t.ch[c], Has(t.list, c), after = c)
  BY GoneIsOK DEF Holders
<1>4. ASSUME NEW d \in HttpChannels \ {c}
      PROVE  t.ch[d].ref = Holders(t.ch[d], Has(t.list, d), after = d)
  BY DEF HttpRefs, Holders
<1> QED
  BY <1>2, <1>3, <1>4 DEF HttpRefs

\* The state after a step, as the handler leaves it.
LEMMA BecomesKeeps ==
    ASSUME HttpOK, NEW t, Http(t, HttpSeen'), Becomes(t), UNCHANGED <<site, knows>>,
           stale' \in Nat, reading' \in HttpChannels \cup {NoChannel}, HttpRefs(t, reading')
    PROVE  HttpOK'
<1>1. Now' = t
  <2>1. t = [req |-> t.req, ch |-> t.ch, list |-> t.list]
    BY DEF Http, HttpTypeOK
  <2>2. Now' = [req |-> t.req, ch |-> t.ch, list |-> t.list]
    BY DEF Becomes, Now
  <2> QED
    BY <2>1, <2>2
<1> QED
  BY <1>1 DEF HttpOK

LEMMA BecomesSame ==
    ASSUME HttpOK, NEW t, Http(t, HttpSeen), HttpRefs(t, reading), Becomes(t),
           UNCHANGED <<site, stale, knows, reading>>
    PROVE  HttpOK'
<1>1. HttpSeen' = HttpSeen
  BY DEF HttpSeen, Willing
<1>2. stale' \in Nat /\ reading' \in HttpChannels \cup {NoChannel} /\ reading' = reading
  BY DEF HttpOK
<1> QED
  BY <1>1, <1>2, BecomesKeeps

\* A channel in another state, with or without its notice (channel_set_state()).
LEMMA ChannelState ==
    ASSUME NEW s, HttpTypeOK(s), NEW c \in HttpChannels, NEW state \in HttpStates, NEW y,
           y = [s.ch[c] EXCEPT !.state = state]
    PROVE  /\ y \in ChannelType(y.wire) /\ y.state = state
           /\ y.outgoing = s.ch[c].outgoing /\ y.pending = s.ch[c].pending
           /\ y.wire = s.ch[c].wire /\ y.ref = s.ch[c].ref /\ y.notified = s.ch[c].notified
           /\ y.about_to_be_closed = s.ch[c].about_to_be_closed
           /\ y.force_close = s.ch[c].force_close
<1>1. PICK x : x = s.ch[c]
  OBVIOUS
<1>2. PICK w : w = x.wire
  OBVIOUS
<1>3. x \in ChannelType(w)
  BY <1>1, <1>2 DEF HttpTypeOK
<1>4. y \in ChannelType(w)
  BY <1>1, <1>3 DEF ChannelType
<1>5. /\ y.state = state /\ y.outgoing = x.outgoing /\ y.pending = x.pending
      /\ y.wire = x.wire /\ y.ref = x.ref /\ y.notified = x.notified
      /\ y.about_to_be_closed = x.about_to_be_closed /\ y.force_close = x.force_close
  BY <1>1, <1>3 DEF ChannelType
<1> QED
  BY <1>1, <1>2, <1>4, <1>5

\* The connection is there, and the queue goes out.
LEMMA HttpConnectedKeeps ==
    ASSUME HttpOK, NEW c \in HttpChannels, HttpConnected(c)
    PROVE  HttpOK'
<1>1. PICK n \in 0..Len(hchan[c].outgoing) :
        Becomes(process_queue([Now EXCEPT !.ch[c].state = "READY"], c, n))
  BY DEF HttpConnected
<1>2. PICK s : s = Now
  OBVIOUS
<1>3. /\ HttpTypeOK(s) /\ s.ch = hchan /\ Http(s, HttpSeen) /\ HttpRefs(s, reading)
      /\ s.ch[c].state = "INIT"
  BY <1>2 DEF HttpOK, Http, Now, HttpConnected
<1>4. PICK y : y = [s.ch[c] EXCEPT !.state = "READY"]
  OBVIOUS
<1>5. PICK u : u = ChannelBecomes(s, c, y)
  OBVIOUS
<1>6. [Now EXCEPT !.ch[c].state = "READY"] = u
  BY <1>2, <1>4, <1>5 DEF ChannelBecomes
<1>7. /\ y \in ChannelType(y.wire) /\ y.state = "READY"
      /\ y.outgoing = s.ch[c].outgoing /\ y.pending = s.ch[c].pending
      /\ y.wire = s.ch[c].wire /\ y.ref = s.ch[c].ref /\ y.notified = s.ch[c].notified
      /\ y.about_to_be_closed = s.ch[c].about_to_be_closed
      /\ y.force_close = s.ch[c].force_close
  BY <1>3, <1>4, ChannelState DEF HttpStates
<1>8. /\ HttpTypeOK(u) /\ u.req = s.req /\ u.list = s.list /\ u.ch[c] = y
      /\ \A d \in HttpChannels \ {c} : u.ch[d] = s.ch[d]
  BY <1>3, <1>5, <1>7, ChannelSet
<1>9. /\ ChannelOK(s.ch[c], Has(s.list, c)) /\ OnceAt(s.ch[c]) /\ WireAt(s, s.ch[c])
      /\ s.ch[c].pending \in Seq(HttpRequests)
  BY <1>3 DEF Http, ChannelsOK, HttpTypeOK, ChannelType
<1>10. ChannelOK(y, Has(u.list, c)) /\ WireAt(u, y)
  <2>1. \A r \in HttpRequests : SameOnWire(s.req[r], u.req[r])
    BY <1>8 DEF SameOnWire
  <2>2. WireAt(u, y)
    BY <1>7, <1>9, <2>1, WireSame
  <2> QED
    BY <1>3, <1>7, <1>8, <1>9, <2>2 DEF ChannelOK
<1>11. OnceAt(y) /\ \A r : WaitsAt(y, r) <=> WaitsAt(s.ch[c], r)
  BY <1>3, <1>7, <1>9 DEF OnceAt, WaitsAt, Queued
<1>12. Http(u, HttpSeen)
  <2>1. \A r \in HttpRequests : SameRequest(s.req[r], u.req[r]) /\ u.req[r].errors = s.req[r].errors
    BY <1>8 DEF SameRequest
  <2> QED
    BY <1>3, <1>8, <1>10, <1>11, <2>1, EndKeeps
<1>13. HttpRefs(u, reading)
  BY <1>3, <1>7, <1>8 DEF HttpRefs, Holders
<1>14. n \in 0..Len(u.ch[c].outgoing) /\ u.ch[c].state = "READY"
  BY <1>3, <1>7, <1>8
<1>15. PICK t : t = process_queue(u, c, n)
  OBVIOUS
<1>16. Http(t, HttpSeen) /\ HttpRefs(t, reading)
  BY <1>12, <1>13, <1>14, <1>15, ProcessQueueKeeps
<1> QED
  BY <1>1, <1>6, <1>15, <1>16, BecomesSame DEF HttpConnected

\* The connection fails.
LEMMA HttpFailedKeeps ==
    ASSUME HttpOK, NEW c \in HttpChannels, HttpFailed(c)
    PROVE  HttpOK'
<1>1. PICK s : s = Now
  OBVIOUS
<1>2. /\ HttpTypeOK(s) /\ Http(s, HttpSeen) /\ HttpRefs(s, reading)
      /\ s.ch[c].state \in {"INIT", "READY"}
  BY <1>1 DEF HttpOK, Http, Now, HttpFailed
<1>3. PICK x : x = s.ch[c]
  OBVIOUS
<1>4. PICK y : y = Failing(x)
  OBVIOUS
<1>5. PICK t : t = ChannelBecomes(s, c, y)
  OBVIOUS
<1>6. Becomes(t)
  BY <1>1, <1>3, <1>4, <1>5, SetErrorEffect DEF HttpFailed
<1>7. x \in ChannelType(x.wire)
  BY <1>2, <1>3 DEF HttpTypeOK
<1>8. /\ y \in ChannelType(y.wire) /\ y.wire = x.wire
      /\ y.outgoing = x.outgoing /\ y.pending = x.pending
      /\ y.force_close = x.force_close /\ y.state = "ERROR"
      /\ y.ref = x.ref + 1 /\ y.notified = FALSE
  BY <1>4, <1>7, FailingChannel
<1>9. /\ HttpTypeOK(t) /\ t.req = s.req /\ t.list = s.list /\ t.ch[c] = y
      /\ \A d \in HttpChannels \ {c} : t.ch[d] = s.ch[d]
  BY <1>2, <1>5, <1>8, ChannelSet
<1>10. /\ ChannelOK(x, Has(s.list, c)) /\ OnceAt(x) /\ WireAt(s, x)
       /\ x.pending \in Seq(HttpRequests)
  BY <1>2, <1>3 DEF Http, ChannelsOK, HttpTypeOK, ChannelType
<1>11. Has(s.list, c) /\ x.notified /\ ~x.force_close
  BY <1>2, <1>3, <1>10 DEF ChannelOK
<1>12. ChannelOK(y, Has(t.list, c)) /\ WireAt(t, y)
  <2>1. \A r \in HttpRequests : SameOnWire(s.req[r], t.req[r])
    BY <1>9 DEF SameOnWire
  <2>2. WireAt(t, y)
    BY <1>8, <1>10, <2>1, WireSame
  <2> QED
    BY <1>8, <1>9, <1>11, <2>2 DEF ChannelOK
<1>13. OnceAt(y) /\ \A r : WaitsAt(y, r) <=> WaitsAt(x, r)
  BY <1>2, <1>3, <1>8, <1>10 DEF OnceAt, WaitsAt, Queued
<1>14. Http(t, HttpSeen)
  <2>1. \A r \in HttpRequests : SameRequest(s.req[r], t.req[r]) /\ t.req[r].errors = s.req[r].errors
    BY <1>9 DEF SameRequest
  <2> QED
    BY <1>2, <1>3, <1>9, <1>12, <1>13, <2>1, EndKeeps
<1>15. HttpRefs(t, reading)
  BY <1>2, <1>3, <1>8, <1>9, <1>11 DEF HttpRefs, Holders
<1> QED
  BY <1>6, <1>14, <1>15, BecomesSame DEF HttpFailed

\* The provider forgets a channel (provider_remove_channel()).
LEMMA RemoveEffect ==
    ASSUME NEW s, HttpTypeOK(s), NEW c \in HttpChannels, s.ch[c].ref # 0
    PROVE  \E u : /\ HttpTypeOK(u) /\ u.req = s.req /\ u.ch = s.ch
                  /\ \A e : Has(u.list, e) <=> Has(s.list, e) /\ e # c
                  /\ Unreferenced(u, c, provider_remove_channel(s, c))
<1>1. PICK rest : rest = belle_sip_list_remove(s.list, c)
  OBVIOUS
<1>2. PICK u : u = [s EXCEPT !.list = rest]
  OBVIOUS
<1>3. /\ rest \in Seq(HttpChannels) /\ Once(rest)
      /\ \A e : Has(rest, e) <=> Has(s.list, e) /\ e # c
  BY <1>1, ListRemoved DEF HttpTypeOK
<1>4. HttpTypeOK(u) /\ u.req = s.req /\ u.ch = s.ch /\ u.list = rest
  BY <1>2, <1>3, ListSet
<1>5. provider_remove_channel(s, c) = ChannelUnref(u, c)
  BY <1>1, <1>2 DEF provider_remove_channel
<1>6. Unreferenced(u, c, provider_remove_channel(s, c))
  BY <1>4, <1>5, ChannelUnrefEffect
<1> QED
  BY <1>3, <1>4, <1>6

\* Those told an error waited there (http_channel_context_handle_io_error()).
LEMMA IoErrorEffect ==
    ASSUME NEW s, HttpTypeOK(s), NEW c \in HttpChannels, Queued(s.ch[c]),
           NEW t, t = handle_io_error(s, c)
    PROVE  /\ HttpTypeOK(t) /\ t.ch = s.ch /\ t.list = s.list
           /\ \A r \in HttpRequests :
                /\ SameRequest(s.req[r], t.req[r])
                /\ t.req[r].errors = s.req[r].errors \/ WaitsAt(s.ch[c], r)
<1>1. PICK x : x = s.ch[c]
  OBVIOUS
<1>2. PICK told : told = IF x.pending = <<>> THEN x.outgoing ELSE x.pending
  OBVIOUS
<1>3. told \in Seq(HttpRequests)
  BY <1>1, <1>2 DEF HttpTypeOK, ChannelType
<1>4. \A r \in Range(told) : WaitsAt(x, r)
  <2>1. \A r \in Range(told) : Has(told, r)
    BY <1>3, LenProperties DEF Range, Has
  <2> QED
    BY <1>1, <1>2, <2>1 DEF WaitsAt
<1> DEFINE q(r) == IF r \in Range(told) THEN [s.req[r] EXCEPT !.errors = @ + 1] ELSE s.req[r]
<1>5. PICK req : req = [r \in HttpRequests |-> q(r)]
  OBVIOUS
<1>6. t = [s EXCEPT !.req = req]
  BY <1>1, <1>2, <1>5 DEF handle_io_error
<1>7. ASSUME NEW r \in HttpRequests
      PROVE  /\ req[r] \in RequestType(req[r].auth) /\ SameRequest(s.req[r], req[r])
             /\ req[r].errors = s.req[r].errors \/ WaitsAt(x, r)
  <2>1. PICK a : a = s.req[r].auth
    OBVIOUS
  <2>2. s.req[r] \in RequestType(a)
    BY <2>1 DEF HttpTypeOK
  <2>3. PICK n : n = s.req[r].errors + 1
    OBVIOUS
  <2>4. n \in Nat
    BY <2>2, <2>3 DEF RequestType
  <2>5. PICK p : p = [s.req[r] EXCEPT !.errors = n]
    OBVIOUS
  <2>6. p \in RequestType(a)
    BY <2>2, <2>4, <2>5 DEF RequestType
  <2>7. SameRequest(s.req[r], p)
    BY <2>2, <2>5 DEF RequestType, SameRequest
  <2>8. (r \in Range(told) /\ req[r] = p) \/ req[r] = s.req[r]
    BY <1>5, <2>3, <2>5
  <2> HIDE DEF q
  <2> QED
    BY <1>4, <2>1, <2>2, <2>6, <2>7, <2>8 DEF SameRequest
<1> HIDE DEF q
<1>8. t.req = req /\ t.ch = s.ch /\ t.list = s.list /\ t = [req |-> t.req, ch |-> t.ch, list |-> t.list]
  <2>1. s = [req |-> s.req, ch |-> s.ch, list |-> s.list]
    BY DEF HttpTypeOK
  <2>2. PICK a, b, l : s = [req |-> a, ch |-> b, list |-> l]
    BY <2>1
  <2>3. t = [req |-> req, ch |-> b, list |-> l] /\ b = s.ch /\ l = s.list
    BY <1>6, <2>2
  <2> QED
    BY <2>3
<1>9. req = [r \in HttpRequests |-> req[r]]
  BY <1>5
<1>10. HttpTypeOK(t)
  BY <1>7, <1>8, <1>9 DEF HttpTypeOK
<1> QED
  BY <1>1, <1>7, <1>8, <1>10

\* The site closes the connection.
LEMMA SiteClosesKeeps ==
    ASSUME HttpOK, NEW c \in HttpChannels, SiteCloses(c)
    PROVE  HttpOK'
<1>1. PICK s : s = Now
  OBVIOUS
<1>2. /\ HttpTypeOK(s) /\ Http(s, HttpSeen) /\ HttpRefs(s, reading)
      /\ s.ch[c].state = "READY" /\ reading = NoChannel
  BY <1>1 DEF HttpOK, Http, Now, SiteCloses
<1>3. ChannelOK(s.ch[c], Has(s.list, c))
  BY <1>2 DEF Http, ChannelsOK
<1>4. Has(s.list, c) /\ s.ch[c].notified /\ ~s.ch[c].force_close
  BY <1>2, <1>3 DEF ChannelOK
<1>5. c # NoChannel /\ reading # c /\ NoChannel \notin HttpChannels
  BY <1>2 DEF HttpChannels, NoChannel
<1>6. s.ch[c].ref = 1
  BY <1>2, <1>4, <1>5 DEF HttpRefs, Holders
<1>7. PICK y : y = [s.ch[c] EXCEPT !.state = "DISCONNECTED"]
  OBVIOUS
<1>8. PICK u : u = ChannelBecomes(s, c, y)
  OBVIOUS
<1>9. [Now EXCEPT !.ch[c].state = "DISCONNECTED"] = u
  BY <1>1, <1>7, <1>8 DEF ChannelBecomes
<1>10. /\ y \in ChannelType(y.wire) /\ y.state = "DISCONNECTED" /\ y.ref = 1
       /\ y.force_close = s.ch[c].force_close
  BY <1>2, <1>6, <1>7, ChannelState DEF HttpStates
<1>11. /\ HttpTypeOK(u) /\ u.req = s.req /\ u.list = s.list /\ u.ch[c] = y
       /\ \A d \in HttpChannels \ {c} : u.ch[d] = s.ch[d]
  BY <1>2, <1>8, <1>10, ChannelSet
<1>12. PICK t : t = provider_remove_channel(u, c)
  OBVIOUS
<1>13. channel_state_changed(u, c) = t
  BY <1>4, <1>10, <1>11, <1>12 DEF channel_state_changed
<1>14. PICK v : /\ HttpTypeOK(v) /\ v.req = u.req /\ v.ch = u.ch
                /\ \A e : Has(v.list, e) <=> Has(u.list, e) /\ e # c
                /\ Unreferenced(v, c, t)
  BY <1>10, <1>11, <1>12, RemoveEffect
<1>15. /\ HttpTypeOK(t) /\ t.list = v.list /\ t.ch[c] = Gone
       /\ \A d \in HttpChannels \ {c} : t.ch[d] = v.ch[d]
       /\ \A r \in HttpRequests : SameButChannel(v.req[r], t.req[r])
  BY <1>10, <1>11, <1>14 DEF Unreferenced
<1>16. \A r \in HttpRequests : SameRequest(s.req[r], t.req[r]) /\ t.req[r].errors = s.req[r].errors
  BY <1>11, <1>14, <1>15 DEF SameButChannel, SameRequest
<1>17. Http(t, HttpSeen) /\ HttpRefs(t, reading)
  BY <1>2, <1>5, <1>11, <1>14, <1>15, <1>16, GoneKeeps
<1> QED
  BY <1>9, <1>13, <1>17, BecomesSame DEF SiteCloses

\* The listeners are told of the state of a channel.
LEMMA HttpNotifyKeeps ==
    ASSUME HttpOK, NEW c \in HttpChannels, HttpNotify(c)
    PROVE  HttpOK'
<1>1. PICK s : s = Now
  OBVIOUS
<1>2. /\ HttpTypeOK(s) /\ Http(s, HttpSeen) /\ HttpRefs(s, reading)
      /\ ~s.ch[c].notified /\ reading = NoChannel
  BY <1>1 DEF HttpOK, Http, Now, HttpNotify
<1>3. PICK x : x = s.ch[c]
  OBVIOUS
<1>4. PICK w : w = x.wire
  OBVIOUS
<1>5. x \in ChannelType(w) /\ ChannelOK(x, Has(s.list, c)) /\ ~x.notified
  BY <1>2, <1>3, <1>4 DEF Http, ChannelsOK, HttpTypeOK
<1>6. \/ x.state = "ERROR" /\ Has(s.list, c) /\ ~x.force_close
      \/ x.state = "DISCONNECTED" /\ ~Has(s.list, c) /\ x.force_close
  BY <1>5 DEF ChannelOK, ChannelType, HttpStates
<1>7. c # NoChannel /\ reading # c /\ NoChannel \notin HttpChannels
  BY <1>2 DEF HttpChannels, NoChannel
<1>8. x.ref = IF Has(s.list, c) THEN 2 ELSE 1
  BY <1>2, <1>3, <1>5, <1>7 DEF HttpRefs, Holders
<1>9. PICK y : y = [x EXCEPT !.notified = TRUE]
  OBVIOUS
<1>10. /\ y \in ChannelType(y.wire) /\ y.state = x.state /\ y.ref = x.ref
       /\ y.force_close = x.force_close /\ y.pending = x.pending /\ y.outgoing = x.outgoing
  <2>1. y \in ChannelType(w)
    BY <1>5, <1>9 DEF ChannelType
  <2>2. /\ y.wire = w /\ y.state = x.state /\ y.ref = x.ref
        /\ y.force_close = x.force_close /\ y.pending = x.pending /\ y.outgoing = x.outgoing
    BY <1>5, <1>9 DEF ChannelType
  <2> QED
    BY <2>1, <2>2
<1>11. PICK u : u = ChannelBecomes(s, c, y)
  OBVIOUS
<1>12. [Now EXCEPT !.ch[c].notified = TRUE] = u
  BY <1>1, <1>3, <1>9, <1>11 DEF ChannelBecomes
<1>13. /\ HttpTypeOK(u) /\ u.req = s.req /\ u.list = s.list /\ u.ch[c] = y
       /\ \A d \in HttpChannels \ {c} : u.ch[d] = s.ch[d]
  BY <1>2, <1>10, <1>11, ChannelSet
<1>14. PICK t : t = ChannelUnref(channel_state_changed(u, c), c)
  OBVIOUS
<1>15. Becomes(t)
  BY <1>12, <1>14 DEF HttpNotify
<1>16. CASE x.state = "ERROR"
  <2>1. Has(s.list, c) /\ ~x.force_close /\ x.ref = 2 /\ Queued(x)
    BY <1>6, <1>8, <1>16 DEF Queued
  <2>2. Queued(y) /\ \A r : WaitsAt(y, r) <=> WaitsAt(x, r)
    BY <1>10, <2>1 DEF Queued, WaitsAt
  <2>3. PICK v : v = handle_io_error(u, c)
    OBVIOUS
  <2>4. /\ HttpTypeOK(v) /\ v.ch = u.ch /\ v.list = u.list
        /\ \A r \in HttpRequests :
             /\ SameRequest(u.req[r], v.req[r])
             /\ v.req[r].errors = u.req[r].errors \/ WaitsAt(y, r)
    BY <1>13, <2>2, <2>3, IoErrorEffect
  <2>5. channel_state_changed(u, c) = provider_remove_channel(v, c)
    BY <1>10, <1>13, <1>16, <2>1, <2>3, <2>4 DEF channel_state_changed
  <2>6. PICK z : z = provider_remove_channel(v, c)
    OBVIOUS
  <2>7. v.ch[c].ref = 2
    BY <1>10, <1>13, <2>1, <2>4
  <2>8. PICK vv : /\ HttpTypeOK(vv) /\ vv.req = v.req /\ vv.ch = v.ch
                  /\ \A e : Has(vv.list, e) <=> Has(v.list, e) /\ e # c
                  /\ Unreferenced(vv, c, z)
    BY <2>4, <2>6, <2>7, RemoveEffect
  <2>9. /\ HttpTypeOK(z) /\ z.list = vv.list /\ z.ch[c].ref = 1 /\ z.req = vv.req
        /\ \A d \in HttpChannels \ {c} : z.ch[d] = vv.ch[d]
    BY <2>7, <2>8 DEF Unreferenced
  <2>10. Unreferenced(z, c, t)
    BY <1>14, <2>5, <2>6, <2>9, ChannelUnrefEffect
  <2>11. /\ HttpTypeOK(t) /\ t.list = z.list /\ t.ch[c] = Gone
         /\ \A d \in HttpChannels \ {c} : t.ch[d] = z.ch[d]
         /\ \A r \in HttpRequests : SameButChannel(z.req[r], t.req[r])
    BY <2>9, <2>10 DEF Unreferenced
  <2>12. \A r \in HttpRequests :
           SameRequest(s.req[r], t.req[r])
             /\ (t.req[r].errors = s.req[r].errors \/ WaitsAt(x, r))
    BY <1>13, <2>2, <2>4, <2>8, <2>9, <2>11 DEF SameButChannel, SameRequest
  <2>13. Http(t, HttpSeen) /\ HttpRefs(t, reading)
    BY <1>2, <1>3, <1>7, <1>13, <2>4, <2>8, <2>9, <2>11, <2>12, GoneKeeps
  <2> QED
    BY <1>15, <2>13, BecomesSame DEF HttpNotify
<1>17. CASE x.state = "DISCONNECTED"
  <2>1. ~Has(s.list, c) /\ x.force_close /\ x.ref = 1
    BY <1>6, <1>8, <1>17
  <2>2. channel_state_changed(u, c) = u
    BY <1>10, <1>13, <1>17, <2>1 DEF channel_state_changed
  <2>3. u.ch[c].ref = 1
    BY <1>10, <1>13, <2>1
  <2>4. Unreferenced(u, c, t)
    BY <1>13, <1>14, <2>2, <2>3, ChannelUnrefEffect
  <2>5. /\ HttpTypeOK(t) /\ t.list = u.list /\ t.ch[c] = Gone
        /\ \A d \in HttpChannels \ {c} : t.ch[d] = u.ch[d]
        /\ \A r \in HttpRequests : SameButChannel(u.req[r], t.req[r])
    BY <2>3, <2>4 DEF Unreferenced
  <2>6. \A r \in HttpRequests : SameRequest(s.req[r], t.req[r]) /\ t.req[r].errors = s.req[r].errors
    BY <1>13, <2>5 DEF SameButChannel, SameRequest
  <2>7. Http(t, HttpSeen) /\ HttpRefs(t, reading)
    BY <1>2, <1>7, <1>13, <2>1, <2>5, <2>6, GoneKeeps
  <2> QED
    BY <1>15, <2>7, BecomesSame DEF HttpNotify
<1> QED
  BY <1>6, <1>16, <1>17

\* What the requests of a queue are sent in, one after the other.
Sends(after, s, out, succeeds) ==
    /\ after[0] = s
    /\ \A k \in 1..Len(out) : after[k] = reenqueue_request(after[k - 1], out[k], succeeds[k])
    /\ reenqueued(s, out, succeeds) = after[Len(out)]

LEMMA ReenqueuedUnfolds ==
    ASSUME NEW s, NEW out, Len(out) \in Nat, NEW succeeds
    PROVE  \E after : Sends(after, s, out, succeeds)
<1> DEFINE n == Len(out)
           Step(f, k) == IF k = 0 THEN s ELSE reenqueue_request(f[k - 1], out[k], succeeds[k])
           Upto(f, m) == f = [k \in 0..n |-> IF k <= m THEN Step(f, k) ELSE 0]
           bad == {m \in Nat : ~ \E f : Upto(f, m)}
<1> USE DEF n
<1>1. bad = {}
  <2> SUFFICES ASSUME bad # {} PROVE FALSE
    OBVIOUS
  <2>1. PICK m \in bad : \A j \in bad : m <= j
    <3> HIDE DEF bad
    <3>1. bad \subseteq Nat
      BY DEF bad
    <3> QED
      BY <3>1, MinIsLeast
  <2>2. m \in Nat /\ ~ \E f : Upto(f, m)
    BY <2>1
  <2>3. m # 0
    <3> SUFFICES ASSUME m = 0 PROVE FALSE
      OBVIOUS
    <3> DEFINE f == [k \in 0..n |-> IF k <= 0 THEN s ELSE 0]
    <3>1. \A k \in 0..n : (IF k <= 0 THEN s ELSE 0) = (IF k <= m THEN Step(f, k) ELSE 0)
      OBVIOUS
    <3>2. Upto(f, m)
      <4> HIDE DEF Step
      <4> QED
        BY <3>1
    <3> QED
      <4> HIDE DEF f, Upto
      <4> QED
        BY <2>2, <3>2
  <2>4. m - 1 \in Nat /\ m - 1 \notin bad
    <3> HIDE DEF bad
    <3> QED
      BY <2>1, <2>2, <2>3
  <2>5. PICK f : Upto(f, m - 1)
    <3> HIDE DEF Upto
    <3> QED
      BY <2>4
  <2> DEFINE g == [k \in 0..n |-> IF k <= m THEN Step(f, k) ELSE 0]
  <2>6. \A k \in 0..n : k <= m - 1 => f[k] = g[k]
    <3> HIDE DEF Step
    <3> QED
      BY <2>2, <2>4, <2>5
  <2>7. \A k \in 0..n : k <= m => Step(f, k) = Step(g, k)
    <3> SUFFICES ASSUME NEW k \in 0..n, k <= m PROVE Step(f, k) = Step(g, k)
      OBVIOUS
    <3>1. CASE k = 0
      BY <3>1
    <3>2. CASE k # 0
      <4>1. k - 1 \in 0..n /\ k - 1 <= m - 1
        BY <3>2, <2>2
      <4>2. f[k - 1] = g[k - 1]
        <5> HIDE DEF g
        <5> QED
          BY <4>1, <2>6
      <4> HIDE DEF g
      <4> QED
        BY <4>2
    <3> QED
      BY <3>1, <3>2
  <2>8. Upto(g, m)
    <3>1. g = [k \in 0..n |-> IF k <= m THEN Step(g, k) ELSE 0]
      <4>1. \A k \in 0..n : (IF k <= m THEN Step(f, k) ELSE 0) = (IF k <= m THEN Step(g, k) ELSE 0)
        <5> HIDE DEF g, Step
        <5> QED
          BY <2>7
      <4> HIDE DEF Step
      <4> QED
        BY <4>1
    <3> QED
      BY <3>1
  <2> QED
    <3> HIDE DEF g, Upto
    <3> QED
      BY <2>2, <2>8
<1>2. PICK f : Upto(f, n)
  <2> HIDE DEF Upto
  <2> QED
    BY <1>1
<1>3. \E g : g = [k \in 0..n |-> Step(g, k)]
  <2>1. \A k \in 0..n : (IF k <= n THEN Step(f, k) ELSE 0) = Step(f, k)
    OBVIOUS
  <2> HIDE DEF Step
  <2> QED
    BY <1>2, <2>1
<1> DEFINE after == CHOOSE g : g = [k \in 0..n |-> Step(g, k)]
<1>4. after = [k \in 0..n |-> Step(after, k)]
  <2> HIDE DEF Step
  <2> QED
    BY <1>3, Zenon
<1>5. reenqueued(s, out, succeeds) = after[n]
  BY Zenon DEF reenqueued
<1>6. after[0] = s /\ \A k \in 1..n : after[k] = reenqueue_request(after[k - 1], out[k], succeeds[k])
  <2> HIDE DEF after
  <2> QED
    BY <1>4
<1> QED
  <2> HIDE DEF after
  <2> QED
    BY <1>5, <1>6 DEF Sends

\* The requests of a queue are sent again (belle_sip_list_for_each2(), reenqueue_request()).
LEMMA ReenqueuedKeeps ==
    ASSUME NEW s, NEW st, Http(s, st), NEW rd \in HttpChannels \cup {NoChannel},
           HttpRefs(s, rd), NEW out \in Seq(HttpRequests), Once(out), out # <<>> => CanSend(s),
           NEW succeeds \in [1..Len(out) -> BOOLEAN],
           \A i \in 1..Len(out) :
             ~Waits(s, out[i]) /\ s.req[out[i]].answers = <<>> /\ s.req[out[i]].errors = 0
    PROVE  Http(reenqueued(s, out, succeeds), st) /\ HttpRefs(reenqueued(s, out, succeeds), rd)
<1>1. Len(out) \in Nat /\ \A i \in 1..Len(out) : out[i] \in HttpRequests
  BY LenProperties
<1>0. PICK after : Sends(after, s, out, succeeds)
  BY <1>1, ReenqueuedUnfolds, Zenon
<1>2. /\ after[0] = s
      /\ \A k \in 1..Len(out) : after[k] = reenqueue_request(after[k - 1], out[k], succeeds[k])
      /\ reenqueued(s, out, succeeds) = after[Len(out)]
  BY <1>0, Zenon DEF Sends
<1> DEFINE n == Len(out)
           Kept(k) ==
             /\ Http(after[k], st) /\ HttpRefs(after[k], rd) /\ (n > 0 => CanSend(after[k]))
             /\ \A i \in (k + 1)..n : /\ ~Waits(after[k], out[i])
                                      /\ after[k].req[out[i]].answers = <<>>
                                      /\ after[k].req[out[i]].errors = 0
           bad == {k \in 0..n : ~Kept(k)}
<1>3. Kept(0)
  <2>1. n > 0 => out # <<>>
    BY <1>1
  <2> QED
    BY <1>1, <1>2, <2>1
<1>4. ASSUME NEW k \in 1..n, Kept(k - 1) PROVE Kept(k)
  <2> DEFINE a == after[k - 1]
             b == after[k]
             r == out[k]
  <2>1. k \in Nat /\ n \in Nat /\ k \in ((k - 1) + 1)..n /\ n > 0
    BY <1>1
  <2>2. /\ Http(a, st) /\ HttpRefs(a, rd) /\ CanSend(a) /\ r \in HttpRequests
        /\ ~Waits(a, r) /\ a.req[r].answers = <<>> /\ a.req[r].errors = 0
    BY <1>1, <1>4, <2>1
  <2>3. PICK one \in BOOLEAN : b = send_request(a, r, one)
    BY <1>2 DEF reenqueue_request
  <2> HIDE DEF a, b
  <2>4. /\ Http(b, st) /\ HttpRefs(b, rd) /\ CanSend(b)
        /\ \A p \in HttpRequests \ {r} : b.req[p] = a.req[p] /\ (Waits(b, p) => Waits(a, p))
    BY <2>2, <2>3, SendKeeps
  <2>5. ASSUME NEW i \in (k + 1)..n
        PROVE  /\ ~Waits(b, out[i]) /\ b.req[out[i]].answers = <<>> /\ b.req[out[i]].errors = 0
    <3>1. i \in 1..n /\ i # k /\ i \in ((k - 1) + 1)..n
      BY <2>1
    <3>2. out[i] \in HttpRequests \ {r}
      BY <1>1, <3>1 DEF Once
    <3>3. ~Waits(a, out[i]) /\ a.req[out[i]].answers = <<>> /\ a.req[out[i]].errors = 0
      BY <1>4, <3>1 DEF a
    <3> QED
      BY <2>4, <3>2, <3>3
  <2> QED
    BY <2>4, <2>5 DEF b
<1>5. bad = {}
  <2> SUFFICES ASSUME bad # {} PROVE FALSE
    OBVIOUS
  <2>1. PICK k \in bad : \A j \in bad : k <= j
    <3>1. bad \subseteq Nat
      BY <1>1
    <3> HIDE DEF bad
    <3> QED
      BY <3>1, MinIsLeast
  <2>2. k \in 0..n /\ ~Kept(k)
    BY <2>1
  <2>3. k # 0
    <3> HIDE DEF Kept
    <3> QED
      BY <1>3, <2>2
  <2>4. k \in 1..n /\ k - 1 \in 0..n /\ k - 1 < k
    BY <1>1, <2>2, <2>3
  <2>5. k - 1 \notin bad
    <3> HIDE DEF bad
    <3> QED
      BY <2>1, <2>4
  <2> HIDE DEF Kept
  <2> QED
    BY <1>4, <2>2, <2>4, <2>5
<1>6. Kept(n)
  <2> HIDE DEF Kept
  <2> QED
    BY <1>1, <1>5
<1> QED
  BY <1>2, <1>6

\* The application sends a request.
LEMMA SendHttpRequestKeeps ==
    ASSUME HttpOK, NEW r \in HttpRequests, SendHttpRequest(r)
    PROVE  HttpOK'
<1>1. PICK s : s = Now
  OBVIOUS
<1>2. /\ Http(s, HttpSeen) /\ HttpRefs(s, reading) /\ reading \in HttpChannels \cup {NoChannel}
      /\ ~s.req[r].sent /\ CanSend(s) /\ HttpSeen.stale \in Nat
  BY <1>1 DEF HttpOK, Now, SendHttpRequest, HttpSeen
<1>3. ~Waits(s, r) /\ s.req[r].answers = <<>> /\ s.req[r].errors = 0
  BY <1>2 DEF Http, ToldOK, Unanswered, RequestsOK, RequestOK
<1>4. PICK succeeds \in BOOLEAN : Becomes(send_request(s, r, succeeds))
  BY <1>1 DEF SendHttpRequest
<1>5. PICK t : t = send_request(s, r, succeeds)
  OBVIOUS
<1>6. Http(t, HttpSeen) /\ HttpRefs(t, reading)
  BY <1>2, <1>3, <1>5, SendKeeps
<1> QED
  BY <1>4, <1>5, <1>6, BecomesSame DEF SendHttpRequest

\* The main loop lets go of a channel it has read from.
LEMMA UnrefKeeps ==
    ASSUME NEW s, NEW st, Http(s, st), NEW c \in HttpChannels, HttpRefs(s, c),
           NEW t, t = ChannelUnref(s, c)
    PROVE  Http(t, st) /\ HttpRefs(t, NoChannel)
<1>1. PICK x : x = s.ch[c]
  OBVIOUS
<1>2. HttpTypeOK(s) /\ x \in ChannelType(x.wire) /\ x.pending \in Seq(HttpRequests)
  BY <1>1 DEF Http, HttpTypeOK, ChannelType
<1>3. ChannelOK(x, Has(s.list, c)) /\ OnceAt(x) /\ WireAt(s, x)
  BY <1>1 DEF Http, ChannelsOK
<1>4. x.ref = (IF Has(s.list, c) THEN 1 ELSE 0) + (IF x.notified THEN 0 ELSE 1) + 1
  BY <1>1 DEF HttpRefs, Holders
<1>5. NoChannel # c /\ NoChannel \notin HttpChannels
  BY DEF HttpChannels, NoChannel
<1>6. Unreferenced(s, c, t)
  BY <1>1, <1>2, <1>4, ChannelUnrefEffect
<1>7. CASE Has(s.list, c) \/ ~x.notified
  <2>1. x.ref > 1
    BY <1>4, <1>7
  <2>2. PICK y : y = t.ch[c]
    OBVIOUS
  <2>3. /\ HttpTypeOK(t) /\ t.list = s.list /\ t.req = s.req /\ y.ref = x.ref - 1 /\ SameButRef(x, y)
        /\ \A d \in HttpChannels \ {c} : t.ch[d] = s.ch[d]
    BY <1>1, <1>6, <2>1, <2>2 DEF Unreferenced
  <2>4. \A r \in HttpRequests : SameRequest(s.req[r], t.req[r]) /\ SameOnWire(s.req[r], t.req[r])
    BY <2>3 DEF SameRequest, SameOnWire
  <2>5. WireAt(t, y)
    <3>1. y.pending = x.pending /\ y.wire = x.wire
      BY <2>3 DEF SameButRef
    <3> QED
      BY <1>2, <1>3, <2>4, <3>1, WireSame
  <2>6. OnceAt(y) /\ \A r : WaitsAt(y, r) <=> WaitsAt(x, r)
    BY <1>3, <2>3 DEF OnceAt, WaitsAt, Queued, SameButRef
  <2>7. ChannelOK(y, Has(t.list, c))
    BY <1>3, <2>1, <2>3 DEF ChannelOK, SameButRef
  <2>8. Http(t, st)
    BY <1>1, <2>2, <2>3, <2>4, <2>5, <2>6, <2>7, EndKeeps
  <2>9. t.ch[c].ref = Holders(t.ch[c], Has(t.list, c), NoChannel = c)
    BY <1>4, <1>5, <2>2, <2>3 DEF Holders, SameButRef
  <2>10. ASSUME NEW d \in HttpChannels \ {c}
         PROVE  t.ch[d].ref = Holders(t.ch[d], Has(t.list, d), NoChannel = d)
    BY <1>5, <2>3 DEF HttpRefs, Holders
  <2> QED
    BY <2>8, <2>9, <2>10 DEF HttpRefs
<1>8. CASE ~Has(s.list, c) /\ x.notified
  <2>1. x.ref = 1
    BY <1>4, <1>8
  <2>2. /\ HttpTypeOK(t) /\ t.list = s.list /\ t.ch[c] = Gone
        /\ \A d \in HttpChannels \ {c} : t.ch[d] = s.ch[d]
        /\ \A r \in HttpRequests : SameButChannel(s.req[r], t.req[r])
    BY <1>1, <1>6, <2>1 DEF Unreferenced
  <2>3. \A r \in HttpRequests : SameRequest(s.req[r], t.req[r]) /\ t.req[r].errors = s.req[r].errors
    BY <2>2 DEF SameButChannel, SameRequest
  <2> QED
    BY <1>5, <1>8, <2>2, <2>3, GoneKeeps
<1> QED
  BY <1>7, <1>8

\* A channel that is closed on purpose (belle_sip_channel_force_close()).
LEMMA ForceClosedChannel ==
    ASSUME NEW x, x \in ChannelType(x.wire), NEW y, y = ForceClosed(x)
    PROVE  /\ y \in ChannelType(y.wire) /\ y.wire = x.wire
           /\ y.state = "DISCONNECTED" /\ y.force_close = TRUE
           /\ y.ref = x.ref /\ y.pending = x.pending /\ y.notified = x.notified
           /\ y.about_to_be_closed = x.about_to_be_closed
<1>1. PICK w : w = x.wire
  OBVIOUS
<1>2. x \in ChannelType(w)
  BY <1>1
<1>3. y \in ChannelType(w)
  BY <1>2 DEF ForceClosed, ChannelType, HttpStates
<1>4. /\ y.wire = w /\ y.state = "DISCONNECTED" /\ y.force_close = TRUE
      /\ y.ref = x.ref /\ y.pending = x.pending /\ y.notified = x.notified
      /\ y.about_to_be_closed = x.about_to_be_closed
  BY <1>2 DEF ForceClosed, ChannelType
<1> QED
  BY <1>1, <1>3, <1>4

\* The application cancels a request: a channel that is in the list is closed.
LEMMA CancelHttpRequestKeeps ==
    ASSUME HttpOK, ~CancelsRemoved, NEW r \in HttpRequests, CancelHttpRequest(r)
    PROVE  HttpOK'
<1>1. PICK s : s = Now
  OBVIOUS
<1>2. /\ HttpTypeOK(s) /\ Http(s, HttpSeen) /\ HttpRefs(s, reading)
      /\ reading \in HttpChannels \cup {NoChannel} /\ HttpSeen.stale \in Nat
      /\ s.req = hreq /\ s.ch = hchan /\ s.list = tcp_channels
  BY <1>1 DEF HttpOK, Http, Now, HttpSeen
<1>3. PICK c : c = s.req[r].channel
  OBVIOUS
<1>4. c \in HttpChannels \cup {NoChannel}
  BY <1>2, <1>3 DEF HttpTypeOK, RequestType
<1>5. PICK a : a = Cancelled(s, r)
  OBVIOUS
<1>6. /\ HttpTypeOK(a) /\ a.ch = s.ch /\ a.list = s.list
      /\ \A p \in HttpRequests :
           SameRequest(s.req[p], a.req[p]) /\ a.req[p].errors = s.req[p].errors
  <2>1. PICK q : q = [s.req[r] EXCEPT !.cancelled = TRUE]
    OBVIOUS
  <2>2. PICK auth : auth = s.req[r].auth
    OBVIOUS
  <2>3. s.req[r] \in RequestType(auth)
    BY <1>2, <2>2 DEF HttpTypeOK
  <2>4. q \in RequestType(auth) /\ SameRequest(s.req[r], q) /\ q.errors = s.req[r].errors
    BY <2>1, <2>3 DEF RequestType, SameRequest
  <2>5. q.auth = auth
    BY <2>2, <2>4 DEF SameRequest
  <2>6. a = RequestBecomes(s, r, q)
    BY <1>5, <2>1 DEF Cancelled, RequestBecomes
  <2>7. /\ HttpTypeOK(a) /\ a.ch = s.ch /\ a.list = s.list /\ a.req[r] = q
        /\ \A p \in HttpRequests \ {r} : a.req[p] = s.req[p]
    BY <1>2, <2>4, <2>5, <2>6, RequestSet
  <2> QED
    BY <2>4, <2>7 DEF SameRequest
<1>7. c \in {NoChannel} \cup Range(s.list)
  BY <1>1, <1>2, <1>3 DEF CancelHttpRequest
<1>8. CASE c = NoChannel
  <2>1. Becomes(a)
    BY <1>1, <1>2, <1>3, <1>5, <1>8 DEF CancelHttpRequest
  <2>2. PICK d : d \in HttpChannels
    BY HttpAssumption DEF HttpChannels
  <2>3. Http(a, HttpSeen)
    <3>1. /\ ChannelOK(a.ch[d], Has(a.list, d)) /\ OnceAt(a.ch[d])
          /\ WireAt(s, s.ch[d]) /\ s.ch[d].pending \in Seq(HttpRequests)
      BY <1>2, <1>6, <2>2 DEF Http, ChannelsOK, HttpTypeOK, ChannelType
    <3>2. \A p \in HttpRequests : SameOnWire(s.req[p], a.req[p])
      BY <1>6 DEF SameOnWire, SameRequest
    <3>3. WireAt(a, a.ch[d])
      BY <1>6, <3>1, <3>2, WireSame
    <3> QED
      BY <1>2, <1>6, <2>2, <3>1, <3>3, EndKeeps
  <2>4. HttpRefs(a, reading)
    BY <1>2, <1>6 DEF HttpRefs
  <2> QED
    BY <2>1, <2>3, <2>4, BecomesSame DEF CancelHttpRequest
<1>9. CASE c # NoChannel
  <2>1. c \in HttpChannels /\ Has(s.list, c) /\ c # NoChannel
    <3>1. c \in Range(s.list)
      BY <1>7, <1>9
    <3>2. DOMAIN s.list = 1..Len(s.list)
      BY <1>2, LenProperties DEF HttpTypeOK
    <3> QED
      BY <1>4, <1>9, <3>1, <3>2 DEF Range, Has
  <2>2. PICK x : x = s.ch[c]
    OBVIOUS
  <2>3. PICK w : w = x.wire
    OBVIOUS
  <2>4. /\ x \in ChannelType(w) /\ ChannelOK(x, TRUE) /\ OnceAt(x) /\ WireAt(s, x)
        /\ x.pending \in Seq(HttpRequests) /\ x.outgoing \in Seq(HttpRequests) /\ x.ref \in Nat
    BY <1>2, <2>1, <2>2, <2>3 DEF Http, ChannelsOK, HttpTypeOK, ChannelType
  <2>5. x.ref = 1 + (IF x.notified THEN 0 ELSE 1) + (IF reading = c THEN 1 ELSE 0)
    BY <1>2, <2>1, <2>2 DEF HttpRefs, Holders
  <2>6. Queued(x)
    BY <2>4 DEF ChannelOK, Queued, ChannelType, HttpStates
  <2>7. PICK n : n = x.ref + 1
    OBVIOUS
  <2>8. n \in Nat /\ n > 1
    BY <2>4, <2>5, <2>7
  <2>9. PICK y : y = [x EXCEPT !.ref = n]
    OBVIOUS
  <2>10. y \in ChannelType(w) /\ y.wire = w /\ y.ref = n /\ SameButRef(x, y)
    BY <2>3, <2>4, <2>8, <2>9 DEF ChannelType, SameButRef
  <2>11. PICK kept : kept = ChannelBecomes(a, c, y)
    OBVIOUS
  <2>12. /\ HttpTypeOK(kept) /\ kept.req = a.req /\ kept.list = a.list /\ kept.ch[c] = y
         /\ \A d \in HttpChannels \ {c} : kept.ch[d] = a.ch[d]
    BY <1>6, <2>1, <2>10, <2>11, ChannelSet
  <2>13. [a EXCEPT !.ch[c].ref = @ + 1] = kept
    <3>1. a.ch[c] = x
      BY <1>6, <2>2
    <3>2. [a EXCEPT !.ch[c].ref = @ + 1]
            = [a EXCEPT !.ch = [a.ch EXCEPT ![c] = [a.ch[c] EXCEPT !.ref = a.ch[c].ref + 1]]]
      OBVIOUS
    <3> QED
      BY <2>7, <2>9, <2>11, <3>1, <3>2 DEF ChannelBecomes
  <2>14. PICK removed : removed = provider_remove_channel(kept, c)
    OBVIOUS
  <2>15. PICK v : /\ HttpTypeOK(v) /\ v.req = kept.req /\ v.ch = kept.ch
                  /\ \A e : Has(v.list, e) <=> Has(kept.list, e) /\ e # c
                  /\ Unreferenced(v, c, removed)
    BY <2>1, <2>8, <2>10, <2>12, <2>14, RemoveEffect
  <2>16. PICK z : z = removed.ch[c]
    OBVIOUS
  <2>17. /\ HttpTypeOK(removed) /\ removed.list = v.list /\ removed.req = a.req
         /\ z.ref = x.ref /\ SameButRef(x, z)
         /\ \A d \in HttpChannels \ {c} : removed.ch[d] = s.ch[d]
    BY <1>6, <2>4, <2>7, <2>8, <2>10, <2>12, <2>15, <2>16 DEF Unreferenced, SameButRef
  <2>18. PICK y2 : y2 = ForceClosed(z)
    OBVIOUS
  <2>19. z \in ChannelType(z.wire) /\ z.wire = w
    BY <2>1, <2>3, <2>16, <2>17 DEF HttpTypeOK, SameButRef
  <2>20. /\ y2 \in ChannelType(y2.wire) /\ y2.wire = w
         /\ y2.state = "DISCONNECTED" /\ y2.force_close = TRUE
         /\ y2.ref = z.ref /\ y2.pending = z.pending /\ y2.notified = z.notified
         /\ y2.about_to_be_closed = z.about_to_be_closed
    BY <2>18, <2>19, ForceClosedChannel
  <2>21. PICK closed : closed = ChannelBecomes(removed, c, y2)
    OBVIOUS
  <2>22. [removed EXCEPT !.ch[c] = ForceClosed(removed.ch[c])] = closed
    BY <2>16, <2>18, <2>21 DEF ChannelBecomes
  <2>23. /\ HttpTypeOK(closed) /\ closed.req = removed.req /\ closed.list = removed.list
         /\ closed.ch[c] = y2
         /\ \A d \in HttpChannels \ {c} : closed.ch[d] = removed.ch[d]
    BY <2>1, <2>17, <2>20, <2>21, ChannelSet
  <2>24. PICK base : base = ChannelUnref(closed, c)
    OBVIOUS
  <2>25. Unreferenced(closed, c, base)
    BY <2>1, <2>5, <2>17, <2>20, <2>23, <2>24, ChannelUnrefEffect
  <2>26. /\ HttpTypeOK(base) /\ ~Has(base.list, c)
         /\ \A d \in HttpChannels \ {c} : base.ch[d] = s.ch[d] /\ (Has(base.list, d) <=> Has(s.list, d))
         /\ \A p \in HttpRequests :
              SameRequest(s.req[p], base.req[p]) /\ base.req[p].errors = s.req[p].errors
    BY <1>6, <2>12, <2>15, <2>17, <2>23, <2>25 DEF Unreferenced, SameButChannel, SameRequest
  <2>27. /\ Http(base, HttpSeen) /\ HttpRefs(base, reading)
         /\ \A p \in HttpRequests : Waits(base, p) => Waits(s, p)
         /\ \A p \in HttpRequests : WaitsAt(base.ch[c], p) => Has(x.pending, p)
    <3>1. CASE x.ref = 1
      <4>1. x.notified /\ reading # c
        BY <2>5, <3>1
      <4>2. base.ch[c] = Gone
        BY <2>17, <2>20, <2>23, <2>25, <3>1 DEF Unreferenced
      <4> QED
        BY <1>2, <2>1, <2>26, <4>1, <4>2, GoneKeeps, GoneIsOK
    <3>2. CASE x.ref # 1
      <4>1. PICK y3 : y3 = base.ch[c]
        OBVIOUS
      <4>2. closed.ch[c].ref > 1
        BY <2>5, <2>17, <2>20, <2>23, <3>2
      <4>3. /\ y3.state = "DISCONNECTED" /\ y3.force_close = TRUE /\ y3.pending = x.pending
            /\ y3.wire = x.wire /\ y3.notified = x.notified /\ y3.ref = x.ref - 1
        <5>1. SameButRef(y2, y3) /\ y3.ref = y2.ref - 1
          BY <2>23, <2>25, <4>1, <4>2 DEF Unreferenced
        <5>2. y2.ref = x.ref /\ y2.pending = x.pending /\ y2.notified = x.notified /\ y2.wire = x.wire
          BY <2>3, <2>17, <2>20 DEF SameButRef
        <5> QED
          BY <2>20, <5>1, <5>2 DEF SameButRef
      <4>4. ChannelOK(y3, Has(base.list, c))
        BY <2>26, <4>3 DEF ChannelOK
      <4>5. OnceAt(y3) /\ \A p : WaitsAt(y3, p) <=> Has(x.pending, p)
        BY <2>4, <4>3 DEF OnceAt, WaitsAt, Queued
      <4>6. \A p : WaitsAt(y3, p) => WaitsAt(x, p)
        BY <4>5 DEF WaitsAt
      <4>7. WireAt(base, y3)
        <5>1. \A p \in HttpRequests : SameOnWire(s.req[p], base.req[p])
          BY <2>26 DEF SameOnWire, SameRequest
        <5> QED
          BY <2>4, <4>3, <5>1, WireSame
      <4>8. Http(base, HttpSeen) /\ \A p \in HttpRequests : Waits(base, p) => Waits(s, p)
        BY <1>2, <2>1, <2>2, <2>26, <4>1, <4>4, <4>5, <4>6, <4>7, EndKeeps
      <4>9. base.ch[c].ref = Holders(base.ch[c], Has(base.list, c), reading = c)
        BY <2>5, <2>26, <4>1, <4>3 DEF Holders
      <4>10. ASSUME NEW d \in HttpChannels \ {c}
             PROVE  base.ch[d].ref = Holders(base.ch[d], Has(base.list, d), reading = d)
        BY <1>2, <2>26 DEF HttpRefs, Holders
      <4> QED
        BY <4>1, <4>5, <4>8, <4>9, <4>10 DEF HttpRefs
    <3> QED
      BY <3>1, <3>2
  <2>28. PICK out : out = x.outgoing
    OBVIOUS
  <2>29. out \in Seq(HttpRequests) /\ Once(out) /\ \A i \in 1..Len(out) : out[i] \in HttpRequests
    BY <2>4, <2>6, <2>28, ElementOfSeq DEF OnceAt
  <2>30. ASSUME NEW i \in 1..Len(out)
         PROVE  /\ ~Waits(base, out[i])
                /\ base.req[out[i]].answers = <<>> /\ base.req[out[i]].errors = 0
    <3>1. PICK p \in HttpRequests : p = out[i]
      BY <2>29
    <3>2. Has(x.outgoing, p) /\ WaitsAt(x, p)
      BY <2>6, <2>28, <3>1 DEF Has, WaitsAt
    <3>3. ~Has(x.pending, p)
      BY <2>4, <2>6, <3>2 DEF OnceAt
    <3>4. ~WaitsAt(base.ch[c], p)
      BY <2>27, <3>3
    <3>5. \A d \in HttpChannels \ {c} : ~WaitsAt(base.ch[d], p)
      BY <1>2, <2>1, <2>2, <2>26, <3>2 DEF Http, ChannelsOK
    <3>6. ~Waits(base, p)
      BY <3>4, <3>5 DEF Waits
    <3>7. Unanswered(s.req[p])
      BY <1>2, <2>1, <2>2, <3>2 DEF Http, ToldOK, Waits
    <3>8. base.req[p].answers = <<>> /\ base.req[p].errors = 0
      BY <2>26, <3>7 DEF Unanswered, SameRequest
    <3> QED
      BY <3>1, <3>6, <3>8
  <2>31. (out # <<>> => CanSend(closed))
         /\ \E succeeds \in [DOMAIN out -> BOOLEAN] : Becomes(reenqueued(base, out, succeeds))
    <3>1. hreq[r].channel = c /\ hchan[c].outgoing = out
      BY <1>2, <1>3, <2>2, <2>28
    <3>2. Cancelled(Now, r) = a
      BY <1>1, <1>5
    <3>3. c # NoChannel
      BY <1>9
    <3> QED
      BY <2>13, <2>14, <2>22, <2>24, <3>1, <3>2, <3>3 DEF CancelHttpRequest
  <2>32. CanSend(closed) => CanSend(base)
    <3>1. base.list = closed.list
      BY <2>25 DEF Unreferenced
    <3>2. DOMAIN base.list = 1..Len(base.list)
      BY <2>26, LenProperties DEF HttpTypeOK
    <3>3. \A i \in DOMAIN base.list : base.list[i] \in HttpChannels \ {c}
      <4>1. \A i \in 1..Len(base.list) : base.list[i] \in HttpChannels
        BY <2>26, ElementOfSeq DEF HttpTypeOK
      <4> QED
        BY <2>26, <3>2, <4>1 DEF Has
    <3>4. \A d \in HttpChannels \ {c} : base.ch[d] = closed.ch[d]
      BY <2>25 DEF Unreferenced
    <3>5. Usable(closed) = Usable(base)
      BY <3>1, <3>3, <3>4 DEF Usable
    <3>6. FreeChannels(closed) \subseteq FreeChannels(base)
      BY <2>20, <2>23, <3>4 DEF FreeChannels
    <3> QED
      BY <3>5, <3>6 DEF CanSend
  <2>33. PICK succeeds \in [1..Len(out) -> BOOLEAN] : Becomes(reenqueued(base, out, succeeds))
    <3>1. DOMAIN out = 1..Len(out)
      BY <2>29, LenProperties
    <3> QED
      BY <2>31, <3>1
  <2>34. PICK t : t = reenqueued(base, out, succeeds)
    OBVIOUS
  <2>35. Http(t, HttpSeen) /\ HttpRefs(t, reading)
    BY <1>2, <2>27, <2>29, <2>30, <2>31, <2>32, <2>34, ReenqueuedKeeps
  <2> QED
    BY <2>33, <2>34, <2>35, BecomesSame DEF CancelHttpRequest
<1> QED
  BY <1>4, <1>8, <1>9

\* A state stays good when the site calls another nonce stale.
LEMMA SeenGrows ==
    ASSUME NEW s, NEW st, Http(s, st), NEW su,
           st.stale \in Nat, su.stale \in Nat, st.stale <= su.stale, st.willing = su.willing
    PROVE  Http(s, su)
<1>1. ASSUME NEW p \in HttpRequests PROVE RequestOK(s.req[p], p, su)
  <2>1. RequestOK(s.req[p], p, st) /\ s.req[p].auth_attempt_count \in Nat
    BY DEF Http, RequestsOK, HttpTypeOK, RequestType
  <2> QED
    BY <2>1 DEF RequestOK
<1> QED
  BY <1>1 DEF Http, RequestsOK

\* The credentials for a challenge have its nonce (belle_sip_auth_helper_clone_authorization()).
LEMMA CredentialNonce ==
    ASSUME NEW challenge, NEW r, NEW ha1
    PROVE  /\ Credential(challenge, r).nonce = challenge.nonce
           /\ fill_authorization(Credential(challenge, r), Method, ha1).nonce = challenge.nonce
<1>1. PICK a : a = Credential(challenge, r)
  OBVIOUS
<1>2. a.nonce = challenge.nonce
  BY <1>1 DEF Credential, create_authorization
<1>3. PICK x, y : fill_authorization(a, Method, ha1) = [a EXCEPT !.cnonce = x, !.response = y]
  BY DEF fill_authorization
<1>4. DOMAIN a = {"scheme", "realm", "nonce", "qop", "nonce_count", "cnonce", "username",
                  "uri", "response"}
  BY <1>1 DEF Credential, create_authorization
<1>5. [a EXCEPT !.cnonce = x, !.response = y].nonce = a.nonce
  BY <1>4
<1> QED
  BY <1>1, <1>2, <1>3, <1>5

\* An application that has the right credentials gives those that verify.
LEMMA CredentialVerifies ==
    ASSUME knows \in Knowledge, Willing, NEW r \in HttpRequests, NEW n \in Nat \ {0},
           NEW challenge,
           challenge = [scheme |-> site.scheme, realm |-> Realm, qop |-> site.qop, nonce |-> n]
    PROVE  /\ challenge.scheme = "Digest" /\ Ha1(challenge.realm) # <<>>
           /\ CanFill(Credential(challenge, r))
           /\ Verifies(fill_authorization(Credential(challenge, r), Method, Ha1(challenge.realm)),
                       Method, HttpPaths[r], HttpUser, Password)
<1>1. PICK ha1 : ha1 = Ha1(challenge.realm)
  OBVIOUS
<1>2. ha1 = <<HttpUser, Realm, Password>> /\ ha1 # <<>>
  BY <1>1 DEF Ha1, Willing, Knowledge, compute_ha1
<1>3. PICK a : a = Credential(challenge, r)
  OBVIOUS
<1>4. PICK path : path = HttpPaths[r]
  OBVIOUS
<1>5. path # Null
  BY <1>4, HttpAssumption DEF HttpRequests
<1>6. PICK qop \in {Null, "auth"} : qop = site.qop
  BY DEF Willing
<1>7. a = [scheme |-> "Digest", realm |-> Realm, nonce |-> n, qop |-> qop, nonce_count |-> 1,
           cnonce |-> Null, username |-> HttpUser, uri |-> path, response |-> <<>>]
  BY <1>3, <1>4, <1>6 DEF Credential, create_authorization, Willing
<1>8. CanFill(a)
  BY <1>5, <1>7 DEF CanFill, Null, Realm
<1>9. PICK f : f = fill_authorization(a, Method, ha1)
  OBVIOUS
<1>10. PICK ha2 : ha2 = <<Method, path>>
  OBVIOUS
<1>11. CASE qop = Null
  <2>1. PICK y : y = <<ha1, n, ha2>>
    OBVIOUS
  <2>2. f = [a EXCEPT !.cnonce = Null, !.response = y]
    BY <1>7, <1>9, <1>10, <1>11, <2>1 DEF fill_authorization, compute_ha2, compute_response, Null
  <2>3. /\ f.response = y /\ f.username = HttpUser /\ f.uri = path /\ f.qop = Null
        /\ f.realm = Realm /\ f.nonce = n
    BY <1>7, <1>11, <2>2
  <2>4. Verifies(f, Method, path, HttpUser, Password)
    BY <1>2, <1>10, <2>1, <2>3 DEF Verifies
  <2> QED
    BY <1>1, <1>2, <1>3, <1>4, <1>8, <1>9, <2>4 DEF Willing
<1>12. CASE qop = "auth"
  <2>1. PICK y : y = <<ha1, n, 1, "client", "auth", ha2>>
    OBVIOUS
  <2>2. f = [a EXCEPT !.cnonce = "client", !.response = y]
    BY <1>7, <1>9, <1>10, <1>12, <2>1
       DEF fill_authorization, compute_ha2, compute_response_qop_auth, Null
  <2>3. /\ f.response = y /\ f.username = HttpUser /\ f.uri = path /\ f.qop = "auth"
        /\ f.realm = Realm /\ f.nonce = n /\ f.nonce_count = 1 /\ f.cnonce = "client"
    BY <1>7, <1>12, <2>2
  <2>4. Verifies(f, Method, path, HttpUser, Password)
    BY <1>2, <1>10, <2>1, <2>3 DEF Verifies, Null
  <2> QED
    BY <1>1, <1>2, <1>3, <1>4, <1>8, <1>9, <2>4 DEF Willing
<1> QED
  BY <1>6, <1>11, <1>12

\* The first of the requests that wait at a channel has its answer, and waits no more.
LEMMA AnsweredChannel ==
    ASSUME NEW s, NEW st, Http(s, st), NEW rd, HttpRefs(s, rd), NEW c \in HttpChannels,
           NEW x, x = s.ch[c], x.wire # <<>>, rd = c \/ (rd = NoChannel /\ x.state = "READY"),
           NEW y, y \in ChannelType(y.wire), y.wire = Tail(x.wire), y.pending = Tail(x.pending),
           y.outgoing = x.outgoing, y.state = x.state, y.force_close = x.force_close,
           y.notified = x.notified, y.ref = IF rd = c THEN x.ref ELSE x.ref + 1,
           NEW r, r = Head(x.pending), NEW t, t = ChannelBecomes(s, c, y)
    PROVE  /\ x.pending # <<>> /\ r \in HttpRequests /\ Head(x.wire) = OnWire(s, r)
           /\ Http(t, st) /\ HttpRefs(t, c) /\ t.req = s.req /\ t.list = s.list /\ t.ch[c] = y
           /\ \A d \in HttpChannels \ {c} : t.ch[d] = s.ch[d]
           /\ ~Waits(t, r) /\ Unanswered(t.req[r])
<1>1. /\ HttpTypeOK(s) /\ x \in ChannelType(x.wire) /\ x.pending \in Seq(HttpRequests)
      /\ x.ref \in Nat
  BY DEF Http, HttpTypeOK, ChannelType
<1>2. /\ ChannelOK(x, Has(s.list, c)) /\ OnceAt(x) /\ WireAt(s, x)
      /\ x.ref = Holders(x, Has(s.list, c), rd = c)
  BY DEF Http, ChannelsOK, HttpRefs
<1>3. PICK p, w : p = x.pending /\ w = x.wire
  OBVIOUS
<1>4. PICK W : W = Wired(s)
  OBVIOUS
<1>5. /\ w \in Seq(W) /\ Len(w) <= Len(p) /\ Len(w) \in Nat
      /\ \A i \in 1..Len(w) : i \in 1..Len(p) /\ w[i] = OnWire(s, p[i])
  BY <1>1, <1>2, <1>3, <1>4, WireIsList
<1>6. /\ Len(w) > 0 /\ Len(Tail(w)) = Len(w) - 1 /\ Head(w) = w[1] /\ Tail(w) \in Seq(W)
      /\ \A i \in 1..(Len(w) - 1) : Tail(w)[i] = w[i + 1]
  BY <1>3, <1>5, ListTail
<1>7. p \in Seq(HttpRequests) /\ p # <<>>
  <2>1. Len(p) \in Nat /\ Len(p) # 0
    BY <1>1, <1>3, <1>5, <1>6, LenProperties
  <2> QED
    BY <1>1, <1>3, <2>1
<1>8. /\ r \in HttpRequests /\ Tail(p) \in Seq(HttpRequests) /\ Len(Tail(p)) = Len(p) - 1
      /\ Len(p) > 0 /\ r = p[1] /\ Len(p) \in Nat
      /\ \A i \in 1..(Len(p) - 1) : Tail(p)[i] = p[i + 1]
      /\ \A e : Has(p, e) <=> e = r \/ Has(Tail(p), e)
      /\ Once(p) => Once(Tail(p)) /\ ~Has(Tail(p), r)
  BY <1>3, <1>7, ListTail, LenProperties
<1>9. Head(x.wire) = OnWire(s, r)
  BY <1>3, <1>5, <1>6, <1>8
<1>10. /\ HttpTypeOK(t) /\ t.req = s.req /\ t.list = s.list /\ t.ch[c] = y
       /\ \A d \in HttpChannels \ {c} : t.ch[d] = s.ch[d]
  BY <1>1, ChannelSet
<1>11. PICK P, V : P = Tail(p) /\ V = Tail(w)
  OBVIOUS
<1>12. y.pending = P /\ y.wire = V
  BY <1>3, <1>11
<1>13. WireAt(t, y)
  <2>1. \A i \in 1..(Len(w) - 1) : V[i] = OnWire(s, P[i])
    BY <1>5, <1>6, <1>8, <1>11
  <2>2. \A e : OnWire(t, e) = OnWire(s, e)
    BY <1>10 DEF OnWire
  <2>3. PICK n : n = Len(w) - 1
    OBVIOUS
  <2>4. n \in 0..Len(P)
    BY <1>5, <1>6, <1>8, <1>11, <2>3
  <2>5. V = [i \in 1..n |-> V[i]]
    <3>1. V \in Seq(W) /\ Len(V) = n
      BY <1>6, <1>11, <2>3
    <3>2. V \in [1..n -> W]
      BY <3>1, LenProperties
    <3> QED
      BY <3>2
  <2>6. V = [i \in 1..n |-> OnWire(t, P[i])]
    BY <2>1, <2>2, <2>3, <2>5
  <2> QED
    BY <1>12, <2>4, <2>6 DEF WireAt
<1>14. OnceAt(y) /\ \A e : WaitsAt(y, e) => WaitsAt(x, e)
  BY <1>2, <1>3, <1>8, <1>11, <1>12 DEF OnceAt, WaitsAt, Queued
<1>15. WaitsAt(x, r) /\ ~WaitsAt(y, r)
  BY <1>2, <1>3, <1>8, <1>11, <1>12 DEF OnceAt, WaitsAt, Queued
<1>16. ChannelOK(y, Has(t.list, c))
  <2>1. x.state \notin {"none", "destroyed"}
    BY <1>2 DEF ChannelOK, Holders
  <2>2. x.state \in {"INIT", "READY"} => Len(y.wire) = Len(y.pending)
    BY <1>2, <1>3, <1>5, <1>6, <1>8, <1>11, <1>12 DEF ChannelOK
  <2> QED
    BY <1>2, <1>10, <2>1, <2>2 DEF ChannelOK
<1>17. Http(t, st) /\ \A q \in HttpRequests : Waits(t, q) => Waits(s, q)
  <2>1. \A q \in HttpRequests : SameRequest(s.req[q], t.req[q]) /\ t.req[q].errors = s.req[q].errors
    BY <1>10 DEF SameRequest
  <2> QED
    BY <1>10, <1>13, <1>14, <1>16, <2>1, EndKeeps
<1>18. ~Waits(t, r)
  BY <1>8, <1>10, <1>15 DEF Waits, Http, ChannelsOK
<1>19. Unanswered(t.req[r])
  BY <1>8, <1>10, <1>15 DEF Waits, Http, ToldOK
<1>20. HttpRefs(t, c)
  <2>1. NoChannel # c /\ NoChannel \notin HttpChannels
    BY DEF HttpChannels, NoChannel
  <2>2. t.ch[c].ref = Holders(t.ch[c], Has(t.list, c), c = c)
    BY <1>1, <1>2, <1>10, <2>1 DEF Holders
  <2>3. ASSUME NEW d \in HttpChannels \ {c}
        PROVE  t.ch[d].ref = Holders(t.ch[d], Has(t.list, d), c = d)
    BY <1>10, <2>1 DEF HttpRefs, Holders
  <2> QED
    BY <2>2, <2>3 DEF HttpRefs
<1> QED
  BY <1>3, <1>7, <1>8, <1>9, <1>10, <1>17, <1>18, <1>19, <1>20

\* A request is told of an answer.
Told(q, answer) == [q EXCEPT !.answers = Append(q.answers, answer)]

LEMMA ToldRequest ==
    ASSUME NEW q, q \in RequestType(q.auth), q.answers = <<>>, NEW answer \in HttpAnswers,
           NEW p, p = Told(q, answer)
    PROVE  /\ p \in RequestType(p.auth) /\ p.answers = <<answer>> /\ p.auth = q.auth
           /\ p.sent = q.sent /\ p.split = q.split /\ p.hosts = q.hosts /\ p.errors = q.errors
           /\ p.auth_attempt_count = q.auth_attempt_count
<1>1. PICK auth : auth = q.auth
  OBVIOUS
<1>2. q \in RequestType(auth)
  BY <1>1
<1>3. PICK a : a = <<answer>>
  OBVIOUS
<1>4. a \in Seq(HttpAnswers)
  BY <1>3
<1>5. p = [q EXCEPT !.answers = a]
  BY <1>3 DEF Told
<1>6. p \in RequestType(auth)
  BY <1>2, <1>4, <1>5 DEF RequestType
<1>7. /\ p.answers = a /\ p.auth = auth
      /\ p.sent = q.sent /\ p.split = q.split /\ p.hosts = q.hosts /\ p.errors = q.errors
      /\ p.auth_attempt_count = q.auth_attempt_count
  BY <1>2, <1>5 DEF RequestType
<1> QED
  BY <1>1, <1>3, <1>6, <1>7

\* The answer is told when it is the request's own, and refuses it when it may.
LEMMA TellKeeps ==
    ASSUME NEW s, NEW st, Http(s, st), NEW rd, HttpRefs(s, rd), NEW r \in HttpRequests,
           ~Waits(s, r), s.req[r].sent, s.req[r].answers = <<>>, s.req[r].errors = 0,
           NEW code \in {200, 401}, code = 401 => ~st.willing \/ st.stale > 1,
           NEW answer, answer = [of |-> r, code |-> code],
           NEW t, t = RequestBecomes(s, r, Told(s.req[r], answer))
    PROVE  Http(t, st) /\ HttpRefs(t, rd)
<1>1. PICK q, p : q = s.req[r] /\ p = Told(q, answer)
  OBVIOUS
<1>2. q \in RequestType(q.auth) /\ RequestOK(q, r, st)
  BY <1>1 DEF Http, HttpTypeOK, RequestsOK
<1>3. answer \in HttpAnswers /\ answer.of = r /\ answer.code = code
  BY DEF HttpAnswers
<1>4. /\ p \in RequestType(p.auth) /\ p.answers = <<answer>> /\ p.auth = q.auth
      /\ p.sent = q.sent /\ p.split = q.split /\ p.hosts = q.hosts /\ p.errors = q.errors
      /\ p.auth_attempt_count = q.auth_attempt_count
  BY <1>1, <1>2, <1>3, ToldRequest
<1>5. Len(p.answers) = 1 /\ \A i \in 1..Len(p.answers) : p.answers[i] = answer
  BY <1>4
<1>6. RequestOK(p, r, st)
  BY <1>1, <1>2, <1>3, <1>4, <1>5 DEF RequestOK
<1> QED
  BY <1>1, <1>4, <1>6, RequestKeeps

\* What is done of a response, case by case.
Popped(s, c) == [s EXCEPT !.ch[c].pending = Tail(@)]

Closing(s, c, close) == [s EXCEPT !.ch[c].about_to_be_closed = @ \/ close]

LEMMA HandleResponseCases ==
    ASSUME NEW s, NEW c, NEW of, NEW code, NEW challenge, NEW close, NEW succeeds,
           s.ch[c].pending # <<>>, NEW r, r = Head(s.ch[c].pending),
           NEW t, t = Closing(Popped(s, c), c, close), NEW answer, answer = [of |-> of, code |-> code],
           NEW h, h = handle_response(s, c, of, code, challenge, close, succeeds)
    PROVE  /\ s.req[r].cancelled => h = Popped(s, c)
           /\ ~s.req[r].cancelled /\ code # 401 => h = RequestBecomes(t, r, Told(t.req[r], answer))
           /\ ~s.req[r].cancelled /\ code = 401 =>
                IF CanAuthenticate(s.req[r], challenge, r)
                THEN h = Resubmitted(t, r, challenge, succeeds)
                ELSE \E g : /\ g = RequestBecomes(t, r, GivenUp(t.req[r], challenge))
                            /\ h = RequestBecomes(g, r, Told(g.req[r], answer))
<1> DEFINE tell(u) == [u EXCEPT !.req[r].answers = Append(@, [of |-> of, code |-> code])]
<1>1. ASSUME NEW u PROVE tell(u) = RequestBecomes(u, r, Told(u.req[r], answer))
  BY DEF RequestBecomes, Told
<1>2. CASE s.req[r].cancelled
  <2>1. h = Popped(s, c)
    BY <1>2 DEF handle_response, Popped
  <2> QED
    BY <1>2, <2>1
<1>3. CASE ~s.req[r].cancelled /\ code # 401
  <2>1. h = tell(t)
    BY <1>3 DEF handle_response, Popped, Closing
  <2> HIDE DEF tell
  <2> QED
    BY <1>1, <1>3, <2>1
<1>4. CASE ~s.req[r].cancelled /\ code = 401
  <2>1. h = IF CanAuthenticate(s.req[r], challenge, r)
            THEN Resubmitted(t, r, challenge, succeeds)
            ELSE tell([t EXCEPT !.req[r] = GivenUp(t.req[r], challenge)])
    BY <1>4 DEF handle_response, Popped, Closing
  <2>2. PICK g : g = RequestBecomes(t, r, GivenUp(t.req[r], challenge))
    OBVIOUS
  <2>3. [t EXCEPT !.req[r] = GivenUp(t.req[r], challenge)] = g
    BY <2>2 DEF RequestBecomes
  <2> HIDE DEF tell
  <2> QED
    BY <1>1, <1>4, <2>1, <2>2, <2>3
<1> QED
  BY <1>2, <1>3, <1>4

\* A channel whose first answer is taken, and that the site may want closed.
LEMMA PoppedChannel ==
    ASSUME NEW s0, HttpTypeOK(s0), NEW c \in HttpChannels, NEW x, x \in ChannelType(x.wire),
           x.pending # <<>>, NEW s, s = ChannelBecomes(s0, c, x), NEW close \in BOOLEAN
    PROVE  \E y, z :
             /\ Popped(s, c) = ChannelBecomes(s0, c, y)
             /\ Closing(Popped(s, c), c, close) = ChannelBecomes(s0, c, z)
             /\ y \in ChannelType(y.wire) /\ y.pending = Tail(x.pending) /\ y.wire = x.wire
             /\ y.outgoing = x.outgoing /\ y.state = x.state /\ y.force_close = x.force_close
             /\ y.notified = x.notified /\ y.ref = x.ref
             /\ z \in ChannelType(z.wire) /\ z.pending = Tail(x.pending) /\ z.wire = x.wire
             /\ z.outgoing = x.outgoing /\ z.state = x.state /\ z.force_close = x.force_close
             /\ z.notified = x.notified /\ z.ref = x.ref
             /\ z.about_to_be_closed = (x.about_to_be_closed \/ close)
<1>1. PICK w : w = x.wire
  OBVIOUS
<1>2. x \in ChannelType(w) /\ x.pending \in Seq(HttpRequests)
  BY <1>1 DEF ChannelType
<1>3. PICK p : p = Tail(x.pending)
  OBVIOUS
<1>4. p \in Seq(HttpRequests)
  BY <1>2, <1>3, ListTail
<1>5. PICK y : y = [x EXCEPT !.pending = p]
  OBVIOUS
<1>6. /\ y \in ChannelType(w) /\ y.pending = p /\ y.wire = w
      /\ y.outgoing = x.outgoing /\ y.state = x.state /\ y.force_close = x.force_close
      /\ y.notified = x.notified /\ y.ref = x.ref /\ y.about_to_be_closed = x.about_to_be_closed
  BY <1>2, <1>4, <1>5 DEF ChannelType
<1>7. PICK b : b = (y.about_to_be_closed \/ close)
  OBVIOUS
<1>8. b \in BOOLEAN
  BY <1>7
<1>9. PICK z : z = [y EXCEPT !.about_to_be_closed = b]
  OBVIOUS
<1>10. /\ z \in ChannelType(w) /\ z.pending = p /\ z.wire = w
       /\ z.outgoing = x.outgoing /\ z.state = x.state /\ z.force_close = x.force_close
       /\ z.notified = x.notified /\ z.ref = x.ref /\ z.about_to_be_closed = b
  BY <1>6, <1>8, <1>9 DEF ChannelType
<1>11. PICK a, m, l : s0 = [req |-> a, ch |-> m, list |-> l] /\ m = [d \in HttpChannels |-> m[d]]
  <2>1. /\ s0 = [req |-> s0.req, ch |-> s0.ch, list |-> s0.list]
        /\ s0.ch = [d \in HttpChannels |-> s0.ch[d]]
    BY DEF HttpTypeOK
  <2> QED
    BY <2>1
<1>12. PICK m1 : m1 = [m EXCEPT ![c] = x]
  OBVIOUS
<1>13. s = [req |-> a, ch |-> m1, list |-> l] /\ m1[c] = x
  BY <1>11, <1>12 DEF ChannelBecomes
<1>14. PICK m2 : m2 = [m1 EXCEPT ![c] = y]
  OBVIOUS
<1>15. PICK s1 : s1 = Popped(s, c)
  OBVIOUS
<1>16. s1 = [req |-> a, ch |-> m2, list |-> l]
  <2>1. s.ch = m1 /\ s.ch[c] = x
    BY <1>13
  <2>2. [s.ch[c] EXCEPT !.pending = Tail(s.ch[c].pending)] = y
    BY <1>3, <1>5, <2>1
  <2>3. Popped(s, c) = [s EXCEPT !.ch = [s.ch EXCEPT ![c] =
                          [s.ch[c] EXCEPT !.pending = Tail(s.ch[c].pending)]]]
    BY DEF Popped
  <2>4. Popped(s, c) = [s EXCEPT !.ch = m2]
    BY <1>14, <2>1, <2>2, <2>3
  <2> QED
    BY <1>13, <1>15, <2>4
<1>17. m2 = [m EXCEPT ![c] = y] /\ m2[c] = y
  BY <1>11, <1>12, <1>14
<1>18. s1 = ChannelBecomes(s0, c, y)
  BY <1>11, <1>16, <1>17 DEF ChannelBecomes
<1>19. PICK m3 : m3 = [m2 EXCEPT ![c] = z]
  OBVIOUS
<1>20. Closing(s1, c, close) = [req |-> a, ch |-> m3, list |-> l]
  BY <1>7, <1>9, <1>16, <1>17, <1>19 DEF Closing
<1>21. m3 = [m EXCEPT ![c] = z]
  BY <1>11, <1>17, <1>19
<1>22. Closing(s1, c, close) = ChannelBecomes(s0, c, z)
  BY <1>11, <1>20, <1>21 DEF ChannelBecomes
<1>23. z.about_to_be_closed = (x.about_to_be_closed \/ close)
  BY <1>6, <1>7, <1>10
<1> QED
  BY <1>1, <1>3, <1>6, <1>10, <1>15, <1>18, <1>22, <1>23

\* The count of the attempts of a request that is not sent again.
LEMMA GivenUpRequest ==
    ASSUME NEW q, q \in RequestType(q.auth), NEW r, NEW st, RequestOK(q, r, st),
           TriedEnough(q) \/ ~st.willing, NEW challenge, NEW p, p = GivenUp(q, challenge)
    PROVE  /\ p \in RequestType(p.auth) /\ RequestOK(p, r, st)
           /\ p.sent = q.sent /\ p.answers = q.answers /\ p.errors = q.errors
<1>1. PICK auth : auth = q.auth
  OBVIOUS
<1>2. q \in RequestType(auth) /\ q.auth_attempt_count \in Nat
  BY <1>1 DEF RequestType
<1>3. PICK n : n = IF TriedEnough(q) THEN 0
                   ELSE IF challenge.scheme = "Digest" /\ Ha1(challenge.realm) # <<>>
                        THEN q.auth_attempt_count + 1 ELSE q.auth_attempt_count
  OBVIOUS
<1>4. n \in Nat /\ (TriedEnough(q) => n = 0)
  BY <1>2, <1>3
<1>5. p = [q EXCEPT !.auth_attempt_count = n]
  BY <1>3 DEF GivenUp
<1>6. p \in RequestType(auth)
  BY <1>2, <1>4, <1>5 DEF RequestType
<1>7. /\ p.sent = q.sent /\ p.split = q.split /\ p.hosts = q.hosts /\ p.answers = q.answers
      /\ p.errors = q.errors /\ p.auth = auth /\ p.auth_attempt_count = n
  BY <1>2, <1>5 DEF RequestType
<1>8. RequestOK(p, r, st)
  BY <1>1, <1>4, <1>7 DEF RequestOK
<1> QED
  BY <1>1, <1>6, <1>7, <1>8

\* The request is sent again, with credentials.
LEMMA ResubmittedKeeps ==
    ASSUME knows \in Knowledge, NEW s, NEW st, st.stale \in Nat, st.willing = Willing,
           Http(s, st), NEW rd \in HttpChannels \cup {NoChannel}, HttpRefs(s, rd), CanSend(s),
           NEW r \in HttpRequests, ~Waits(s, r), Unanswered(s.req[r]),
           st.willing => s.req[r].auth_attempt_count <= st.stale,
           NEW n \in Nat \ {0}, NEW challenge,
           challenge = [scheme |-> site.scheme, realm |-> Realm, qop |-> site.qop, nonce |-> n],
           NEW succeeds \in BOOLEAN, NEW t, t = Resubmitted(s, r, challenge, succeeds)
    PROVE  Http(t, st) /\ HttpRefs(t, rd)
<1>1. PICK a : a = fill_authorization(Credential(challenge, r), Method, Ha1(challenge.realm))
  OBVIOUS
<1>2. a.nonce = n
  BY <1>1, CredentialNonce
<1>3. st.willing => Verifies(a, Method, HttpPaths[r], HttpUser, Password)
  BY <1>1, CredentialVerifies
<1>4. PICK q : q = s.req[r]
  OBVIOUS
<1>5. PICK auth : auth = q.auth
  OBVIOUS
<1>6. q \in RequestType(auth) /\ RequestOK(q, r, st) /\ q.auth_attempt_count \in Nat
  BY <1>4, <1>5 DEF Http, HttpTypeOK, RequestsOK, RequestType
<1>7. PICK m : m = q.auth_attempt_count + 1
  OBVIOUS
<1>8. PICK q1 : q1 = [q EXCEPT !.auth_attempt_count = m]
  OBVIOUS
<1>9. PICK p : p = [q1 EXCEPT !.auth = a]
  OBVIOUS
<1>10. p = [q EXCEPT !.auth_attempt_count = @ + 1, !.auth = a]
  BY <1>6, <1>7, <1>8, <1>9 DEF RequestType
<1>11. m \in Nat
  BY <1>6, <1>7
<1>12. q1 \in RequestType(auth)
  BY <1>6, <1>8, <1>11 DEF RequestType
<1>13. p \in RequestType(a)
  BY <1>9, <1>12 DEF RequestType
<1>14. /\ p.sent = q.sent /\ p.split = q.split /\ p.hosts = q.hosts /\ p.answers = q.answers
       /\ p.errors = q.errors /\ p.auth = a /\ p.auth_attempt_count = m
  BY <1>6, <1>8, <1>9, <1>12 DEF RequestType
<1>15. RequestOK(p, r, st)
  <2>1. st.willing => m <= st.stale + 1
    BY <1>4, <1>6, <1>7
  <2> QED
    BY <1>2, <1>3, <1>6, <1>14, <2>1 DEF RequestOK
<1>16. PICK u : u = RequestBecomes(s, r, p)
  OBVIOUS
<1>17. /\ Http(u, st) /\ HttpRefs(u, rd) /\ u.ch = s.ch /\ u.list = s.list /\ u.req[r] = p
       /\ \A e \in HttpRequests : Waits(u, e) <=> Waits(s, e)
  BY <1>13, <1>14, <1>15, <1>16, RequestKeeps
<1>18. t = send_request(u, r, succeeds)
  <2>1. [s EXCEPT !.req[r] = p] = u
    BY <1>16 DEF RequestBecomes
  <2> QED
    BY <1>1, <1>4, <1>10, <2>1 DEF Resubmitted
<1>19. CanSend(u)
  BY <1>17 DEF CanSend, Usable, FreeChannels
<1>20. u.req[r].answers = <<>> /\ u.req[r].errors = 0 /\ ~Waits(u, r)
  BY <1>4, <1>14, <1>17 DEF Unanswered
<1> QED
  BY <1>17, <1>18, <1>19, <1>20, SendKeeps

\* The channel with what is still to come, and the reference of the main loop.
Reading(x, wire, n) == [x EXCEPT !.wire = wire, !.ref = n]

\* A channel that is being read, with an answer less to come.
LEMMA ReadChannel ==
    ASSUME NEW x, x \in ChannelType(x.wire), NEW wire, NEW n \in Nat,
           NEW y, y = Reading(x, wire, n)
    PROVE  /\ y \in ChannelType(y.wire) /\ y.wire = wire /\ y.ref = n /\ y.pending = x.pending
           /\ y.outgoing = x.outgoing /\ y.state = x.state /\ y.force_close = x.force_close
           /\ y.notified = x.notified /\ y.about_to_be_closed = x.about_to_be_closed
<1>1. PICK w : w = x.wire
  OBVIOUS
<1>2. x \in ChannelType(w)
  BY <1>1
<1>3. PICK z : z = [x EXCEPT !.wire = wire]
  OBVIOUS
<1>4. z \in ChannelType(wire)
  BY <1>2, <1>3 DEF ChannelType
<1>5. y = [z EXCEPT !.ref = n]
  BY <1>2, <1>3 DEF ChannelType, Reading
<1>6. y \in ChannelType(wire)
  BY <1>4, <1>5 DEF ChannelType
<1>7. /\ y.wire = wire /\ y.ref = n /\ y.pending = x.pending
      /\ y.outgoing = x.outgoing /\ y.state = x.state /\ y.force_close = x.force_close
      /\ y.notified = x.notified /\ y.about_to_be_closed = x.about_to_be_closed
  BY <1>2, <1>3, <1>4, <1>5 DEF ChannelType
<1> QED
  BY <1>6, <1>7

\* A response is handled.
LEMMA RespondKeeps ==
    ASSUME HttpOK, NEW c \in HttpChannels, Respond(c)
    PROVE  HttpOK'
<1>1. PICK s0 : s0 = Now
  OBVIOUS
<1>2. /\ HttpTypeOK(s0) /\ Http(s0, HttpSeen) /\ HttpRefs(s0, reading)
      /\ reading \in HttpChannels \cup {NoChannel} /\ stale \in Nat /\ knows \in Knowledge
      /\ s0.ch = hchan
  BY <1>1 DEF HttpOK, Http, Now
<1>3. PICK x0 : x0 = s0.ch[c]
  OBVIOUS
<1>4. x0 \in ChannelType(x0.wire) /\ x0.ref \in Nat
  BY <1>2, <1>3 DEF HttpTypeOK, ChannelType
<1>5. PICK wire : wire = Tail(x0.wire)
  OBVIOUS
<1>6. PICK n : n = IF reading = c THEN x0.ref ELSE x0.ref + 1
  OBVIOUS
<1>7. n \in Nat
  BY <1>4, <1>6
<1>8. PICK x : x = Reading(x0, wire, n)
  OBVIOUS
<1>9. /\ x \in ChannelType(x.wire) /\ x.wire = wire /\ x.ref = n /\ x.pending = x0.pending
      /\ x.outgoing = x0.outgoing /\ x.state = x0.state /\ x.force_close = x0.force_close
      /\ x.notified = x0.notified /\ x.about_to_be_closed = x0.about_to_be_closed
  BY <1>4, <1>7, <1>8, ReadChannel
<1>10. PICK asked : asked = Head(x0.wire)
  OBVIOUS
<1>11. PICK challenge : challenge = [scheme |-> site.scheme, realm |-> Realm, qop |-> site.qop,
                                     nonce |-> asked.auth.nonce + 1]
  OBVIOUS
<1>12. PICK s : s = ChannelBecomes(s0, c, x)
  OBVIOUS
<1>13. /\ reading = c \/ (reading = NoChannel /\ x0.state = "READY")
       /\ x0.wire # <<>>
       /\ UNCHANGED <<site, knows>>
  BY <1>2, <1>3 DEF Respond
<1>14. PICK code \in {200, 401}, close \in BOOLEAN, succeeds \in BOOLEAN, more \in BOOLEAN :
         /\ Answers(asked, code)
         /\ code = 401 => (Usable(s) # {} /\ ~ close) \/ FreeChannels(s) # {}
         /\ reading' = IF more THEN c ELSE NoChannel
         /\ Becomes(IF more THEN handle_response(s, c, asked.of, code, challenge, close, succeeds)
                    ELSE ChannelUnref(handle_response(s, c, asked.of, code, challenge, close,
                                                      succeeds), c))
  <2>1. [Now EXCEPT !.ch[c] = [hchan[c] EXCEPT !.wire = Tail(@),
                                               !.ref = IF reading = c THEN @ ELSE @ + 1]] = s
    <3>1. [hchan[c] EXCEPT !.wire = Tail(@), !.ref = IF reading = c THEN @ ELSE @ + 1] = x
      <4>1. DOMAIN x0 = {"state", "outgoing", "pending", "wire", "ref", "about_to_be_closed",
                         "force_close", "notified"}
        BY <1>4 DEF ChannelType
      <4> QED
        BY <1>2, <1>3, <1>5, <1>6, <1>8, <4>1 DEF Reading
    <3> QED
      BY <1>1, <1>12, <3>1 DEF ChannelBecomes
  <2>2. hchan[c] = x0
    BY <1>2, <1>3
  <2> QED
    BY <1>10, <1>11, <2>1, <2>2 DEF Respond
<1>15. PICK h : h = handle_response(s, c, asked.of, code, challenge, close, succeeds)
  OBVIOUS
<1>16. PICK r : r = Head(x0.pending)
  OBVIOUS
<1>17. PICK su : su = HttpSeen'
  OBVIOUS
<1>18. /\ su.willing = Willing /\ HttpSeen.willing = Willing /\ HttpSeen.stale = stale
       /\ su.stale = stale' /\ stale' \in Nat /\ stale <= stale'
  <2>1. Willing' = Willing
    BY <1>13 DEF Willing
  <2>2. stale' \in Nat /\ stale <= stale'
    BY <1>2, <1>14 DEF Answers
  <2> QED
    BY <1>17, <2>1, <2>2 DEF HttpSeen
<1>19. Http(s0, su)
  BY <1>2, <1>18, SeenGrows
<1>20. x.pending # <<>>
  <2>1. WireAt(s0, x0) /\ x0.pending \in Seq(HttpRequests)
    BY <1>2, <1>3 DEF Http, ChannelsOK, HttpTypeOK, ChannelType
  <2>2. x0.wire \in Seq(Wired(s0)) /\ Len(x0.wire) <= Len(x0.pending)
    BY <2>1, WireIsList
  <2>3. Len(x0.wire) > 0
    BY <1>13, <2>2, ListTail
  <2> QED
    BY <1>9, <2>2, <2>3
<1>21. PICK y, z :
         /\ Popped(s, c) = ChannelBecomes(s0, c, y)
         /\ Closing(Popped(s, c), c, close) = ChannelBecomes(s0, c, z)
         /\ y \in ChannelType(y.wire) /\ y.pending = Tail(x.pending) /\ y.wire = x.wire
         /\ y.outgoing = x.outgoing /\ y.state = x.state /\ y.force_close = x.force_close
         /\ y.notified = x.notified /\ y.ref = x.ref
         /\ z \in ChannelType(z.wire) /\ z.pending = Tail(x.pending) /\ z.wire = x.wire
         /\ z.outgoing = x.outgoing /\ z.state = x.state /\ z.force_close = x.force_close
         /\ z.notified = x.notified /\ z.ref = x.ref
         /\ z.about_to_be_closed = (x.about_to_be_closed \/ close)
  BY <1>2, <1>9, <1>12, <1>20, PoppedChannel
<1>22. PICK u, t : u = Popped(s, c) /\ t = Closing(Popped(s, c), c, close)
  OBVIOUS
<1>23. Http(u, su) /\ HttpRefs(u, c)
  BY <1>2, <1>3, <1>5, <1>6, <1>9, <1>13, <1>16, <1>19, <1>21, <1>22, AnsweredChannel
<1>24. /\ r \in HttpRequests /\ asked = OnWire(s0, r)
       /\ Http(t, su) /\ HttpRefs(t, c) /\ t.req = s0.req /\ t.list = s0.list /\ t.ch[c] = z
       /\ \A d \in HttpChannels \ {c} : t.ch[d] = s0.ch[d]
       /\ ~Waits(t, r) /\ Unanswered(t.req[r])
  BY <1>2, <1>3, <1>5, <1>6, <1>9, <1>10, <1>13, <1>16, <1>19, <1>21, <1>22, AnsweredChannel
<1>25. PICK q : q = s0.req[r]
  OBVIOUS
<1>26. /\ q \in RequestType(q.auth) /\ RequestOK(q, r, HttpSeen) /\ q.auth_attempt_count \in Nat
       /\ q.auth.nonce \in Nat
  BY <1>2, <1>24, <1>25 DEF Http, HttpTypeOK, RequestsOK, RequestType, RequestOK
<1>27. asked.of = r /\ asked.auth = q.auth
  BY <1>24, <1>25 DEF OnWire
<1> DEFINE answer == [of |-> r, code |-> code]
<1>28. answer = [of |-> r, code |-> code]
  OBVIOUS
<1> HIDE DEF answer
<1>29. s.req = s0.req /\ s.ch[c] = x /\ s.list = s0.list
       /\ \A d \in HttpChannels \ {c} : s.ch[d] = s0.ch[d]
  BY <1>2, <1>9, <1>12, ChannelSet
<1>30. /\ q.cancelled => h = u
       /\ ~q.cancelled /\ code # 401 => h = RequestBecomes(t, r, Told(t.req[r], answer))
       /\ ~q.cancelled /\ code = 401 =>
            IF CanAuthenticate(q, challenge, r)
            THEN h = Resubmitted(t, r, challenge, succeeds)
            ELSE \E g : /\ g = RequestBecomes(t, r, GivenUp(t.req[r], challenge))
                        /\ h = RequestBecomes(g, r, Told(g.req[r], answer))
  <2>1. s.ch[c].pending # <<>> /\ r = Head(s.ch[c].pending) /\ s.req[r] = q
    BY <1>9, <1>16, <1>20, <1>25, <1>29
  <2> QED
    BY <1>15, <1>22, <1>27, <1>28, <2>1, HandleResponseCases
<1>31. su.stale \in Nat
  BY <1>18
<1>32. ASSUME code = 401, su.willing
       PROVE  q.auth_attempt_count > 0 => stale' = stale + 1 /\ q.auth_attempt_count <= stale + 1
  BY <1>14, <1>18, <1>26, <1>27, <1>32 DEF Answers, RequestOK
<1>33. Http(h, su) /\ HttpRefs(h, c)
  <2>1. CASE q.cancelled
    BY <1>23, <1>30, <2>1
  <2>2. CASE ~q.cancelled /\ code # 401
    <3>1. h = RequestBecomes(t, r, Told(t.req[r], answer))
      BY <1>30, <2>2
    <3>2. t.req[r].sent /\ t.req[r].answers = <<>> /\ t.req[r].errors = 0
      BY <1>24 DEF Unanswered
    <3> QED
      BY <1>24, <1>28, <1>31, <2>2, <3>1, <3>2, TellKeeps
  <2>3. CASE ~q.cancelled /\ code = 401 /\ CanAuthenticate(q, challenge, r)
    <3>1. h = Resubmitted(t, r, challenge, succeeds)
      BY <1>30, <2>3
    <3>2. CanSend(t)
      <4>1. CASE FreeChannels(s) # {}
        <5>1. FreeChannels(s) \subseteq FreeChannels(t)
          BY <1>21, <1>24, <1>29 DEF FreeChannels
        <5> QED
          BY <4>1, <5>1 DEF CanSend
      <4>2. CASE Usable(s) # {} /\ ~close
        <5>1. \A d \in HttpChannels : t.ch[d].about_to_be_closed => s.ch[d].about_to_be_closed
          BY <1>21, <1>24, <1>29, <4>2
        <5>2. \A i \in DOMAIN s0.list : s0.list[i] \in HttpChannels
          BY <1>2, ElementOfSeq, LenProperties DEF HttpTypeOK
        <5>3. Usable(s) \subseteq Usable(t)
          BY <1>24, <1>29, <5>1, <5>2 DEF Usable
        <5> QED
          BY <4>2, <5>3 DEF CanSend
      <4> QED
        BY <1>14, <2>3, <4>1, <4>2
    <3>3. su.willing => t.req[r].auth_attempt_count <= su.stale
      BY <1>2, <1>18, <1>24, <1>25, <1>26, <1>32, <2>3
    <3>4. PICK k \in Nat \ {0} : k = asked.auth.nonce + 1
      <4>1. asked.auth.nonce + 1 \in Nat \ {0}
        BY <1>26, <1>27
      <4> QED
        BY <4>1
    <3>5. challenge = [scheme |-> site.scheme, realm |-> Realm, qop |-> site.qop, nonce |-> k]
      BY <1>11, <3>4
    <3> QED
      BY <1>2, <1>18, <1>24, <1>31, <3>1, <3>2, <3>3, <3>5, ResubmittedKeeps
  <2>4. CASE ~q.cancelled /\ code = 401 /\ ~CanAuthenticate(q, challenge, r)
    <3>1. TriedEnough(q) \/ ~su.willing
      <4> SUFFICES ASSUME su.willing PROVE TriedEnough(q)
        OBVIOUS
      <4>1. PICK k \in Nat \ {0} : k = asked.auth.nonce + 1
        <5>1. asked.auth.nonce + 1 \in Nat \ {0}
          BY <1>26, <1>27
        <5> QED
          BY <5>1
      <4>2. challenge = [scheme |-> site.scheme, realm |-> Realm, qop |-> site.qop, nonce |-> k]
        BY <1>11, <4>1
      <4>3. /\ challenge.scheme = "Digest" /\ Ha1(challenge.realm) # <<>>
            /\ CanFill(Credential(challenge, r))
        BY <1>2, <1>18, <1>24, <4>2, CredentialVerifies
      <4> QED
        BY <2>4, <4>3 DEF CanAuthenticate
    <3>2. ~su.willing \/ su.stale > 1
      <4>1. CASE su.willing
        <5>1. q.auth_attempt_count > 1
          BY <3>1, <4>1 DEF TriedEnough
        <5> QED
          BY <1>2, <1>18, <1>26, <1>32, <2>4, <4>1, <5>1
      <4> QED
        BY <4>1
    <3>3. PICK g : /\ g = RequestBecomes(t, r, GivenUp(t.req[r], challenge))
                   /\ h = RequestBecomes(g, r, Told(g.req[r], answer))
      BY <1>30, <2>4
    <3>4. t.req[r] = q /\ RequestOK(q, r, su)
      BY <1>24, <1>25 DEF Http, RequestsOK
    <3>5. PICK p : p = GivenUp(q, challenge)
      OBVIOUS
    <3>6. /\ p \in RequestType(p.auth) /\ RequestOK(p, r, su)
          /\ p.sent = q.sent /\ p.answers = q.answers /\ p.errors = q.errors
      BY <1>26, <3>1, <3>4, <3>5, GivenUpRequest
    <3>7. /\ Http(g, su) /\ HttpRefs(g, c) /\ g.req[r] = p
          /\ \A e \in HttpRequests : Waits(g, e) <=> Waits(t, e)
      BY <1>24, <1>31, <3>3, <3>4, <3>5, <3>6, RequestKeeps
    <3>8. ~Waits(g, r) /\ g.req[r].sent /\ g.req[r].answers = <<>> /\ g.req[r].errors = 0
      BY <1>24, <3>4, <3>6, <3>7 DEF Unanswered
    <3> QED
      BY <1>24, <1>28, <1>31, <3>2, <3>3, <3>7, <3>8, TellKeeps
  <2> QED
    BY <2>1, <2>2, <2>3, <2>4
<1>34. CASE more
  <2>1. Becomes(h) /\ reading' = c
    BY <1>14, <1>15, <1>34
  <2>2. HttpRefs(h, reading') /\ reading' \in HttpChannels \cup {NoChannel}
    BY <1>33, <2>1
  <2> QED
    BY <1>13, <1>17, <1>18, <1>33, <2>1, <2>2, BecomesKeeps
<1>35. CASE ~more
  <2>1. PICK v : v = ChannelUnref(h, c)
    OBVIOUS
  <2>2. Http(v, su) /\ HttpRefs(v, NoChannel)
    BY <1>33, <2>1, UnrefKeeps
  <2>3. Becomes(v) /\ reading' = NoChannel
    BY <1>14, <1>15, <1>35, <2>1
  <2>4. HttpRefs(v, reading') /\ reading' \in HttpChannels \cup {NoChannel}
    BY <2>2, <2>3
  <2> QED
    BY <1>13, <1>17, <1>18, <2>2, <2>3, <2>4, BecomesKeeps
<1> QED
  BY <1>34, <1>35

\* Nothing is sent yet.
LEMMA HttpInitOK ==
    ASSUME HttpInit
    PROVE  HttpOK
<1>1. PICK s : s = Now
  OBVIOUS
<1>2. /\ s = [req |-> [r \in HttpRequests |-> NewRequest],
              ch |-> [c \in HttpChannels |-> NoSuchChannel], list |-> <<>>]
  BY <1>1 DEF Now, HttpInit
<1>3. /\ s = [req |-> s.req, ch |-> s.ch, list |-> s.list]
      /\ s.req = [r \in HttpRequests |-> s.req[r]] /\ s.ch = [c \in HttpChannels |-> s.ch[c]]
      /\ \A r \in HttpRequests : s.req[r] = NewRequest
      /\ \A c \in HttpChannels : s.ch[c] = NoSuchChannel
      /\ s.list = <<>>
  BY <1>2
<1>4. /\ NewRequest \in RequestType(NewRequest.auth) /\ NewRequest.auth.nonce = 0
      /\ NewRequest.sent = FALSE /\ NewRequest.split = FALSE /\ NewRequest.hosts = 0
      /\ NewRequest.answers = <<>> /\ NewRequest.errors = 0 /\ NewRequest.auth_attempt_count = 0
  BY DEF NewRequest, RequestType, create_authorization
<1>5. /\ NoSuchChannel \in ChannelType(NoSuchChannel.wire) /\ NoSuchChannel.state = "none"
      /\ NoSuchChannel.ref = 0 /\ NoSuchChannel.pending = <<>> /\ NoSuchChannel.wire = <<>>
      /\ NoSuchChannel.outgoing = <<>> /\ NoSuchChannel.notified = TRUE
  <2>1. PICK x : x = NewChannelOf
    OBVIOUS
  <2>2. /\ x \in ChannelType(<<>>) /\ x.pending = <<>> /\ x.wire = <<>> /\ x.outgoing = <<>>
        /\ x.notified = TRUE
    BY <2>1 DEF NewChannelOf, ChannelType, HttpStates
  <2>3. PICK y : y = [x EXCEPT !.state = "none"]
    OBVIOUS
  <2>4. /\ y \in ChannelType(<<>>) /\ y.state = "none" /\ y.pending = <<>> /\ y.wire = <<>>
        /\ y.outgoing = <<>> /\ y.notified = TRUE
    BY <2>2, <2>3 DEF ChannelType, HttpStates
  <2>5. PICK z : z = [y EXCEPT !.ref = 0]
    OBVIOUS
  <2>6. /\ z \in ChannelType(<<>>) /\ z.state = "none" /\ z.ref = 0 /\ z.pending = <<>>
        /\ z.wire = <<>> /\ z.outgoing = <<>> /\ z.notified = TRUE
    BY <2>4, <2>5 DEF ChannelType
  <2>7. z = NoSuchChannel
    BY <2>1, <2>2, <2>3, <2>5 DEF NoSuchChannel, ChannelType
  <2> QED
    BY <2>6, <2>7
<1>6. /\ Once(<<>>) /\ (\A e : ~Has(<<>>, e)) /\ Len(<<>>) = 0 /\ <<>> \in Seq(HttpChannels)
  BY DEF Once, Has
<1>7. HttpTypeOK(s)
  BY <1>3, <1>4, <1>5, <1>6 DEF HttpTypeOK
<1>8. \A c \in HttpChannels : \A r : ~WaitsAt(s.ch[c], r)
  BY <1>3, <1>5, <1>6 DEF WaitsAt
<1>9. ChannelsOK(s)
  <2>1. ASSUME NEW c \in HttpChannels
        PROVE  ChannelOK(s.ch[c], Has(s.list, c)) /\ WireAt(s, s.ch[c]) /\ OnceAt(s.ch[c])
    <3>1. 0 \in 0..Len(<<>>) /\ <<>> = [i \in 1..0 |-> OnWire(s, <<>>[i])]
      OBVIOUS
    <3>2. WireAt(s, s.ch[c])
      BY <1>3, <1>5, <3>1 DEF WireAt
    <3> QED
      BY <1>3, <1>5, <1>6, <3>2 DEF ChannelOK, OnceAt
  <2> QED
    BY <1>8, <2>1 DEF ChannelsOK
<1>10. ToldOK(s)
  BY <1>8 DEF ToldOK, Waits
<1>11. RequestsOK(s, HttpSeen)
  <2>1. \A i : i \notin 1..Len(<<>>)
    BY <1>6
  <2> QED
    BY <1>3, <1>4, <1>6, <2>1 DEF RequestsOK, RequestOK
<1>12. reading = NoChannel /\ NoChannel \notin HttpChannels
  BY DEF HttpInit, NoChannel, HttpChannels
<1>13. HttpRefs(s, reading)
  BY <1>3, <1>5, <1>6, <1>12 DEF HttpRefs, Holders
<1>14. knows \in Knowledge /\ stale \in Nat
  BY HttpAssumption DEF HttpInit
<1> QED
  BY <1>1, <1>7, <1>9, <1>10, <1>11, <1>12, <1>13, <1>14 DEF HttpOK, Http

\* The invariant is kept by every step, when only what is in the list is cancelled.
LEMMA HttpStep == ~CancelsRemoved /\ HttpInv /\ [Next]_vars => HttpInv'
<1> SUFFICES ASSUME ~CancelsRemoved, HttpInv, [Next]_vars PROVE HttpInv'
  OBVIOUS
<1>1. CASE role = "HTTP" /\ HttpNext /\ role' = role
  <2>1. HttpOK
    BY <1>1 DEF HttpInv
  <2>2. HttpOK'
    <3>1. ASSUME NEW r \in HttpRequests, SendHttpRequest(r) \/ CancelHttpRequest(r) PROVE HttpOK'
      BY <2>1, <3>1, SendHttpRequestKeeps, CancelHttpRequestKeeps
    <3>2. ASSUME NEW c \in HttpChannels,
                 \/ HttpConnected(c) \/ HttpFailed(c) \/ HttpNotify(c) \/ SiteCloses(c) \/ Respond(c)
          PROVE  HttpOK'
      BY <2>1, <3>2, HttpConnectedKeeps, HttpFailedKeeps, HttpNotifyKeeps, SiteClosesKeeps,
         RespondKeeps
    <3> QED
      BY <1>1, <3>1, <3>2 DEF HttpNext
  <2> QED
    BY <1>1, <2>2 DEF HttpInv
<1>2. CASE UNCHANGED <<role, httpVars>>
  <2>1. Now' = Now /\ HttpSeen' = HttpSeen
    BY <1>2 DEF httpVars, Now, HttpSeen, Willing
  <2>2. HttpOK => HttpOK'
    BY <1>2, <2>1 DEF httpVars, HttpOK
  <2> QED
    BY <1>2, <2>2 DEF HttpInv, httpVars
<1> QED
  BY <1>1, <1>2 DEF Next, vars

LEMMA HttpInvariant == ~CancelsRemoved => (Spec => []HttpInv)
<1> SUFFICES ASSUME ~CancelsRemoved PROVE Spec => []HttpInv
  OBVIOUS
<1>1. Init => HttpInv
  BY HttpInitOK DEF Init, HttpInv, NoHttp
<1>2. HttpInv /\ [Next]_vars => HttpInv'
  BY HttpStep
<1> QED
  BY <1>1, <1>2, PTL DEF Spec

\* A request is told one outcome, the answer to itself, which refuses it only if the site may, and
\* what is sent has a path and one Host header (http_channel_context_handle_response()), for any
\* requests and channels, as long as a request is cancelled when its channel is in the list.
THEOREM AnsweredOwnHolds == ~CancelsRemoved => (Spec => []AnsweredOwn)
<1>1. HttpInv => AnsweredOwn
  <2> SUFFICES ASSUME HttpInv PROVE AnsweredOwn
    OBVIOUS
  <2>1. CASE role # "HTTP"
    BY <2>1 DEF HttpInv, AnsweredOwn
  <2>2. CASE role = "HTTP"
    <3>1. PICK s : s = Now
      OBVIOUS
    <3>2. Http(s, HttpSeen) /\ s.req = hreq /\ s.ch = hchan
      BY <2>2, <3>1 DEF HttpInv, HttpOK, Now
    <3>3. DOMAIN hreq = HttpRequests /\ DOMAIN hchan = HttpChannels
      <4>1. hreq = [r \in HttpRequests |-> hreq[r]] /\ hchan = [c \in HttpChannels |-> hchan[c]]
        BY <3>2 DEF Http, HttpTypeOK
      <4> QED
        BY <4>1
    <3>4. ASSUME NEW r \in HttpRequests
          PROVE  /\ Len(hreq[r].answers) <= 1
                 /\ hreq[r].answers # <<>> => hreq[r].errors = 0
                 /\ \A i \in DOMAIN hreq[r].answers :
                      /\ hreq[r].answers[i].of = r
                      /\ hreq[r].answers[i].code = 401 =>
                           \/ knows \in {"wrong", "nothing"} \/ stale > 1
                           \/ site.scheme # "Digest" \/ site.qop \notin {Null, "auth"}
      <4>1. PICK q : q = hreq[r]
        OBVIOUS
      <4>2. RequestOK(q, r, HttpSeen) /\ q.answers \in Seq(HttpAnswers)
        BY <3>2, <4>1 DEF Http, RequestsOK, HttpTypeOK, RequestType
      <4>3. DOMAIN q.answers = 1..Len(q.answers)
        BY <4>2, LenProperties
      <4>4. HttpSeen.willing = Willing /\ HttpSeen.stale = stale
        BY DEF HttpSeen
      <4> QED
        BY <4>1, <4>2, <4>3, <4>4 DEF RequestOK, Willing
    <3>5. ASSUME NEW c \in HttpChannels, NEW i \in DOMAIN hchan[c].wire
          PROVE  hchan[c].wire[i].split /\ hchan[c].wire[i].hosts = 1
      <4>1. PICK x : x = hchan[c]
        OBVIOUS
      <4>2. WireAt(s, x) /\ x.pending \in Seq(HttpRequests)
        BY <3>2, <4>1 DEF Http, ChannelsOK, HttpTypeOK, ChannelType
      <4>3. /\ x.wire \in Seq(Wired(s))
            /\ \A j \in 1..Len(x.wire) : j \in 1..Len(x.pending) /\ x.wire[j] = OnWire(s, x.pending[j])
        BY <4>2, WireIsList
      <4>4. i \in 1..Len(x.wire)
        BY <4>1, <4>3, LenProperties
      <4>5. PICK r : r = x.pending[i]
        OBVIOUS
      <4>6. r \in HttpRequests /\ Has(x.pending, r) /\ x.wire[i] = OnWire(s, r)
        BY <4>2, <4>3, <4>4, <4>5, ElementOfSeq DEF Has
      <4>7. Waits(s, r)
        BY <3>2, <4>1, <4>6 DEF Waits, WaitsAt
      <4>8. Unanswered(s.req[r]) /\ RequestOK(s.req[r], r, HttpSeen)
        BY <3>2, <4>6, <4>7 DEF Http, ToldOK, RequestsOK
      <4>9. s.req[r].split /\ s.req[r].hosts = 1
        BY <4>8 DEF Unanswered, RequestOK
      <4>10. x.wire[i].split = s.req[r].split /\ x.wire[i].hosts = s.req[r].hosts
        BY <4>6 DEF OnWire
      <4> QED
        BY <4>1, <4>9, <4>10
    <3> QED
      BY <3>3, <3>4, <3>5 DEF AnsweredOwn
  <2> QED
    BY <2>1, <2>2
<1> QED
  BY <1>1, HttpInvariant, PTL
=============================================================================
