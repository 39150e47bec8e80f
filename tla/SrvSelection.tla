---------------------------- MODULE SrvSelection ----------------------------
(***************************************************************************)
(* The order in which the servers of an SRV answer are tried               *)
(* (belle_sip_resolver.c): sorted by priority as the records are parsed,   *)
(* then, among records of one priority, elected at random by weight. A     *)
(* list is a sequence of records' names; Records gives each its priority   *)
(* and weight. The random number makes the outcome a set.                  *)
(***************************************************************************)
EXTENDS Integers, Sequences, SequencesExt, FiniteSetsExt

CONSTANT Records    \* the SRV records there can be: name |-> [priority, weight]

\* belle_sip_list_insert_sorted(): before the first element x does not compare after.
belle_sip_list_insert_sorted(list, x, After(_, _)) ==
    LET before == {i \in DOMAIN list : ~ After(x, list[i])}
    IN  IF before = {} THEN Append(list, x) ELSE InsertAt(list, Min(before), x)

srv_compare_prio(x, y) == Records[x].priority > Records[y].priority

\* Weight 0 first; y is not looked at.
srv_sort_weight(x, y) == Records[x].weight # 0

\* The list resolver_process_data() builds of the records of an answer.
resolver_answer(answer) ==
    FoldLeft(LAMBDA list, x : belle_sip_list_insert_sorted(list, x, srv_compare_prio),
             <<>>, answer)

Weights(list) == FoldLeft(LAMBDA sum, x : sum + Records[x].weight, 0, list)

\* The records one call can elect: the first whose cumulative weight the random number
\* reaches, the head of the list when there is none.
srv_elect_one(list) ==
    LET sum == Weights(list)
        cumulative(i) == Weights(SubSeq(list, 1, i))
        elected(number) ==
            LET reached == {i \in DOMAIN list : number >= cumulative(i)}
            IN  IF reached = {} THEN Head(list) ELSE list[Min(reached)]
    IN  IF sum = 0 THEN {Head(list)} ELSE {elected(number) : number \in 0 .. sum - 1}

\* The orders srv_elect() can give a list.
srv_elect[list \in Seq(DOMAIN Records)] ==
    IF list = <<>> THEN {<<>>}
    ELSE UNION {{<<x>> \o rest : rest \in srv_elect[Remove(list, x)]} : x \in srv_elect_one(list)}

\* srv_select_by_weight(), one element: c is [same, done, prev]: the pending group of
\* records of one priority, the orders of the groups elected so far, the record before.
\* The head of a group joins it only when a second record of its priority is met.
srv_select_step(c, x) ==
    LET group == IF c.same = <<>> THEN <<c.prev>> ELSE c.same IN
    IF c.prev = "" THEN [c EXCEPT !.prev = x]
    ELSE IF Records[c.prev].priority = Records[x].priority
      THEN [c EXCEPT !.prev = x, !.same = belle_sip_list_insert_sorted(group, x, srv_sort_weight)]
    ELSE [prev |-> x, same |-> <<>>,
          done |-> {d \o e : d \in c.done, e \in srv_elect[c.same]}]

\* The orders the list given to the callback can have. A list that needed no election is
\* returned as it is; in one that did, a record alone at its priority is left out.
srv_select_by_weight(list) ==
    LET last == FoldLeft(srv_select_step, [same |-> <<>>, done |-> {<<>>}, prev |-> ""], list)
        result == {d \o e : d \in last.done, e \in srv_elect[last.same]}
    IN  IF result = {<<>>} THEN {list} ELSE result

\* The orders an answer can end in.
Selections(answer) == srv_select_by_weight(resolver_answer(answer))

ByPriority(list) ==
    \A i, j \in DOMAIN list : i < j => Records[list[i]].priority <= Records[list[j]].priority

=============================================================================
