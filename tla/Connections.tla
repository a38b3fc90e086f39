---------------------------- MODULE Connections -----------------------------
(***************************************************************************)
(* Who talks to whom (connections.py): the flows of the kernel's table are *)
(* gathered into conversations, each of them is given to a container where *)
(* one end can be recognised, and the loudest are shown.                   *)
(*                                                                         *)
(* Each step takes the next flow of the table.  Left out: parsing, the     *)
(* packets (counted like the bytes), states, the names of processes, and   *)
(* the cache of the answer.                                                *)
(***************************************************************************)
EXTENDS Integers, FiniteSets, FiniteSetsExt, Sequences

CONSTANTS
  Containers,  \* in the order docker lists them: [name, ips, ports]
  Table,       \* flows there can be: [proto, src, dst, dport, from, sent, answered]
  MaxFlows,    \* bound
  Limit        \* max_peers()

\* Bytes are None where the kernel does not count them.
None == -1
Nobody == "nobody"

ConnectionsSane ==
  /\ MaxFlows \in Nat /\ Limit \in Nat
  /\ \A flow \in Table : flow.sent \in Nat \cup {None} /\ flow.answered \in Nat \cup {None}

VARIABLES
  grouped,  \* for each key its row
  seen      \* history: the flows taken so far

connectionVars == <<grouped, seen>>

Init == grouped = [key \in {} |-> 0] /\ seen = <<>>

-----------------------------------------------------------------------------
(* build_index: of two containers with one address or port the last wins.  *)
LastOf(found) ==
  IF found = {} THEN Nobody ELSE Containers[CHOOSE i \in found : \A j \in found : j <= i].name
ByIp(ip) == LastOf({i \in DOMAIN Containers : ip \in Containers[i].ips})
ByPort(port) == LastOf({i \in DOMAIN Containers : port \in Containers[i].ports})

(* attribute: the container at one end, and whether it opened the          *)
(* connection.  Docker rewrites addresses: a container that is reached     *)
(* through the host shows as the one the answers come from.                *)
Inner(flow) == IF ByIp(flow.from) # Nobody THEN ByIp(flow.from)
               ELSE ByPort(<<flow.dport, flow.proto>>)
Attribute(flow) ==
  IF ByIp(flow.src) # Nobody
  THEN [container |-> ByIp(flow.src), direction |-> "out", peer |-> ByIp(flow.dst)]
  ELSE IF Inner(flow) # Nobody
  THEN [container |-> Inner(flow), direction |-> "in", peer |-> ByIp(flow.src)]
  ELSE [container |-> Nobody, direction |-> "none", peer |-> Nobody]

(* What the container sent and received of a flow, by its direction.       *)
Tx_AsCounted(direction, flow) == flow.sent
Tx(direction, flow) == IF direction = "out" THEN flow.sent ELSE flow.answered
Rx(direction, flow) == IF direction = "out" THEN flow.answered ELSE flow.sent

-----------------------------------------------------------------------------
(* aggregate.                                                              *)
Key(flow) == <<flow.proto, flow.src, flow.dst, flow.dport>>
Plus_NoneIsZero(total, bytes) == (IF total = None THEN 0 ELSE total) + (IF bytes = None THEN 0 ELSE bytes)
Plus(total, bytes) == IF bytes = None THEN total ELSE IF total = None THEN bytes ELSE total + bytes
NewRow(flow) ==   \* the attribution of its first flow is that of the row
  [of |-> Attribute(flow), flows |-> 0, sent |-> None, answered |-> None, tx |-> None, rx |-> None]
Row(flow) == IF Key(flow) \in DOMAIN grouped THEN grouped[Key(flow)] ELSE NewRow(flow)
Counted(row, flow) ==
  LET inside == row.of.direction # "none"
  IN [row EXCEPT !.flows = @ + 1,
                 !.sent = Plus(@, flow.sent), !.answered = Plus(@, flow.answered),
                 !.tx = IF inside THEN Plus(@, Tx(row.of.direction, flow)) ELSE @,
                 !.rx = IF inside THEN Plus(@, Rx(row.of.direction, flow)) ELSE @]
Take(flow) ==
  /\ Len(seen) < MaxFlows
  /\ grouped' = [key \in DOMAIN grouped \cup {Key(flow)} |->
                   IF key = Key(flow) THEN Counted(Row(flow), flow) ELSE grouped[key]]
  /\ seen' = Append(seen, flow)

Next == \E flow \in Table : Take(flow)

(* The rows that are shown: sorted by bytes and then by flows, of equal    *)
(* ones the earlier first, and cut off.                                    *)
Bytes(row) == (IF row.sent = None THEN 0 ELSE row.sent)
              + (IF row.answered = None THEN 0 ELSE row.answered)
Louder(row, other) ==
  Bytes(row) > Bytes(other) \/ (Bytes(row) = Bytes(other) /\ row.flows > other.flows)
FirstFlow(key) == CHOOSE i \in DOMAIN seen : /\ Key(seen[i]) = key
                                             /\ \A j \in 1..(i - 1) : Key(seen[j]) # key
Before(key, other) ==
  \/ Louder(grouped[key], grouped[other])
  \/ ~Louder(grouped[other], grouped[key]) /\ FirstFlow(key) < FirstFlow(other)
Shown == {key \in DOMAIN grouped : Cardinality({other \in DOMAIN grouped : Before(other, key)}) < Limit}

-----------------------------------------------------------------------------
Figures == Nat \cup {None}
TypeOK ==
  /\ seen \in Seq(Table) /\ Len(seen) <= MaxFlows
  /\ DOMAIN grouped = {Key(seen[i]) : i \in DOMAIN seen}
  /\ \A key \in DOMAIN grouped :
       grouped[key] \in [of : {Attribute(flow) : flow \in Table}, flows : 1..MaxFlows,
                         sent : Figures, answered : Figures, tx : Figures, rx : Figures]

\* The flows of a conversation, and the sum of a figure of theirs: None when no flow has it.
FlowsOf(key) == {i \in DOMAIN seen : Key(seen[i]) = key}
Total(figures, flows) ==
  LET known == {i \in flows : figures[i] # None}
  IN IF known = {} THEN None ELSE MapThenSumSet(LAMBDA i : figures[i], known)
Sent == [i \in DOMAIN seen |-> seen[i].sent]
Answered == [i \in DOMAIN seen |-> seen[i].answered]
\* All flows of a conversation go to one container: not so when a port was given to another one
\* and old flows are still in the table, which the row gives to the first of them.
OfOne(flows) == \A i, j \in flows : Attribute(seen[i]) = Attribute(seen[j])

(* A row counts all flows of its conversation once, in either order, with  *)
(* sent and received the right way round for the container it names, and   *)
(* bytes that were not counted stay unknown; no row that is cut off is     *)
(* louder than one that is shown (connections.aggregate).                  *)
RowsTrue ==
  /\ \A key \in DOMAIN grouped :
       LET row == grouped[key]
           flows == FlowsOf(key)
       IN /\ row.flows = Cardinality(flows)
          /\ row.sent = Total(Sent, flows) /\ row.answered = Total(Answered, flows)
          /\ OfOne(flows) => \A i \in flows :
               /\ row.of = Attribute(seen[i])
               /\ row.of.direction = "out" => row.tx = row.sent /\ row.rx = row.answered
               /\ row.of.direction = "in" => row.rx = row.sent /\ row.tx = row.answered
  /\ \A key \in Shown, other \in DOMAIN grouped :
       Louder(grouped[other], grouped[key]) => other \in Shown

(* What makes the rows true.                                               *)
RowTrue(row, flows) ==
  /\ row.flows = Cardinality(flows)
  /\ row.sent = Total(Sent, flows) /\ row.answered = Total(Answered, flows)
  /\ row.of.direction = "out" => row.tx = row.sent /\ row.rx = row.answered
  /\ row.of.direction = "in" => row.rx = row.sent /\ row.tx = row.answered
Inductive ==
  /\ TypeOK
  /\ \A key \in DOMAIN grouped :
       /\ RowTrue(grouped[key], FlowsOf(key))
       /\ \E i \in FlowsOf(key) : grouped[key].of = Attribute(seen[i])
=============================================================================
