------------------------------ MODULE Detector ------------------------------
(***************************************************************************)
(* What the network watch makes of the traffic (netwatch.Detector): who    *)
(* holds which address, which servers offer leases, and the findings, a    *)
(* list that is kept short.                                                *)
(*                                                                         *)
(* Addresses that are passed over (public, broadcast, virtual) are not     *)
(* among the inputs; titles and hints are left out; a finding is named by  *)
(* its key, of which the program keeps a hash.                             *)
(***************************************************************************)
EXTENDS Integers, FiniteSets

CONSTANTS
  Addresses, Gateway,  \* addresses claimed, and the gateway's among them
  Macs,                \* the devices
  Servers,             \* addresses DHCP replies come from
  LearnTime,           \* LEARN_SECONDS
  IdleTime,            \* IDLE_BINDING_SECONDS
  MaxInfo,             \* MAX_INFO_FINDINGS
  MaxFindings,         \* MAX_FINDINGS
  MaxKnown,            \* MAX_KNOWN
  LastMoment           \* bound: the clock

DetectorSane == {IdleTime, MaxInfo, MaxFindings, MaxKnown, LastMoment} \subseteq Nat

VARIABLES
  now,        \* the time of the last event
  bindings,   \* for each address that has been claimed: its mac, and since and until when
  devices,    \* `known`: for each mac that has been seen, since when
  servers,    \* the servers that have replied
  findings    \* for each key: its severity, and when it was last seen

watchVars == <<now, bindings, devices, servers, findings>>

Init ==
  /\ now = 0
  /\ bindings = [a \in {} |-> 0]
  /\ devices = [m \in {} |-> 0]
  /\ servers = {}
  /\ findings = [k \in {} |-> 0]

Put(f, x, v) == [y \in DOMAIN f \cup {x} |-> IF y = x THEN v ELSE f[y]]
Without(f, gone) == [x \in DOMAIN f \ gone |-> f[x]]

-----------------------------------------------------------------------------
(* _evict: information beyond its own limit goes first, and then whatever  *)
(* ranks lowest, the oldest first.  Of several alike one is taken.         *)
Severities == {"info", "warn", "bad"}
Rank(f) == CASE f.severity = "info" -> 0 [] f.severity = "warn" -> 1 [] f.severity = "bad" -> 2
Before_ByAge(f, g) == f.last =< g.last
Before(f, g) == Rank(f) < Rank(g) \/ (Rank(f) = Rank(g) /\ f.last =< g.last)

\* All ways to take n of the keys in the order of Before.
Lowest(table, keys, n) ==
  {gone \in SUBSET keys : /\ Cardinality(gone) = n
                          /\ \A g \in gone, k \in keys \ gone : Before(table[g], table[k])}
Excess(keys, limit) == IF Cardinality(keys) > limit THEN Cardinality(keys) - limit ELSE 0
Infos(table) == {k \in DOMAIN table : table[k].severity = "info"}
Evicted(table) ==
  UNION {LET rest == Without(table, infos)
         IN {Without(rest, gone) :
               gone \in Lowest(rest, DOMAIN rest, Excess(DOMAIN rest, MaxFindings))} :
         infos \in Lowest(table, Infos(table), Excess(Infos(table), MaxInfo))}

(* _raise: another sighting, or a new finding and the list cut down again. *)
Raised(table, key, severity, at) ==
  IF key \in DOMAIN table
  THEN {[table EXCEPT ![key].last = at]}
  ELSE Evicted(Put(table, key, [severity |-> severity, last |-> at]))

(* _trim: the oldest entries beyond MAX_KNOWN go, by the ages given.       *)
Trimmed(table, age) ==
  {Without(table, gone) : gone \in
     {g \in SUBSET DOMAIN table :
        /\ Cardinality(g) = Excess(DOMAIN table, MaxKnown)
        /\ \A x \in g, y \in DOMAIN table \ g : age[x] =< age[y]}}

-----------------------------------------------------------------------------
(* observe_arp, in its two parts: is the device new, and whose address is  *)
(* it?                                                                     *)
NewDevice(mac, at) ==
  IF mac \in DOMAIN devices \/ at < LearnTime THEN {findings}
  ELSE Raised(findings, <<"new", mac>>, "info", at)

\* The finding for an address that goes from one mac to another.
Changed(table, a, mac, at) ==
  LET quiet == at - bindings[a].last
  IN CASE a = Gateway -> Raised(table, <<"gw", a, mac>>, "bad", at)
       [] a # Gateway /\ quiet > IdleTime -> Raised(table, <<"moved", a, mac>>, "info", at)
       [] a # Gateway /\ quiet =< IdleTime -> Raised(table, <<"conflict", a, mac>>, "warn", at)
Holds(a, mac) == a \in DOMAIN bindings /\ bindings[a].mac = mac
Claimed(table, a, mac, at) ==
  IF a \notin DOMAIN bindings \/ Holds(a, mac) THEN {table} ELSE Changed(table, a, mac, at)

ObserveArp(a, mac, at) ==
  /\ \E table \in NewDevice(mac, at) : findings' \in Claimed(table, a, mac, at)
  /\ LET first == IF mac \in DOMAIN devices THEN devices ELSE Put(devices, mac, at)
         held == Put(bindings, a, [mac |-> mac, last |-> at])
     IN /\ devices' \in Trimmed(first, first)
        /\ bindings' \in Trimmed(held, [b \in DOMAIN held |-> held[b].last])
  /\ UNCHANGED servers

(* observe_dhcp: only a second server is worth a finding, once.            *)
ObserveDhcp(s, at) ==
  /\ servers' = servers \cup {s}
  /\ findings' \in IF s \in servers \/ servers = {} THEN {findings}
                   ELSE Raised(findings, <<"dhcp", s>>, "warn", at)
  /\ UNCHANGED <<bindings, devices>>

Next ==
  /\ now' \in now..LastMoment
  /\ \/ \E a \in Addresses, mac \in Macs : ObserveArp(a, mac, now')
     \/ \E s \in Servers : ObserveDhcp(s, now')

Spec == Init /\ [][Next]_watchVars

-----------------------------------------------------------------------------
(* Every variable has its type, and every table its limit.                 *)
TypeOK ==
  /\ now \in 0..LastMoment
  /\ DOMAIN bindings \subseteq Addresses /\ Cardinality(DOMAIN bindings) =< MaxKnown
  /\ \A a \in DOMAIN bindings : bindings[a] \in [mac : Macs, last : 0..now]
  /\ DOMAIN devices \subseteq Macs /\ Cardinality(DOMAIN devices) =< MaxKnown
  /\ servers \subseteq Servers
  /\ Cardinality(DOMAIN findings) =< MaxFindings
  /\ Cardinality(Infos(findings)) =< MaxInfo
  /\ \A k \in DOMAIN findings : findings[k] \in [severity : Severities, last : 0..now]

Alerts(table) == {k \in DOMAIN table : table[k].severity # "info"}

\* A list that is full of findings of a rank or above.
FullOf(table, rank) ==
  /\ Infos(table) = {}
  /\ Cardinality(DOMAIN table) = MaxFindings
  /\ \A k \in DOMAIN table : Rank(table[k]) >= rank

(* An alert leaves the list only when it is full of alerts, none of which  *)
(* ranks lower: no stream of information pushes one out, and no stream of  *)
(* warnings pushes out a gateway that changed hands.                       *)
Kept(table, new) ==
  \A k \in Alerts(table) \ DOMAIN new : FullOf(new, Rank(table[k]))
AlertKept == Kept(findings, findings')
AlertsKept == [][AlertKept]_watchVars

Inductive == /\ TypeOK
             /\ \A table \in {bindings, devices, findings} : IsFiniteSet(DOMAIN table)
=============================================================================
