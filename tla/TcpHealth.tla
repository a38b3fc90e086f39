----------------------------- MODULE TcpHealth ------------------------------
(***************************************************************************)
(* What the capture says about TCP segments (capture_worker.TcpHealth): it *)
(* keeps, for each direction of a connection, the number that is due next  *)
(* and the last bare acknowledgement, and flags retransmissions, gaps,     *)
(* duplicate acknowledgements, zero windows and resets.                    *)
(*                                                                         *)
(* Sequence numbers wrap around at Modulus, 2^32 in the code.  What they   *)
(* stand for, the position in a direction's bytes, does not: history keeps *)
(* it, to judge the flags by.  Left out: packets that are not TCP, for     *)
(* which check returns at once.                                            *)
(***************************************************************************)
EXTENDS Integers, FiniteSets

CONSTANTS
  Flows,        \* directions: source, destination and their ports
  MaxTracked,   \* MAX
  Modulus,      \* of the sequence numbers
  Markers,      \* what an acknowledgement may say: [ack, win]
  MaxPosition   \* bound: bytes in a direction

Half == Modulus \div 2
None == -1
Flags == {{}, {"A"}, {"S"}, {"S", "A"}, {"F", "A"}, {"R"}}
Judged == {"retransmit", "gap", "dup-ack"}
NoMarker == [ack |-> "none", win |-> None]

\* Numbers go around after Modulus; halfway there they are as far as can be.
HealthSane ==
  /\ Half \in Nat \ {0} /\ Modulus = 2 * Half
  /\ MaxTracked \in Nat \ {0} /\ MaxPosition \in Nat
  /\ NoMarker \notin Markers

VARIABLES
  state,    \* the table: what is tracked of which directions
  highest,  \* history: where the bytes that were seen of each end, or None
  bare,     \* history: the last two bare acknowledgements of each
  verdict   \* history: the flags of the last segment, and the ones it deserves

healthVars == <<state, highest, bare, verdict>>

Init ==
  /\ state = [f \in {} |-> 0]
  /\ highest = [f \in Flows |-> None]
  /\ bare = [f \in Flows |-> <<NoMarker, NoMarker>>]
  /\ verdict = [flagged |-> {}, deserved |-> {}]

(* _signed: how far ahead a number is, on the shorter way round.           *)
Signed_Plain(diff) == diff
Signed(diff) == ((diff + Half) % Modulus) - Half

-----------------------------------------------------------------------------
(* One segment, as it was decoded.                                         *)
Span(s) == s.plen + (IF "S" \in s.flags THEN 1 ELSE 0) + (IF "F" \in s.flags THEN 1 ELSE 0)
End(s) == s.begin + Span(s)
Counts(s) == Span(s) > 0 /\ "R" \notin s.flags
Bare(s) == "A" \in s.flags /\ Span(s) = 0 /\ "R" \notin s.flags
KeepAlive(s, behind) == s.plen <= 1 /\ s.flags \cap {"S", "F"} = {} /\ behind = -1
Seq32(position) == position % Modulus

\* The entry of its direction; a table that is full is cleared for a new one.
Fresh == [next |-> None, ack |-> NoMarker, dups |-> 0]
Cleared(s) == s.flow \notin DOMAIN state /\ Cardinality(DOMAIN state) >= MaxTracked
Entry(s) == IF s.flow \in DOMAIN state THEN state[s.flow] ELSE Fresh
Table(s) == IF Cleared(s) THEN [f \in {} |-> Fresh] ELSE state

NextDue(s) ==
  LET entry == Entry(s)
      end == Seq32(End(s))
      ahead == Signed(Seq32(s.begin) - entry.next) >= 0 \/ Signed(end - entry.next) > 0
  IN IF Counts(s) /\ (entry.next = None \/ ahead) THEN end ELSE entry.next
OrderIssues(s) ==
  LET behind == Signed(Seq32(s.begin) - Entry(s).next)
  IN IF ~Counts(s) \/ Entry(s).next = None THEN {}
     ELSE IF behind < 0 THEN IF KeepAlive(s, behind) THEN {} ELSE {"retransmit"}
     ELSE IF behind > 0 THEN {"gap"} ELSE {}
Dups(s) ==   \* nothing depends on how far it is past 2
  IF ~Bare(s) THEN Entry(s).dups
  ELSE IF Entry(s).ack = s.marker THEN IF Entry(s).dups = 2 THEN 2 ELSE Entry(s).dups + 1
  ELSE 0
Issues(s) ==
  (IF "R" \in s.flags THEN {"reset"}
   ELSE IF s.marker.win = 0 /\ "S" \notin s.flags THEN {"zero-window"} ELSE {})
  \cup OrderIssues(s)
  \cup IF Bare(s) /\ Dups(s) >= 2 THEN {"dup-ack"} ELSE {}

(* What it deserves, by what was seen of its direction since the table was *)
(* last cleared.                                                           *)
Known(s) == IF Cleared(s) THEN None ELSE highest[s.flow]
LastBare(s) == IF Cleared(s) THEN <<NoMarker, NoMarker>> ELSE bare[s.flow]
Deserved(s) ==
  (IF ~Counts(s) \/ Known(s) = None \/ s.begin = Known(s) THEN {}
   ELSE IF s.begin > Known(s) THEN {"gap"}
   ELSE IF s.begin = Known(s) - 1 /\ s.plen < 2 /\ ~("S" \in s.flags \/ "F" \in s.flags) THEN {}
   ELSE {"retransmit"})
  \cup IF Bare(s) /\ LastBare(s) = <<s.marker, s.marker>> THEN {"dup-ack"} ELSE {}

\* Assumed: what is under way lies within half the numbers of what was seen.
Near(s) == Known(s) = None \/ (s.begin > Known(s) - Half /\ End(s) < Known(s) + Half)

Check(s) ==
  LET entry == [next |-> NextDue(s), ack |-> IF Bare(s) THEN s.marker ELSE Entry(s).ack,
                dups |-> Dups(s)]
  IN /\ Near(s) /\ End(s) <= MaxPosition
     /\ state' = [f \in DOMAIN Table(s) \cup {s.flow} |-> IF f = s.flow THEN entry ELSE Table(s)[f]]
     /\ highest' = [f \in Flows |-> IF f = s.flow
                                     THEN IF Counts(s) /\ End(s) > Known(s) THEN End(s) ELSE Known(s)
                                     ELSE IF Cleared(s) THEN None ELSE highest[f]]
     /\ bare' = [f \in Flows |-> IF f = s.flow
                                  THEN IF Bare(s) THEN <<LastBare(s)[2], s.marker>> ELSE LastBare(s)
                                  ELSE IF Cleared(s) THEN <<NoMarker, NoMarker>> ELSE bare[f]]
     /\ verdict' = [flagged |-> Issues(s) \cap Judged, deserved |-> Deserved(s)]

Segments == [flow : Flows, begin : 0..MaxPosition, plen : 0..2, flags : Flags, marker : Markers]
Next == \E s \in Segments : Check(s)

-----------------------------------------------------------------------------
Entries == [next : {None} \cup 0..(Modulus - 1), ack : Markers \cup {NoMarker}, dups : 0..2]
TypeOK ==
  /\ DOMAIN state \subseteq Flows /\ Cardinality(DOMAIN state) <= MaxTracked
  /\ \A f \in DOMAIN state :
       state[f] \in Entries
  /\ highest \in [Flows -> {None} \cup 0..MaxPosition]
  /\ bare \in [Flows -> (Markers \cup {NoMarker}) \X (Markers \cup {NoMarker})]
  /\ verdict \in [flagged : SUBSET Judged, deserved : SUBSET Judged]

(* A segment is flagged as a retransmission, a gap or a third identical    *)
(* acknowledgement exactly when it is one, by what has been seen of its    *)
(* direction since the table was last cleared, also where the numbers wrap *)
(* around.                                                                 *)
FlagsDeserved == verdict.flagged = verdict.deserved

(* What makes it so: of a direction that is tracked, the number that is    *)
(* due is that of the bytes seen, and two equal acknowledgements count;    *)
(* of another one, nothing has been seen.                                  *)
Due(position) == IF position = None THEN None ELSE Seq32(position)
Remembered(f) ==
  /\ state[f].next = Due(highest[f]) /\ state[f].ack = bare[f][2]
  /\ state[f].dups > 0 <=> bare[f][1] = bare[f][2] /\ bare[f][2] # NoMarker
Forgotten(f) == highest[f] = None /\ bare[f] = <<NoMarker, NoMarker>>
Inductive ==
  /\ TypeOK /\ FlagsDeserved /\ IsFiniteSet(DOMAIN state)
  /\ \A f \in Flows : IF f \in DOMAIN state THEN Remembered(f) ELSE Forgotten(f)
=============================================================================
