--------------------------- MODULE CaptureFilter ----------------------------
(***************************************************************************)
(* The filter expressions of the packet capture (capture_filter.py): a     *)
(* recursive-descent parser that turns a list of tokens into a predicate   *)
(* over packets.                                                           *)
(*                                                                         *)
(* A predicate is the set of the sample packets it holds of.  The parser   *)
(* is compared with the grammar: with every way to read the tokens as an   *)
(* expression, found by cutting them at every place, not from the left.    *)
(*                                                                         *)
(* Each step of the model adds a token to an expression that may still     *)
(* become one.  Tokens stand for classes of words; splitting the text into *)
(* tokens, and the words after ether, len, sni and name, are left out.     *)
(***************************************************************************)
EXTENDS Integers, Sequences, FiniteSets

CONSTANTS
  Words,      \* the tokens an expression is made of
  Packets,    \* the sample packets
  MaxDepth,   \* MAX_DEPTH
  MaxTokens   \* bound: tokens of an expression

Protocols == {"tcp", "udp", "icmp"}
Directions == {"src", "dst"}
Kinds == {"host", "port"}      \* net and portrange differ in their argument only

\* What the words after a kind stand for.
HostAddresses == {"10.0.0.1"}
PortNumbers == {"53"}

VARIABLE tokens
filterVars == <<tokens>>

-----------------------------------------------------------------------------
(* What a primitive holds of.                                              *)
OfProtocol(word) == {p \in Packets : p.proto = word}
BySide(direction, a, b, value) ==
  {p \in Packets : \/ direction # "dst" /\ p[a] = value
                   \/ direction # "src" /\ p[b] = value}
OfHost(direction, value) == BySide(direction, "src", "dst", value)
OfPort(direction, value) ==
  {p \in BySide(direction, "sport", "dport", value) : p.proto \in {"tcp", "udp"}}

-----------------------------------------------------------------------------
(* The parser.  It returns what it has read as a set of packets and the    *)
(* place it stopped at, or Failed: `short` if only tokens were missing.    *)
None == "none"
Failed == [ok |-> FALSE, means |-> {}, pos |-> 0, short |-> FALSE]
Short == [Failed EXCEPT !.short = TRUE]
Read(means, pos) == [ok |-> TRUE, means |-> means, pos |-> pos, short |-> FALSE]

Peek(t, pos) == IF pos =< Len(t) THEN t[pos] ELSE None

\* The argument of a kind: the last token of a primitive.
Argument(t, pos, kind, direction, among) ==
  CASE pos > Len(t) -> Short
    [] kind = "host" /\ Peek(t, pos) \in HostAddresses ->
         Read(among \cap OfHost(direction, t[pos]), pos + 1)
    [] kind = "port" /\ Peek(t, pos) \in PortNumbers ->
         Read(among \cap OfPort(direction, t[pos]), pos + 1)
    [] OTHER -> Failed

(* [src|dst] kind argument                                                 *)
Qualified(t, pos, qualifier, among) ==
  LET directed == Peek(t, pos) \in Directions
      direction == IF directed THEN t[pos] ELSE None
      at == IF directed THEN pos + 1 ELSE pos
  IN CASE at > Len(t) -> Short
       [] t[at] \notin Kinds -> Failed
       [] t[at] = "port" /\ qualifier = "icmp" -> Failed
       [] OTHER -> Argument(t, at + 1, t[at], direction, among)

Primitive(t, pos) ==
  LET word == Peek(t, pos)
      qualifies == Peek(t, pos + 1) \in Directions \cup Kinds
  IN CASE pos > Len(t) -> Short
       [] word \in Protocols /\ ~qualifies -> Read(OfProtocol(word), pos + 1)
       [] word \in Protocols /\ qualifies -> Qualified(t, pos + 1, word, OfProtocol(word))
       [] OTHER -> Qualified(t, pos, None, Packets)

RECURSIVE OrExpr(_, _, _), AndExpr(_, _, _), Unary(_, _, _), MoreOr(_, _, _), MoreAnd(_, _, _)

Unary(t, pos, depth) ==
  IF depth > MaxDepth THEN Failed
  ELSE CASE Peek(t, pos) = "not" ->
              LET inner == Unary(t, pos + 1, depth + 1)
              IN IF inner.ok THEN Read(Packets \ inner.means, inner.pos) ELSE inner
         [] Peek(t, pos) = "(" ->
              LET inner == OrExpr(t, pos + 1, depth + 1)
              IN CASE ~inner.ok -> inner
                   [] inner.pos > Len(t) -> Short
                   [] t[inner.pos] # ")" -> Failed
                   [] OTHER -> Read(inner.means, inner.pos + 1)
         [] OTHER -> Primitive(t, pos)

\* The rest of `a and b and ...`, and of `a or b or ...`.
MoreAnd(t, left, depth) ==
  IF ~left.ok \/ Peek(t, left.pos) # "and" THEN left
  ELSE LET right == Unary(t, left.pos + 1, depth)
       IN IF right.ok THEN MoreAnd(t, Read(left.means \cap right.means, right.pos), depth) ELSE right
AndExpr(t, pos, depth) == MoreAnd(t, Unary(t, pos, depth), depth)

MoreOr(t, left, depth) ==
  IF ~left.ok \/ Peek(t, left.pos) # "or" THEN left
  ELSE LET right == AndExpr(t, left.pos + 1, depth)
       IN IF right.ok THEN MoreOr(t, Read(left.means \cup right.means, right.pos), depth) ELSE right
\* `and` and `or` as strong as each other.
OrExpr_Flat(t, pos, depth) ==
  LET left == AndExpr(t, pos, depth)
  IN IF ~left.ok \/ Peek(t, left.pos) # "or" THEN left
     ELSE LET right == Unary(t, left.pos + 1, depth)
          IN IF right.ok
             THEN MoreAnd(t, Read(left.means \cup right.means, right.pos), depth) ELSE right

OrExpr(t, pos, depth) == MoreOr(t, AndExpr(t, pos, depth), depth)

(* parse: all tokens have to be used.                                      *)
Parse(t) ==
  IF t = <<>> THEN Short
  ELSE LET node == OrExpr(t, 1, 0)
       IN IF node.ok /\ node.pos =< Len(t) THEN Failed ELSE node

(* combine: what the helper is given for a capture of one host that also   *)
(* has an expression.                                                      *)
Combine(host, t) == <<"host", host, "and", "(">> \o t \o <<")">>

-----------------------------------------------------------------------------
Init == tokens = <<>>

\* Nothing that is added after a token the parser stumbled over can help.
MayGoOn == Parse(tokens).ok \/ Parse(tokens).short

AddToken(word) ==
  /\ Len(tokens) < MaxTokens
  /\ MayGoOn
  /\ tokens' = Append(tokens, word)

Next == \E word \in Words : AddToken(word)
Spec == Init /\ [][Next]_filterVars

-----------------------------------------------------------------------------
(* The grammar: the set of what a list of tokens can be read as, which is  *)
(* empty for one that is no expression.  `not` binds strongest, then `and`.*)
Simple(t) ==
  LET kinded == t # <<>> /\ t[1] \in Protocols /\ Len(t) > 1
      among == IF kinded THEN OfProtocol(t[1]) ELSE Packets
      rest == IF kinded THEN Tail(t) ELSE t
      directed == rest # <<>> /\ rest[1] \in Directions
      direction == IF directed THEN rest[1] ELSE None
      last == IF directed THEN Tail(rest) ELSE rest
  IN UNION {
       {OfProtocol(w) : w \in {w \in Protocols : t = <<w>>}},
       {among \cap OfHost(direction, h) : h \in {h \in HostAddresses : last = <<"host", h>>}},
       {among \cap OfPort(direction, n) : n \in {n \in PortNumbers :
          last = <<"port", n>> /\ ~(kinded /\ t[1] = "icmp")}}}

Cuts(t, word) == {i \in 2..(Len(t) - 1) : t[i] = word}
Left(t, i) == SubSeq(t, 1, i - 1)
Right(t, i) == SubSeq(t, i + 1, Len(t))

\* The last argument is how deep it may still be nested.
RECURSIVE AsOr(_, _), AsAnd(_, _), AsUnary(_, _)
AsUnary(t, deep) ==
  CASE t = <<>> \/ deep < 0 -> {}
    [] t[1] = "not" -> {Packets \ m : m \in AsUnary(Tail(t), deep - 1)}
    [] t[1] = "(" -> IF t[Len(t)] = ")" THEN AsOr(SubSeq(t, 2, Len(t) - 1), deep - 1) ELSE {}
    [] OTHER -> Simple(t)
AsAnd(t, deep) ==
  AsUnary(t, deep) \cup
    UNION {{a \cap b : a \in AsUnary(Left(t, i), deep), b \in AsAnd(Right(t, i), deep)} :
             i \in Cuts(t, "and")}
AsOr(t, deep) ==
  AsAnd(t, deep) \cup
    UNION {{a \cup b : a \in AsAnd(Left(t, i), deep), b \in AsOr(Right(t, i), deep)} :
             i \in Cuts(t, "or")}

(* The state is a list of tokens.                                          *)
TypeOK == tokens \in Seq(Words) /\ Len(tokens) =< MaxTokens

(* An expression is accepted if the grammar has a reading of it that is    *)
(* not nested too deep, and then it holds of the packets that reading      *)
(* says; all readings say the same.  Put behind a host by combine it means *)
(* the same of that host's packets, if it has a level to spare.            *)
MeansWhatItSays ==
  LET parsed == Parse(tokens)
  IN /\ AsOr(tokens, MaxDepth) = IF parsed.ok THEN {parsed.means} ELSE {}
     /\ AsOr(tokens, MaxDepth - 1) # {} =>
          \A host \in HostAddresses :
            LET both == Parse(Combine(host, tokens))
            IN both.ok /\ both.means = parsed.means \cap OfHost(None, host)
=============================================================================
