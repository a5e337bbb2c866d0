------------------------------- MODULE Message -------------------------------
(***************************************************************************)
(* FormatNotification of internal/manager/message.go, in bytes.  A text is *)
(* the set of the places where it can be cut: the lengths of its prefixes  *)
(* once every character is escaped, 0 and its whole length among them.     *)
(***************************************************************************)
EXTENDS Integers, FiniteSets

CONSTANTS
  MaxMessage,  \* maxMessageBytes
  MaxName,     \* the 256 of a kind and of an actor
  MaxLink,     \* the 1200 of a target
  Ellipsis,    \* len("...")
  InBold,      \* the tags and the bell around the kind
  Dot,         \* between kind and actor
  InLink,      \* the tags and the text of the link
  Gap          \* the empty line before the content

Text == {s \in SUBSET Nat : 0 \in s /\ \E n \in s : \A m \in s : m <= n}

ASSUME MessageAssumption ==
  /\ {MaxName, MaxLink, InBold, Dot, InLink, Gap} \subseteq Nat
  /\ Ellipsis \in Nat \ {0}
  /\ MaxMessage \in Nat
  /\ InBold + MaxName + Dot + MaxName + InLink + MaxLink + Gap + Ellipsis < MaxMessage

Longest(places) == CHOOSE n \in places : \A m \in places : m <= n

EscapedBeyond(text, max) ==   \* mutant: no room is kept for the ellipsis
  IF max <= 0 THEN 0
  ELSE IF Longest(text) <= max THEN Longest(text)
  ELSE Longest({n \in text : n <= max}) + Ellipsis

\* escapeWithinBytes: how many bytes it returns.
escapeWithinBytes(text, max) ==
  IF max <= 0 \/ Longest(text) = 0 THEN 0
  ELSE IF Longest(text) <= max - Ellipsis THEN Longest(text)
  ELSE LET used == Longest({n \in text : n = 0 \/ n <= max - Ellipsis})
       IN  IF used + Ellipsis <= max THEN used + Ellipsis ELSE used

HeaderSize(kind, actor) ==
  InBold + escapeWithinBytes(kind, MaxName)
    + IF Longest(actor) = 0 THEN 0 ELSE Dot + escapeWithinBytes(actor, MaxName)

FooterUncut(target) ==   \* mutant: the link is not cut
  IF Longest(target) = 0 THEN 0 ELSE InLink + Longest(target)

FooterSize(target) ==
  IF Longest(target) = 0 THEN 0 ELSE InLink + escapeWithinBytes(target, MaxLink)

Budget(kind, actor, target) ==
  MaxMessage - HeaderSize(kind, actor) - FooterSize(target) - Gap

FormatNotification(kind, actor, content, target) ==
  HeaderSize(kind, actor) + Gap
    + escapeWithinBytes(content, Budget(kind, actor, target))
    + FooterSize(target)
=============================================================================
