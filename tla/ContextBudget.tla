---------------------------- MODULE ContextBudget ----------------------------
(***************************************************************************)
(* The last stage of the retrieval strategist: sections of known sizes are *)
(* packed into a number of bytes.  Directive and core memory go in whole   *)
(* and first; each other section then gets a share by its weight of what   *)
(* is left, and is cut down to it.  A section costs its heading, with the  *)
(* blank line before it, and its body; a cut body ends in a notice.        *)
(* The size of headings and notices is taken for constant.                 *)
(***************************************************************************)
EXTENDS Integers, Sequences

CONSTANTS Heading, Notice   \* bytes

ASSUME BytesAssumption == Heading \in Nat /\ Notice \in Nat

\* The sections without a weight are not negotiable.
Weight(type) ==
  CASE type = "entities"            -> 2
    [] type = "recall"              -> 3
    [] type \in {"recent", "notes"} -> 1
    [] OTHER                        -> 0

\* A section: what it is, the bytes of its body, and its weight.
Section(type, size) == [type |-> type, size |-> size, weight |-> Weight(type)]

Firm(s) == s.weight = 0

NotBelowZero(n) == IF n < 0 THEN 0 ELSE n

\* An empty section does not compete.  (In the sums below, before[i] is what the
\* sections before the i-th come to.)
Negotiable(s) == ~Firm(s) /\ s.size > 0

TotalWeight(sections) ==
  LET before[i \in 1 .. Len(sections) + 1] ==
        IF i = 1 THEN 0
        ELSE before[i - 1]
             + (IF Negotiable(sections[i - 1]) THEN sections[i - 1].weight ELSE 0)
  IN  before[Len(sections) + 1]

Share(s, remaining, total) == (remaining * s.weight) \div total

\* Variant: the heading is not counted.
BodyAlone(share) == share

BodyBudget(share) == NotBelowZero(share - Heading)

\* The body that is packed: whole if it fits, else cut, with a notice.
PackedSize(s, share) ==
  IF s.size <= BodyBudget(share) THEN s.size
    ELSE NotBelowZero(BodyBudget(share) - Notice) + Notice

\* One negotiable section more.  `roomy' says whether its share could hold a
\* heading and a notice.
Pack(b, s, total) ==
  IF b.remaining <= 0 THEN b
  ELSE LET share == Share(s, b.remaining, total)
           cost  == Heading + PackedSize(s, share)
       IN  [b EXCEPT !.remaining = @ - cost, !.used = @ + cost,
                     !.roomy = @ /\ share >= Heading + Notice]

FirmBytes(sections) ==
  LET before[i \in 1 .. Len(sections) + 1] ==
        IF i = 1 THEN 0
        ELSE before[i - 1]
             + (IF Firm(sections[i - 1]) THEN Heading + sections[i - 1].size ELSE 0)
  IN  before[Len(sections) + 1]

\* allocateBudget: the bytes used, and whether there was room for everything
\* that may not be left out.
AllocateBudget(sections, maxBytes) ==
  LET firm  == FirmBytes(sections)
      total == TotalWeight(sections)
      before[i \in 1 .. Len(sections) + 1] ==
        IF i = 1
        THEN [used |-> firm, remaining |-> NotBelowZero(maxBytes - firm), roomy |-> firm <= maxBytes]
        ELSE IF Negotiable(sections[i - 1])
             THEN Pack(before[i - 1], sections[i - 1], total)
             ELSE before[i - 1]
  IN  before[Len(sections) + 1]
==============================================================================
