-------------------------------- MODULE Ranking --------------------------------
(***************************************************************************)
(* What one retrieval computes from what its generators found              *)
(* (em/retrieval/fusion.py, gate.py, diversity.py, packer.py): weighted    *)
(* reciprocal ranks, the rerank, the gate, one row for a text, the order   *)
(* of diversity, the packing of the block.                                 *)
(*                                                                         *)
(* All arithmetic is exact.  A share of a generator is counted in          *)
(* (tenths of its weight) / Common, a feature in tenths, and a score times *)
(* 1000 * Denominator, which is the same for every hit of a query.  A text *)
(* is the set of its words, a body and a loop are the tokens they cost.    *)
(* An age is in half-lives of the row's decay class.                       *)
(***************************************************************************)
EXTENDS Integers, FiniteSets, SequencesExt

CONSTANTS
    Hits,        \* numbers, so that ids are ordered
    Generators,
    Weight,      \* of each generator, in tenths
    Depth,       \* bound: hits a generator returns
    Rows,        \* the rows a hit may have
    Terms,       \* words of the query
    Top,         \* MMR_TOP
    Budget

RankingConstants ==
    /\ Hits \subseteq Nat /\ Depth \in Nat \ {0} /\ Top \in Nat \ {0} /\ Budget \in Nat
    /\ Weight \in [Generators -> Nat]
    /\ "entity" \in Generators

VARIABLES
    found,   \* generator -> its hits, best first
    row,     \* hit -> its row
    stage,
    order    \* the hits, then the items, as the last stage left them

rankingVars == <<found, row, stage, order>>
given       == <<found, row>>

Lists == UNION {[1..n -> Hits] : n \in 0..Depth}

Init ==
    /\ found \in [Generators -> Lists]
    /\ row \in [Hits -> Rows]
    /\ stage = "found"
    /\ order = <<>>

(* Every variable has its type, and no hit is ranked twice.                *)
TypeOK ==
    /\ stage \in {"found", "ranked", "gated", "collapsed", "diverse", "packed"}
    /\ stage # "packed" => order \in Seq(Hits) /\ IsInjective(order)
-----------------------------------------------------------------------------
(* Fusion.                                                                 *)

Common == FoldLeft(LAMBDA n, place : n * (60 + place), 1, [p \in 1..Depth |-> p])

Raised(g) == Range(found[g])
Place(g, h) == CHOOSE p \in DOMAIN found[g] :
                  found[g][p] = h /\ \A q \in DOMAIN found[g] : found[g][q] = h => p <= q

(* Variant: a repeated hit counts at each of its places.                   *)
ShareRepeated(g, h) ==
    Weight[g] * FoldSet(LAMBDA p, sum : sum + Common \div (60 + p), 0,
                        {p \in DOMAIN found[g] : found[g][p] = h})

(* A repeated hit counts once, at its best place.                          *)
Share(g, h) == IF h \in Raised(g) THEN Weight[g] * (Common \div (60 + Place(g, h))) ELSE 0
Fullest(g)  == Weight[g] * (Common \div 61)

(* The generators that returned a candidate.                               *)
Active      == {g \in Generators : found[g] # <<>>}
Denominator == FoldSet(LAMBDA g, sum : sum + Fullest(g), 0, Active)

Fused(h) == FoldSet(LAMBDA g, sum : sum + Share(g, h), 0, Generators)
-----------------------------------------------------------------------------
(* The rerank.                                                             *)

Larger(a, b) == IF a > b THEN a ELSE b
Clamp(v)     == IF v < 0 THEN 0 ELSE IF v > 10 THEN 10 ELSE v

Recency(r) ==
    LET faded == 10 \div 2^r.age
    IN  IF r.decay = "evergreen" \/ r.pinned THEN 10
        ELSE IF r.decay = "volatile" THEN faded ELSE Larger(5, faded)

Feedback(r) == Clamp(5 + r.helpful - 2 * r.unhelpful)

Score(h) ==
    LET r == row[h]
    IN  600 * Fused(h)
        + Denominator * (15 * r.importance + 10 * Recency(r) + 10 * r.confidence + 5 * Feedback(r))

Ahead(a, b) ==
    \/ Score(a) > Score(b)
    \/ Score(a) = Score(b) /\ row[a].updated > row[b].updated
    \/ Score(a) = Score(b) /\ row[a].updated = row[b].updated /\ a < b

Candidates == UNION {Raised(g) : g \in Generators}

Rank ==
    /\ stage = "found" /\ stage' = "ranked"
    /\ order' = SetToSortSeq(Candidates, Ahead)
    /\ UNCHANGED given
-----------------------------------------------------------------------------
(* The gate.                                                               *)

Enforced(h)  == row[h].pinned \/ row[h].kind = "constraint"
Covers(h)    == 100 * Cardinality(Terms \cap row[h].text) >= 34 * Cardinality(Terms)
Supported(h) == (Terms # {} /\ Covers(h)) \/ h \in Raised("entity")
Passes(h)    == Enforced(h) \/ (Supported(h) /\ Score(h) >= 300 * Denominator)

Gate ==
    /\ stage = "ranked" /\ stage' = "gated"
    /\ order' = SelectSeq(order, Passes)
    /\ UNCHANGED given
-----------------------------------------------------------------------------
(* Collapse and diversity.                                                 *)

(* Of the hits with one text the narrower stays, then the better ranked.   *)
Kept(s, i) ==
    \A j \in DOMAIN s \ {i} :
        row[s[j]].text = row[s[i]].text /\ row[s[i]].text # {} =>
            IF row[s[j]].narrow = row[s[i]].narrow THEN i < j ELSE row[s[i]].narrow

Collapse ==
    /\ stage = "gated" /\ stage' = "collapsed"
    /\ order' = [n \in 1..Cardinality({i \in DOMAIN order : Kept(order, i)}) |->
                    order[SetToSortSeq({i \in DOMAIN order : Kept(order, i)}, <)[n]]]
    /\ UNCHANGED given

(* Jaccard's likeness in halves; unions of more than two words are not in  *)
(* the instance.                                                           *)
Alike(a, b) ==
    LET s == row[a].text  t == row[b].text
    IN  IF s = {} \/ t = {} THEN 0
        ELSE (2 * Cardinality(s \cap t)) \div Cardinality(s \cup t)

Redundancy(h, chosen) ==
    FoldLeft(LAMBDA most, c : Larger(most, Alike(h, c)), 0, chosen)

(* 0.7 of the score less 0.3 of the redundancy.                            *)
Margin(h, chosen) == 14 * Score(h) - 3000 * Denominator * Redundancy(h, chosen)

(* The first of those with the largest margin.                             *)
Pick(head, chosen) ==
    LET left == SelectSeq(head, LAMBDA h : h \notin Range(chosen))
        i == CHOOSE i \in DOMAIN left : \A j \in DOMAIN left :
                \/ Margin(left[i], chosen) > Margin(left[j], chosen)
                \/ Margin(left[i], chosen) = Margin(left[j], chosen) /\ i <= j
    IN  left[i]

Mmr(s) ==
    LET n == IF Len(s) < Top THEN Len(s) ELSE Top
        head == SubSeq(s, 1, n)
        chosen[k \in 1..n] ==
            IF k = 1 THEN <<s[1]>> ELSE Append(chosen[k-1], Pick(head, chosen[k-1]))
    IN  IF Len(s) <= 1 THEN s ELSE chosen[n] \o SubSeq(s, n + 1, Len(s))

Diversify ==
    /\ stage = "collapsed" /\ stage' = "diverse"
    /\ order' = Mmr(order)
    /\ UNCHANGED given
-----------------------------------------------------------------------------
(* The packing.                                                            *)

(* An episode with open loops yields an item for each, of a score that is  *)
(* lower by less than any two others differ.                               *)
Item(h)     == [hit |-> h, loop |-> 0, bodies |-> row[h].bodies]
Loop(h, n)  == [hit |-> h, loop |-> n, bodies |-> <<row[h].loops[n]>>]
ItemsOf(h)  == {Item(h)} \cup {Loop(h, n) : n \in DOMAIN row[h].loops}

Before(i, j) ==
    LET a == i.hit  b == j.hit
    IN  IF Score(a) # Score(b) THEN Score(a) > Score(b)
        ELSE IF (i.loop = 0) # (j.loop = 0) THEN i.loop = 0
        ELSE IF a # b THEN a < b
        ELSE i.loop < j.loop

Section(i) ==
    IF i.loop > 0 THEN "loops"
    ELSE IF row[i.hit].kind = "episode" THEN "episodes"
    ELSE IF row[i.hit].kind = "constraint" THEN "constraints"
    ELSE "memories"

(* The block costs a token for its title and for each section's heading,   *)
(* and its bodies.                                                         *)
Cost(block) ==
    IF block = <<>> THEN 0
    ELSE 1 + Cardinality({Section(c.item) : c \in Range(block)})
           + FoldLeft(LAMBDA sum, c : sum + c.body, 0, block)

(* In full if it fits, as its summary if that does, or not at all.         *)
Packed(block, item) ==
    LET fits == {n \in DOMAIN item.bodies :
                    Cost(Append(block, [item |-> item, body |-> item.bodies[n]])) <= Budget}
    IN  IF fits = {} THEN block
        ELSE Append(block, [item |-> item,
                            body |-> item.bodies[CHOOSE n \in fits : \A k \in fits : n <= k]])

Pack ==
    /\ stage = "diverse" /\ stage' = "packed"
    /\ order' = FoldLeft(Packed, <<>>,
                    SetToSortSeq(UNION {ItemsOf(h) : h \in Range(order)}, Before))
    /\ UNCHANGED given

Next == Rank \/ Gate \/ Collapse \/ Diversify \/ Pack

Spec == Init /\ [][Next]_rankingVars
-----------------------------------------------------------------------------
(* Properties.                                                             *)

(* Every generator that has b has a, no further down, and a's features are *)
(* no worse.                                                               *)
NoWorse(a, b) ==
    LET r == row[a]  s == row[b]
    IN  /\ \A g \in Generators :
              b \in Raised(g) => a \in Raised(g) /\ Place(g, a) <= Place(g, b)
        /\ r.importance >= s.importance /\ r.confidence >= s.confidence
        /\ r.helpful >= s.helpful /\ r.unhelpful <= s.unhelpful
        /\ r.pinned \/ r.decay = "evergreen" \/ (r.decay = s.decay /\ r.age <= s.age /\ ~s.pinned)

NearerTop(a, b) ==
    \E g \in Generators : Weight[g] > 0 /\ a \in Raised(g)
                           /\ (b \in Raised(g) => Place(g, a) < Place(g, b))

Comes(a, b) == \A i, j \in DOMAIN order : order[i] = a /\ order[j] = b => i < j

(* A hit that is nowhere worse than another is ranked before it when it is *)
(* found further up somewhere, or was written later; and no sum of ranks   *)
(* exceeds that of a hit every generator puts first, so that a score keeps *)
(* its meaning from one query to the next ("what makes the number          *)
(* comparable across queries", fusion.py).                                 *)
BetterIsFirst ==
    stage = "ranked" =>
        /\ \A h \in Candidates : Fused(h) <= Denominator
        /\ \A a, b \in Range(order) :
              /\ a # b /\ NoWorse(a, b)
              /\ NearerTop(a, b) \/ row[a].updated > row[b].updated
              => Comes(a, b)

(* A block keeps to its budget, says nothing twice, and leaves out nothing *)
(* that was found, supported and still fits: no stage between the          *)
(* generators and the block loses a hit.                                   *)
SameText(a, b) == a = b \/ (row[a].text = row[b].text /\ row[a].text # {})
InBlock(h)     == \E c \in Range(order) : c.item = Item(h)

BlockIsFull ==
    stage = "packed" =>
        /\ Cost(order) <= Budget
        /\ \A a, b \in Candidates : InBlock(a) /\ InBlock(b) /\ SameText(a, b) => a = b
        /\ \A h \in Candidates : Passes(h) =>
              \E w \in Candidates :
                  /\ SameText(w, h) /\ Passes(w)
                  /\ \/ InBlock(w)
                     \/ \A body \in Range(row[w].bodies) :
                           Cost(Append(order, [item |-> Item(w), body |-> body])) > Budget

(* Expected, and refuted: an open loop is only told beside its episode ("a *)
(* tight budget keeps the episode and drops the loop", load_pack_items).   *)
LoopWithItsEpisode ==
    stage = "packed" => \A c \in Range(order) : InBlock(c.item.hit)

(* Expected, and refuted: of hits that cost the same, the block takes them *)
(* in the order of diversity ("survivors, collapse, MMR diversity, token   *)
(* packer", diversity.py); the packer sorts by score again.                *)
DiverseFirst ==
    [][ stage = "diverse" =>
          \A i, j \in DOMAIN order :
             /\ i < j /\ row[order[i]].bodies = row[order[j]].bodies
             /\ row[order[i]].kind = row[order[j]].kind
             /\ \E c \in Range(order') : c.item = Item(order[j])
             => \E c \in Range(order') : c.item = Item(order[i]) ]_rankingVars
=============================================================================
