----------------------------- MODULE MCFeedIds -----------------------------
(***************************************************************************)
(* FeedIds with three sources.  The first run finds nothing, or two that   *)
(* are linked; the second whatever there may be, with its links in every   *)
(* order; the third the same with the links in some order; the last what   *)
(* has come apart.  The first hash of {2, 3} is also that of {1}, and that *)
(* of {1, 2, 3} that of {2}: an id may have to be minted at the second     *)
(* attempt.                                                                *)
(***************************************************************************)
EXTENDS FeedIds

MCRuns == 4
MCSources == 1 .. 3
MCGroups == (SUBSET MCSources) \ {{}}

Pairs(present) == {{s, t} : s, t \in present} \ {{s} : s \in present}
Linked(p) == {[present |-> p, links |-> SetToSeq(ls)] : ls \in SUBSET Pairs(p)}
Unlinked(p) == [present |-> p, links |-> <<>>]
InAnyOrder(p) ==
    UNION {{[present |-> p, links |-> l] : l \in SetToSeqs(ls)} :
           ls \in SUBSET Pairs(p)}

MCCatalogs ==
    LET any == UNION {Linked(p) : p \in SUBSET MCSources}
    IN  <<{Unlinked({}), [present |-> {1, 2}, links |-> <<{1, 2}>>]},
          any \cup InAnyOrder(MCSources),
          any,
          {Unlinked(p) : p \in {q \in SUBSET MCSources : Cardinality(q) > 1}}>>

Sum(g) == (IF 1 \in g THEN 1 ELSE 0) + (IF 2 \in g THEN 2 ELSE 0)
            + (IF 3 \in g THEN 4 ELSE 0)
MCAttempts == 0 .. 2
MCHash == [x \in MCGroups \X MCAttempts |->
            IF x[2] = 0 THEN Sum(x[1]) % 5 ELSE Sum(x[1]) + 7 * x[2]]
=============================================================================
