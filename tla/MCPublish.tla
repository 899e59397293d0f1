----------------------------- MODULE MCPublish -----------------------------
(***************************************************************************)
(* Publish on a small calendar.  Weeks are three days long and months      *)
(* four, so that a week can straddle two months as ISO weeks do.           *)
(***************************************************************************)
EXTENDS Publish

MCWeekOf == [d \in Days |-> (d + 1) \div 3]
MCMonthOf == [d \in Days |-> d \div 4]

NoRuns == {}
AllButLast == Runs \ {MaxRuns}
Second == {2}
=============================================================================
