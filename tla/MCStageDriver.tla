---------------------------- MODULE MCStageDriver ----------------------------
(* A small instance of StageDriver: two crimes, two sets of people whose evidence
   differs in its logs and in the item that names the weapon, one unfit case. *)
EXTENDS StageDriver, TLC

CONSTANTS t1, t2, p1, p2, l1, l2, w1, w2

MCTruths   == {t1, t2}
MCPeople   == {p1, p2}
MCLogs     == {l1, l2}
MCWeapons  == {w1, w2}
MCLogsOf   == p1 :> {l1} @@ p2 :> {l1, l2}
MCWeaponOf == p1 :> w1 @@ p2 :> w2
MCUnfit    == {[truth |-> t1, people |-> p1]}
================================================================================
