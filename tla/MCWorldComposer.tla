---------------------------- MODULE MCWorldComposer ----------------------------
(* A small instance of WorldComposer: a locked weapon that the catalog does not know,
   an essential object drawn like a decoration, one that the catalog only half knows,
   decoration of every kind, lists that are too long for the weapon, and names that
   are requested twice, as decoration and as essential. *)
EXTENDS WorldComposer, TLC

CONSTANTS weapon, lamp, lantern, torch, statue, rug, vase, gun, a1, a2, g1, g2

MCNames      == {weapon, lamp, lantern, torch, statue, rug, vase, gun}
MCAssets     == {a1, a2}
MCProcedural == {g1, g2}
MCMatch ==
  weapon :> "unknown" @@ lamp :> "sure" @@ lantern :> "sure" @@ torch :> "weak" @@
  statue :> "unknown" @@ rug :> "trusted" @@ vase :> "unknown" @@ gun :> "refused"
MCCatalogAsset ==
  weapon :> None @@ lamp :> a1 @@ lantern :> a1 @@ torch :> a1 @@ statue :> None @@
  rug :> a2 @@ vase :> None @@ gun :> None

Wanted(n)     == [name |-> n, required |-> TRUE, linked |-> FALSE]
Extra(n)      == [name |-> n, required |-> FALSE, linked |-> FALSE]
Evidential(n) == [name |-> n, required |-> FALSE, linked |-> TRUE]

MCAnswers ==
  {<<Wanted(weapon), Extra(statue), Extra(rug), Extra(vase)>>,
   <<Extra(weapon), Extra(rug), Extra(lamp), Wanted(lantern)>>,
   <<Evidential(lamp), Wanted(torch), Wanted(gun)>>,
   <<Extra(torch), Extra(statue), Wanted(lantern), Extra(rug)>>,
   <<Extra(rug), Extra(statue), Extra(weapon), Wanted(torch)>>,
   <<Extra(lamp), Wanted(weapon), Wanted(lamp)>>,
   <<Extra(statue), Wanted(statue), Wanted(weapon), Wanted(statue)>>,
   <<Wanted(lantern), Extra(lantern), Wanted(lamp), Wanted(weapon)>>}
================================================================================
