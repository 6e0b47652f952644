----------------------------- MODULE TimeIntervals -----------------------------
(* Exact time algebra of the solvers (time_interval.py): a set of integer ticks is held
   as a sorted sequence of half-open intervals that neither overlap nor touch. *)
EXTENDS Integers, Sequences, FiniteSets, SequencesExt

Iv(lo, hi)  == [lo |-> lo, hi |-> hi]
Earlier(a, b) == a.lo < b.lo \/ (a.lo = b.lo /\ a.hi < b.hi)
Later(i, j)   == IF i > j THEN i ELSE j
Sooner(i, j)  == IF i < j THEN i ELSE j

Latest(ivs) == CHOOSE iv \in ivs : \A other \in ivs : other = iv \/ Earlier(other, iv)

(* An interval that begins inside the last one, or where it ends, makes it longer. *)
Merge(iv, merged) ==
  IF merged = <<>> \/ iv.lo > Last(merged).hi
  THEN Append(merged, iv)
  ELSE [merged EXCEPT ![Len(merged)].hi = Later(@, iv.hi)]

(* The intervals that are not empty, merged from the earliest on. *)
Normalized(ivs) ==
  MapThenFoldSet(Merge, <<>>, LAMBDA iv : iv, Latest, {iv \in ivs : iv.hi > iv.lo})

Overlap(x, y) == Iv(Later(x.lo, y.lo), Sooner(x.hi, y.hi))

(* The walk advances in the set whose interval ends first. *)
Advance(a, b, walk) ==
  IF walk.i > Len(a) \/ walk.j > Len(b) THEN walk
  ELSE LET first == a[walk.i].hi < b[walk.j].hi
       IN [out |-> walk.out \cup {Overlap(a[walk.i], b[walk.j])},
           i   |-> IF first THEN walk.i + 1 ELSE walk.i,
           j   |-> IF first THEN walk.j ELSE walk.j + 1]

Intersection(a, b) ==
  LET Walk[n \in 0 .. Len(a) + Len(b)] ==
        IF n = 0 THEN [out |-> {}, i |-> 1, j |-> 1] ELSE Advance(a, b, Walk[n - 1])
  IN Normalized(Walk[Len(a) + Len(b)].out)

DifferenceOfFirst(a, b) ==           \* mutant: the first cut only
  LET Pieces(iv) ==
        IF b = <<>> \/ b[1].hi <= iv.lo \/ b[1].lo >= iv.hi THEN {iv}
        ELSE {Iv(iv.lo, b[1].lo), Iv(b[1].hi, iv.hi)}
  IN Normalized(UNION {Pieces(a[k]) : k \in DOMAIN a})

(* Of an interval the piece before a cut is kept, and the rest is cut on. *)
Cut(cutting, by) ==
  IF by.hi <= cutting.rest.lo \/ by.lo >= cutting.rest.hi THEN cutting
  ELSE [kept |-> cutting.kept \cup {Iv(cutting.rest.lo, by.lo)},
        rest |-> Iv(by.hi, cutting.rest.hi)]

Pieces(iv, b) ==
  LET end == FoldLeft(Cut, [kept |-> {}, rest |-> iv], b)
  IN end.kept \cup {end.rest}

Difference(a, b) == Normalized(UNION {Pieces(a[k], b) : k \in DOMAIN a})

HoldsTick(set, tick) == \E k \in DOMAIN set : set[k].lo <= tick /\ tick < set[k].hi
================================================================================
