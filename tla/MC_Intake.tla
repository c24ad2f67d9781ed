----------------------------- MODULE MC_Intake -----------------------------
EXTENDS Intake

Plot(type, area, flaw, declared) ==
  [geometry |-> [type |-> type, area |-> area, flaw |-> flaw], declared |-> declared,
   country |-> "ID", wellFormed |-> TRUE, permit |-> None, permitNumber |-> FALSE]

\* Two plots a little above 4 ha: one is rounded to more, one to 4 ha.
Field == Plot("Polygon", 400006, None, NoArea)
Islands == Plot("MultiPolygon", 400004, None, NoArea)
Corner == Plot("Point", 0, None, 400000)
WidePoint == Plot("Point", 0, None, 500000)
Ring == Plot("Polygon", 900000, "holes", NoArea)
Speck == Plot("Polygon", 999, None, NoArea)
Pole == Plot("Point", 0, "queryInvalid", 300000)
Nameless == [Field EXCEPT !.wellFormed = FALSE]
Unnumbered == [Field EXCEPT !.permit = "hgu"]

MCSubmissions == {Islands, WidePoint, Ring, Speck, Pole, Nameless, Unnumbered}
MCFiles == {<<Field, Ring, Corner>>}

From(value, cached) == [value |-> value, cached |-> cached]
Answered(l, h, y) == [loss |-> l, hotspots |-> h, layers |-> y]
Nothing == From(0, FALSE)
MCFacts == {Answered(From(1, FALSE), From(1, FALSE), From(1, FALSE)),
            Answered(From(1, TRUE), From(1, FALSE), From(1, TRUE)),
            Answered(Nothing, From(2, FALSE), Nothing)}

Symmetry == Permutations(Clients)
=============================================================================
