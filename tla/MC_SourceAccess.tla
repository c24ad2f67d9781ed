-------------------------- MODULE MC_SourceAccess --------------------------
(***************************************************************************)
(* Instances of SourceAccess for TLC: one paged layer and one raster       *)
(* layer, pages of two rows, four rows at most, and the settings that      *)
(* differ in one thing from those of a keyed SQLite process.               *)
(***************************************************************************)
EXTENDS SourceAccess

CONSTANTS c1, c2

MCLayers        == <<"oil_palm_concessions", "forest_baseline">>
MCPaged         == {"oil_palm_concessions"}
MCIndonesiaOnly == {"oil_palm_concessions"}

Only(p)    == [c \in Callers |-> IF c = c1 THEN {p} ELSE {}]
Both(p, q) == [c \in Callers |-> IF c = c1 THEN {p} ELSE {q}]

Usual == [backend |-> "sqlite", ttl |-> 0, offline |-> FALSE, keyed |-> TRUE,
          primed |-> TRUE, country |-> "ID", verified |-> TRUE, asOf |-> 2026,
          truth |-> {2022, 2026}, rows |-> 4, faulty |-> FALSE, plans |-> Only("plot")]

(* One caller: a full last page, one row too many, a short layer in a      *)
(* memory cache; a cache that expires and fails; no credentials; offline;  *)
(* a plot abroad or of unknown country, dates before and past coverage, an *)
(* unverified release.  Two callers: the same media lookup, the same batch *)
(* job, the same plot.                                                     *)
MCConfigs ==
    {Usual,
     [Usual EXCEPT !.rows = 5],
     [Usual EXCEPT !.rows = 3, !.backend = "memory"],
     [Usual EXCEPT !.asOf = 2021, !.rows = 0, !.ttl = 1, !.faulty = TRUE],
     [Usual EXCEPT !.keyed = FALSE],
     [Usual EXCEPT !.country = "other", !.asOf = 2028, !.ttl = 1],
     [Usual EXCEPT !.country = "missing", !.rows = 0],
     [Usual EXCEPT !.verified = FALSE, !.rows = 0],
     [Usual EXCEPT !.plans = Both("media", "media"), !.ttl = 1, !.faulty = TRUE],
     [Usual EXCEPT !.plans = Both("job", "media"), !.ttl = 1],
     [Usual EXCEPT !.plans = Both("job", "job"), !.keyed = TRUE],
     [Usual EXCEPT !.plans = Both("plot", "plot"), !.country = "other", !.rows = 0,
                   !.verified = FALSE]}
=============================================================================
