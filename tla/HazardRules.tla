---------------------------- MODULE HazardRules -----------------------------
(***************************************************************************)
(* How dangerous an approach is called: classify_hazard of                 *)
(* src/transform/mod.rs, and the rank by which the dashboard sorts what    *)
(* was stored (src/database/dashboard.rs).  A fact is what NeoWs says of   *)
(* an approach; its numbers are integers of the units below.               *)
(***************************************************************************)
EXTENDS Integers

Facts ==
  [diameter : Int,  \* estimated_diameter_max, in hundredths of a kilometre
   velocity : Int,  \* in km/s
   miss : Int,      \* miss distance, in hundredths of an astronomical unit
   pha : BOOLEAN]   \* NASA calls it potentially hazardous

Class == {"Critical", "High", "Medium", "Low"}

\* The first rule that applies.
Classify(f) ==
  IF f.pha /\ f.miss < 5 THEN "Critical"
  ELSE IF f.diameter > 50 \/ (f.velocity > 20 /\ f.miss < 10) THEN "High"
  ELSE IF f.diameter > 10 \/ f.velocity > 10 THEN "Medium"
  ELSE "Low"

\* Mutant: the classes in the order of their names.
BugSeverity(class) ==
  CASE class = "Critical" -> 1 [] class = "High" -> 2 [] class = "Medium" -> 4 [] OTHER -> 3

Severity(class) ==
  CASE class = "Critical" -> 4 [] class = "High" -> 3 [] class = "Medium" -> 2 [] OTHER -> 1

\* f is at least as dangerous as g, whatever one looks at.
Outranks(f, g) ==
  /\ f.diameter >= g.diameter
  /\ f.velocity >= g.velocity
  /\ f.miss <= g.miss
  /\ g.pha => f.pha
=============================================================================
