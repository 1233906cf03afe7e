--------------------------- MODULE MCBootSequence ---------------------------
(* Two replicas and three images: the old one, the new one that adds a file *)
(* to each source, and one that edits a file which was already shipped.     *)
EXTENDS BootSequence

File(s, k) == [source |-> s, n |-> k]
MCFiles == {File("identity", 1), File("app", 1), File("app", 2)}
MCImages == {"old", "new", "edited"}
MCPlan ==
  [i \in MCImages |->
     IF i = "new"
     THEN <<File("identity", 1), File("app", 1), File("app", 2)>>
     ELSE <<File("identity", 1), File("app", 1)>>]
MCSum ==
  [i \in MCImages |-> [f \in MCFiles |->
     IF i = "edited" /\ f = File("app", 1) THEN "y" ELSE "x"]]
MCSums == {"x", "y"}
=============================================================================
