------------------------------ MODULE MCEngine ------------------------------
(* Small profiles for model checking Engine.                               *)
EXTENDS Engine

Bind(kind, triggers, group) == [kind |-> kind, triggers |-> triggers, group |-> group]

(* A shooter: walk on W, S and D, fire on the left button, aim without a   *)
(* toggle.                                                                 *)
FpsNames == {"aim", "fire", "walk"}
FpsTriggers == {"W", "S", "D", "ML"}
FpsProfile ==
  [n \in FpsNames |->
     CASE n = "aim"  -> Bind("aim", {}, NoGroup)
       [] n = "fire" -> Bind("tap", {"ML"}, NoGroup)
       [] n = "walk" -> Bind("joystick", {"W", "S", "D"}, NoGroup)]
FpsDir == [t \in FpsTriggers |->
  CASE t = "W" -> "up" [] t = "S" -> "down" [] t = "D" -> "right" [] OTHER -> "none"]

(* A runner: two swipes of one group, a tap on the wheel.                  *)
RunNames == {"left", "right", "use"}
RunTriggers == {"A", "ML", "WU"}
RunProfile ==
  [n \in RunNames |->
     CASE n = "left"  -> Bind("swipe", {"A"}, "g")
       [] n = "right" -> Bind("swipe", {"ML"}, "g")
       [] n = "use"   -> Bind("toggle", {"WU"}, NoGroup)]

(* Aim behind a toggle, with a tap that competes for the pool and a swipe. *)
ScopeNames == {"aim", "fire", "roll"}
ScopeTriggers == {"MR", "ML", "Q"}
ScopeProfile ==
  [n \in ScopeNames |->
     CASE n = "aim"  -> Bind("aim", {"MR"}, NoGroup)
       [] n = "fire" -> Bind("tap", {"ML"}, NoGroup)
       [] n = "roll" -> Bind("swipe", {"Q"}, NoGroup)]
ScopeDir == [t \in ScopeTriggers |-> "none"]

(* The runner with an aim behind a toggle.                                 *)
GearNames == RunNames \cup {"aim"}
GearTriggers == RunTriggers \cup {"MR"}
GearProfile ==
  [n \in GearNames |-> IF n = "aim" THEN Bind("aim", {"MR"}, NoGroup) ELSE RunProfile[n]]
GearDir == [t \in GearTriggers |-> "none"]

GearKeys == GearNames \cup {SecondKey}
FpsKeys == FpsNames \cup {SecondKey}
ScopeKeys == ScopeNames \cup {SecondKey}
=============================================================================
