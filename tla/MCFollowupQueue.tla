------------------------- MODULE MCFollowupQueue -------------------------
(* Four messages, of which the last repeats the first, and one other route. *)
EXTENDS FollowupQueue

MCIdOf == [m \in Messages |-> IF m = 4 THEN 1 ELSE m]
MCRouteOf == [m \in Messages |-> IF m = 2 THEN "thread" ELSE "direct"]
Set(mode, policy, cap) == [mode |-> mode, policy |-> policy, cap |-> cap]
\* The settings stay, or change after the second message.
Plan(first, last) == [m \in Messages |-> IF m <= 2 THEN first ELSE last]
MCPlans ==
  {Plan(s, s) : s \in {Set("collect", "summarize", 2), Set("followup", "summarize", 2),
                       Set("followup", "summarize", 1), Set("collect", "new", 1)}}
    \cup {Plan(Set("collect", "summarize", 2), Set("followup", "summarize", 2)),
          Plan(Set("collect", "summarize", 1), Set("collect", "old", 2))}
===========================================================================
