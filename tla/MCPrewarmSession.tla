-------------------------- MODULE MCPrewarmSession --------------------------
(* Three fonts: 2 owns the double-byte role of the group, 1 is an alias    *)
(* with a profile of its own, 3 an alias with the profile of its owner.    *)
EXTENDS PrewarmSession

MCFonts == 1..3
MCOwner == [f \in MCFonts |-> 2]
MCProfile == [f \in MCFonts |-> IF f = 1 THEN "narrow" ELSE "wide"]
=============================================================================
