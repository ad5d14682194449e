--------------------------- MODULE MCConfigApply ----------------------------
(* ConfigApply for TLC: two sources, two cameras, and the edits an         *)
(* operator makes: a camera removed with the sources mapped anew, a camera *)
(* disabled, a switcher without host, a camera left without host.          *)
EXTENDS ConfigApply

CONSTANTS s1, s2, c1, c2

Both ==
  [mapping |-> [s \in {s1, s2} |-> IF s = s1 THEN c1 ELSE c2], enabled |-> {c1, c2},
   reachable |-> TRUE, creatable |-> TRUE]

OnlySecond ==
  [Both EXCEPT !.mapping = [s \in {s1, s2} |-> IF s = s1 THEN c2 ELSE NoCamera],
               !.enabled = {c2}]

FirstDisabled == [Both EXCEPT !.enabled = {c2}]
NoSwitcherHost == [OnlySecond EXCEPT !.creatable = FALSE]
NoCameraHost == [Both EXCEPT !.enabled = {c1}, !.reachable = FALSE]

GoodConfigs == {Both, OnlySecond, FirstDisabled}
AnyConfig == {Both, OnlySecond, NoSwitcherHost, NoCameraHost}
=============================================================================
