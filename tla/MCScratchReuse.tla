----------------------------- MODULE MCScratchReuse -----------------------------
EXTENDS ScratchReuse

\* The first array is of a type of its own, so that a slot of all three is split.
Three == {"a", "b", "c"}
ThreeOrder == <<"a", "b", "c">>
TwoTypes == [x \in Arrays |-> IF x = "a" THEN "int" ELSE "float"]

=================================================================================
