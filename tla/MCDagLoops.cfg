\* 4 ids, 4096 graphs: a diamond, a chain as long as the ids and a cycle beside
\* an acyclic part are all among them.
SPECIFICATION Spec
CONSTANT Ids = {"a", "b", "c", "d"}
INVARIANTS ValidationExact DescendantsExact ClosureExact LayersExact
PROPERTY LoopsEnd
CHECK_DEADLOCK FALSE
