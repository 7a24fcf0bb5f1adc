SPECIFICATION Spec
INVARIANTS PacketsWhole
