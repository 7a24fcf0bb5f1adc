SPECIFICATION Spec
INVARIANTS ResultReturned
