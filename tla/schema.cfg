SPECIFICATION Spec
INVARIANT StopsOnlyWhere
INVARIANT SameSchema
INVARIANT ServesTheCode
