CONSTANTS
    Vals <- MCVals
    MaxRows = 4
    Decode <- MCDecode
    Encodable <- MCEncodable
    Logical <- MCLogical
    Null = Null
    NoneV = NoneV

SPECIFICATION Spec

INVARIANT TypeOK
INVARIANT ScansMatchReference
INVARIANT AggregatesMatchReference
INVARIANT MaxIsMaximumNonNull
