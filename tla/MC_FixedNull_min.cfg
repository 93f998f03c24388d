CONSTANTS
    Vals <- MCVals
    MaxRows = 4
    Decode <- MCDecode
    Encodable <- MCEncodable
    Logical <- MCLogical
    Null = Null
    NoneV = NoneV

SPECIFICATION Spec

INVARIANT MinIsMinimumNonNull
