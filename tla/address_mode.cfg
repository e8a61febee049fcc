\* One tab of the course with two history entries. The comment of showInUrl says what
\* AddressSaysMode says; Back after a switch of version shows otherwise.
SPECIFICATION PlaceSpec
CHECK_DEADLOCK FALSE

CONSTANTS
    Places = {"a", "b"}
    FullPlaces = {"b"}
    Top = "top"
    NoPlace = "none"
    MaxEntries = 2

INVARIANT AddressSaysMode
