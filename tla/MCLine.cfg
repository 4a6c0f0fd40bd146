SPECIFICATION Spec

CONSTANTS
    Text = {"x", "~"}
    Size = 4
    Depth = 2

INVARIANT
    EditorSafe

PROPERTY
    LineIsText
