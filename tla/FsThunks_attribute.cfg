SPECIFICATION Spec
CONSTANTS
    Entries = {"FILEATTRIBUTE"}
    PagingEntries = {"DOPAGEIO"}
    MaxDepth = 2
INVARIANT CallIsTransparent
