\* Packages of which one has the name of the details' directory.
CONSTANTS
    None = None
    Uploads <- Named
    Rank <- One
SPECIFICATION Spec
INVARIANTS RootListsPublished
