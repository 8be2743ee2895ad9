SPECIFICATION Spec
CONSTANTS
    Cols = 3
    Height = 3
    Prompt <- MCPrompt
    Texts <- MCTexts
    Residues <- MCResidues
    MaxEvents = 5
INVARIANTS
    TypeOK
    StatusKept
    ShowsTail
    PromptKept
    NoFaultAtPrompt
