CONSTANTS
    Capacity = 3
    Depth = 2
    Printable <- MCPrintable
    Unprintable <- MCUnprintable
    Prompt = "mini-os> "
SPECIFICATION Spec
INVARIANTS
    ScreenShowsLine
PROPERTIES
    RefinesEditor
