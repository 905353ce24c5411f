SPECIFICATION MmuSpec
INVARIANTS
    TranslationExact
    RefusedUntouched
CHECK_DEADLOCK FALSE
