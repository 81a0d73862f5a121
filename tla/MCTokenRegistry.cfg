CONSTANTS
    m1 = m1
    m2 = m2
    Mints <- MCMints
    Slots <- MCSlots
SPECIFICATION Spec
INVARIANTS TypeOK NoClobber
PROPERTIES ImplementsEarliestSlot
