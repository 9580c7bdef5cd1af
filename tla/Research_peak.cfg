SPECIFICATION ResearchSpec
SYMMETRY Alike
CHECK_DEADLOCK FALSE
CONSTANTS
    m1 = m1
    m2 = m2
    m3 = m3
    fam = fam
    None = None
    Models = {m1, m2, m3}
    Families = {fam}
    FamilyOf <- Family
    Parents <- Lineage
    DirectCrowning = FALSE
INVARIANTS
    PeakIsTrailing
