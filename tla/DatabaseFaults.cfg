SPECIFICATION Spec
CONSTANTS
    Name = {t1, t2}
    MaxTable = 3
    Faults = {"crash", "catalogOpen", "catalogWrite", "catalogClose", "directory", "tableOpen", "tableWrite", "tableClose", "segment", "remove", "rename"}
SYMMETRY Symmetry
INVARIANTS
    CatalogAgrees
    ForeignFilesAreLeftovers
    CreatedStayListed
    StoredRowsStay
    DroppedStayGone
\* A database whose catalog.meta was torn by a crash never starts again.
CHECK_DEADLOCK FALSE
