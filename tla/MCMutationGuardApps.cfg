SPECIFICATION Spec
CONSTANTS
    Call = {c1, c2, c3}
    User = {u1}
    ContentOp = {deleteWorkbook}
    TaskOp = {deleteTask}
    AccountOp = {}
    Tag = {pendingDeletion, custom}
    DefaultTag = pendingDeletion
    McpApps = TRUE
    None = None
SYMMETRY Symmetry
INVARIANTS
    OneMutationPerApproval
    NothingUnpreviewed
    GateIsSound
PROPERTIES
    ImplementsTickets
