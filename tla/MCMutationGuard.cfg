SPECIFICATION Spec
CONSTANTS
    Call = {c1, c2}
    User = {u1, u2}
    ContentOp = {deleteWorkbook}
    TaskOp = {}
    AccountOp = {updateUser}
    Tag = {pendingDeletion, custom}
    DefaultTag = pendingDeletion
    McpApps = FALSE
    None = None
SYMMETRY Symmetry
INVARIANTS
    MutationsAreAudited
    NonAdminsNeverPass
