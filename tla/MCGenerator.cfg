CONSTANTS
    v1 = v1
    Example = Example
    Admin = Admin
    GrpcClient = GrpcClient
    Packages = {v1}
    Names = {Example, Admin}
    client_class_name = GrpcClient
    MaxService = 2
SPECIFICATION Spec
INVARIANTS
    ClientForEachService
\* the header is the end
CHECK_DEADLOCK FALSE
