CONSTANTS
    NoFile = NoFile
    Running = Running
    Arguments <- MCArguments
SPECIFICATION Spec
INVARIANTS
    TypeOK
    
