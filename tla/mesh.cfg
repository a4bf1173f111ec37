CONSTANTS
    Name <- InterfaceName
    NodeIds = {0, 1, 2}
    ElementIds = {0, 1, 2}
    ElementTypes = {5}
    MaxConn = 2
SPECIFICATION Spec
INVARIANTS
    TypeOK
    ElementsReferToNodes

    
