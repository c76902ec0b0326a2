SPECIFICATION Spec
CONSTANTS
    Nets <- MCNets
    Ports <- MCPorts
    Outputs <- MCOutputs
    Gates <- MCGates
    Flops <- MCFlops
    MaxGates = 3
    MaxFlops = 2
    Table <- MCTable
INVARIANTS
    TypeOK
    VerdictExact
    SortKeepsOrder
    PassSettles
PROPERTIES
    ClockEdge
