-------------------------------- MODULE MCPlan --------------------------------
EXTENDS Plan
MCContent == [s \in Source |-> CASE s = "inventory" -> [Nodes -> Inst \cup {0}]
                                 [] s = "table" -> Nodes
                                 [] OTHER -> {0, 1}]
=============================================================================
