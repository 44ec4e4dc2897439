------------------------ MODULE MCPanelAccessCutover ------------------------
\* Instances of PanelAccessCutover for TLC.
EXTENDS PanelAccessCutover

CONSTANTS o1, o2, tm
=============================================================================
