--------------------------- MODULE MCPanelWriter ---------------------------
EXTENDS PanelWriter

\* A corner, both edges, three tiles on a diagonal, three that touch, and all pixels.
MCChanges ==
  {{}, {<<5, 4>>}, {<<0, 0>>, <<3, 1>>}, {<<1, 0>>, <<5, 1>>, <<2, 3>>},
   {<<3, 0>>, <<0, 2>>, <<2, 3>>}, Pixels}

MCItems == {Full, Rect(0, 0, 3, 1), Rect(1, 2, 5, 4)}
=============================================================================
