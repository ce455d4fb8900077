------------------------- MODULE MCTouchCalibration -------------------------
EXTENDS TouchCalibration

\* Every way to mount a panel, one whose readings use the whole range of the
\* converter, a narrow one, and presses around the floor.
MCMounts ==
  [swap : BOOLEAN, ix : BOOLEAN, iy : BOOLEAN, xlo : {0, 31}, xhi : {255}, ylo : {18},
   yhi : {220, 255}, light : {6, 8, 30}, firm : {60}]

\* Identity, mirrored, turned, and shrunk to the middle.
MCAffines ==
  {<<4, 0, 0, 0, 4, 0>>, <<-4, 0, 4, 0, 4, 0>>, <<0, 4, 0, -4, 0, 4>>, <<2, 0, 1, 0, 2, 1>>}
=============================================================================
