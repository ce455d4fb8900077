---------------------------- MODULE DirtyRects -----------------------------
(***************************************************************************)
(* How the sink turns the difference of two frames into rectangles: the    *)
(* tile grid, the greedy merge of dirty tiles, bounding boxes, and the     *)
(* three policies that choose what a pass sends.                           *)
(*                                                                         *)
(* A frame is a function from pixels <<x, y>> to colours, a rectangle has  *)
(* its corners included.  The policies are those of main ("bbox", one box  *)
(* and no stale refresh; "tiles") and of rect_protocol_loop ("rects").     *)
(***************************************************************************)
EXTENDS Integers, Sequences, FiniteSets, FiniteSetsExt

CONSTANTS
  Cols, Rows,    \* LCD_WIDTH, LCD_HEIGHT
  TileW, TileH,  \* TILE_W, TILE_H
  WordPixels,    \* pixels that row_diff_bounds compares in one word
  MaxRects,      \* max_rects of the policies with tiles
  StaleBudget,   \* stale_budget
  FullArea       \* FRAME_PIXELS * full_area_ratio, rounded down

ASSUME GridAssumption ==
  /\ {Cols, Rows, TileW, TileH, WordPixels, MaxRects} \subseteq Nat \ {0}
  /\ StaleBudget \in Nat /\ FullArea \in 1 .. Cols * Rows
  /\ Cols % WordPixels = 0

Pixels == (0 .. Cols - 1) \X (0 .. Rows - 1)

TilesX == (Cols + TileW - 1) \div TileW
TilesY == (Rows + TileH - 1) \div TileH
Tiles == (0 .. TilesX - 1) \X (0 .. TilesY - 1)

\* The n-th tile of a scan by rows, from 0, and its number.
TileAt(n) == <<n % TilesX, n \div TilesX>>
ScanNumber(t) == t[2] * TilesX + t[1]

Rect(x0, y0, x1, y1) == [x0 |-> x0, y0 |-> y0, x1 |-> x1, y1 |-> y1]
Full == Rect(0, 0, Cols - 1, Rows - 1)

\* Not empty, and within the panel.
OnPanel(r) ==
  /\ r \in [x0 : 0 .. Cols - 1, y0 : 0 .. Rows - 1, x1 : 0 .. Cols - 1, y1 : 0 .. Rows - 1]
  /\ r.x0 <= r.x1 /\ r.y0 <= r.y1

Width(r) == r.x1 - r.x0 + 1
Area(r) == (r.x0 .. r.x1) \X (r.y0 .. r.y1)
RectPixels(r) == Width(r) * (r.y1 - r.y0 + 1)

\* rect_from_tiles.
RectFromTiles(tx0, ty0, tx1, ty1) ==
  Rect(tx0 * TileW, ty0 * TileH,
       Min({(tx1 + 1) * TileW, Cols}) - 1, Min({(ty1 + 1) * TileH, Rows}) - 1)

TileRect(t) == RectFromTiles(t[1], t[2], t[1], t[2])

\* rect_union_into: the smallest rectangle around some.
Union(rects) ==
  Rect(Min({r.x0 : r \in rects}), Min({r.y0 : r \in rects}),
       Max({r.x1 : r \in rects}), Max({r.y1 : r \in rects}))

-----------------------------------------------------------------------------
(* Tiles.                                                                  *)

TileChanged(frame, prev, t) == \E p \in Area(TileRect(t)) : frame[p] # prev[p]

\* Mutant of RunEnd: tiles of other rectangles are taken again.
RunEndOverUsed(dirty, used, t) ==
  Max({x \in t[1] .. TilesX - 1 : \A i \in t[1] .. x : <<i, t[2]>> \in dirty})

\* The run of tiles from t to the right.
RunEnd(dirty, used, t) ==
  Max({x \in t[1] .. TilesX - 1 : \A i \in t[1] .. x : <<i, t[2]>> \in dirty \ used})

FreeBelow(dirty, used, x0, x1, y) == \A x \in x0 .. x1 : <<x, y>> \in dirty \ used

\* How far down the run from t to x1 can be continued.
RunBottom(dirty, used, t, x1) ==
  Max({y \in t[2] .. TilesY - 1 : \A j \in t[2] + 1 .. y : FreeBelow(dirty, used, t[1], x1, j)})

\* Tile t begins a rectangle unless it is clean or used: to the right as far as tiles
\* are dirty and unused, then down as long as the whole run can be continued.
TakeFrom(dirty, s, t) ==
  LET x1 == RunEnd(dirty, s.used, t)
      y1 == RunBottom(dirty, s.used, t, x1)
  IN IF t \notin dirty \ s.used THEN s
     ELSE [used |-> s.used \cup ((t[1] .. x1) \X (t[2] .. y1)),
           rects |-> Append(s.rects, RectFromTiles(t[1], t[2], x1, y1))]

\* build_tile_rects: a scan of the tiles by rows.
BuildTileRects(dirty) ==
  LET scan[n \in 0 .. TilesX * TilesY] ==
        IF n = 0 THEN [used |-> {}, rects |-> <<>>]
        ELSE TakeFrom(dirty, scan[n - 1], TileAt(n - 1))
  IN scan[TilesX * TilesY].rects

\* dirty_bbox.
DirtyBbox(dirty) ==
  LET xs == {t[1] : t \in dirty}
      ys == {t[2] : t \in dirty}
  IN RectFromTiles(Min(xs), Min(ys), Max(xs), Max(ys))

\* mark_dirty_tiles_for_rect: only the tiles that the rectangle touches are compared.
DirtyTilesIn(frame, prev, r) ==
  {t \in (r.x0 \div TileW .. r.x1 \div TileW) \X (r.y0 \div TileH .. r.y1 \div TileH) :
     TileChanged(frame, prev, t)}

\* Among the unchanged tiles that were not refreshed for stale_ms (old), the first
\* of the scan, as many as the budget allows.
StaleTiles(old, changed) ==
  LET unchanged == old \ changed
  IN {t \in unchanged :
        Cardinality({u \in unchanged : ScanNumber(u) < ScanNumber(t)}) < StaleBudget}

TilesPixels(dirty) == FoldSet(LAMBDA t, sum : sum + RectPixels(TileRect(t)), 0, dirty)

-----------------------------------------------------------------------------
(* The single box.                                                         *)

\* Mutant of RowDiffBounds: the search from the right ends at the word.
RowDiffBoundsByWord(frame, prev, y) ==
  LET Differ(x) == frame[<<x, y>>] # prev[<<x, y>>]
      words == {w \in 0 .. Cols \div WordPixels - 1 :
                  \E i \in 0 .. WordPixels - 1 : Differ(w * WordPixels + i)}
      left == Min({x \in Min(words) * WordPixels .. Cols - 1 : Differ(x)})
  IN IF words = {} THEN <<>> ELSE <<left, Max({left, Max(words) * WordPixels})>>

\* row_diff_bounds: the first and last word that differ, then the pixels in them.
RowDiffBounds(frame, prev, y) ==
  LET Differ(x) == frame[<<x, y>>] # prev[<<x, y>>]
      words == {w \in 0 .. Cols \div WordPixels - 1 :
                  \E i \in 0 .. WordPixels - 1 : Differ(w * WordPixels + i)}
      left == Min({x \in Min(words) * WordPixels .. Cols - 1 : Differ(x)})
      right == Max({x \in left .. (Max(words) + 1) * WordPixels - 1 : Differ(x)})
  IN IF words = {} THEN <<>> ELSE <<left, right>>

\* fast_dirty_bbox, as a list of no or one rectangle.
FastDirtyBbox(frame, prev) ==
  LET bounds == [y \in 0 .. Rows - 1 |-> RowDiffBounds(frame, prev, y)]
      ys == {y \in 0 .. Rows - 1 : bounds[y] # <<>>}
  IN IF ys = {} THEN <<>>
     ELSE <<Rect(Min({bounds[y][1] : y \in ys}), Min(ys),
                 Max({bounds[y][2] : y \in ys}), Max(ys))>>

-----------------------------------------------------------------------------
(* What a pass sends.                                                      *)

BboxDamage(first, frame, prev) == IF first THEN <<Full>> ELSE FastDirtyBbox(frame, prev)

\* main: all, a box, or the rectangles; a box of FullArea pixels becomes all.
TileDamage(first, frame, prev, old) ==
  LET changed == {t \in Tiles : first \/ TileChanged(frame, prev, t)}
      dirty == changed \cup StaleTiles(old, changed)
      rects == BuildTileRects(dirty)
  IN IF dirty = {} THEN <<>>
     ELSE IF first \/ TilesPixels(dirty) >= FullArea THEN <<Full>>
     ELSE IF Len(rects) <= MaxRects THEN rects
     ELSE IF RectPixels(DirtyBbox(dirty)) < FullArea THEN <<DirtyBbox(dirty)>>
     ELSE <<Full>>

\* rect_protocol_loop: only the union of the packet's rectangles is looked at.
RectDamage(first, frame, prev, packet) ==
  LET dirty == IF packet = {} THEN {} ELSE DirtyTilesIn(frame, prev, Union(packet))
      rects == BuildTileRects(dirty)
  IN IF first THEN <<Full>>
     ELSE IF dirty = {} THEN <<>>
     ELSE IF TilesPixels(dirty) >= FullArea THEN <<Full>>
     ELSE IF Len(rects) <= MaxRects THEN rects
     ELSE <<DirtyBbox(dirty)>>
=============================================================================
