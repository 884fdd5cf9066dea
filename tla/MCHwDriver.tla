----------------------------- MODULE MCHwDriver -----------------------------
(* Small instances of the hardware scaler for TLC. *)
EXTENDS HwDriver

\* The part of an image from its second line and third column on.
PartOf(widths, heights, xScales, yScales) ==
  [x : {2}, y : {1}, width : widths, height : heights, xScale : xScales, yScale : yScales]

\* Parts that go backwards over columns, lines or both, and parts without pixels.
MCBackwards ==
  PartOf({-2}, {-2, 2}, {-2, 1}, {1}) \union PartOf({2}, {-2}, {1}, {-2, 1})
    \union PartOf({4}, {-1}, {1}, {1}) \union PartOf({0}, {2}, {1}, {1})
    \union PartOf({2}, {0}, {1}, {1})

\* Every remainder of the downscaling factors, a destination that fills the
\* pool, and images that are too wide and too high, in any order.
MCJobs ==
  PartOf({2}, {1, 2, 3}, {-3, -2, 2}, {-3, -2, 1}) \union PartOf({1, 3}, {1, 2}, {-2}, {2})
    \union PartOf({1}, {3}, {1}, {4}) \union PartOf({1, 4}, {4}, {1}, {1})
    \union MCBackwards

\* Jobs to follow each other after an error.
MCSequences == PartOf({1, 4}, {1}, {1}, {1})

\* Parts that prepareCommand lets through, of no width, of no height, and those that
\* go backwards over their columns or lines.
MCEmpty ==
  PartOf({0}, {2}, {1}, {1, -2}) \union PartOf({2}, {-2, 0, 2}, {1}, {1, -2})
    \union PartOf({-2}, {2}, {-2}, {1})
=============================================================================
