---------------------------- MODULE MCScalerApp ----------------------------
(* Small instances of the program for TLC. *)
EXTENDS ScalerApp

\* A part typed in, with every kind of start and end, up to where int ends.
Typed(xs, ws, hs, xScales) ==
  [benchmark : {FALSE}, xScale : xScales, yScale : {-2, 1}, x : xs, y : {-1, 1}, w : ws, h : hs]

Benchmarking ==
  [benchmark : {TRUE}, xScale : {0}, yScale : {0}, x : {-1}, y : {-1}, w : {-1}, h : {-1}]

\* A part that starts at the end of a line or a column of four pixels, and goes
\* backwards from there, ends there, or goes on.
AtTheEnd ==
  [benchmark : {FALSE}, xScale : {-2, 1}, yScale : {1}, x : {3}, y : {-1}, w : {-2, 1, 2}, h : {-1}]
    \union [benchmark : {FALSE}, xScale : {1}, yScale : {-2, 1}, x : {-1}, y : {3}, w : {-1},
            h : {-2, 1, 2}]

\* All of an image, enlarged up to a size that is no int.
Enlarged ==
  [benchmark : {FALSE}, xScale : {1, 4}, yScale : {1, 4}, x : {-1}, y : {-1}, w : {-1}, h : {-1}]

MCCommands ==
  Typed({-32, -2, -1, 0, 1, 2, 31}, {-32, -3, -1, 0, 1, 2, 29, 31}, {-1, 0, 1}, {-3, 2, 0, 5})
    \union AtTheEnd \union Enlarged \union Benchmarking

\* Images that fit, that do not, also because their size overflows, and files that
\* are broken off.
MCFiles ==
  [opens : {TRUE}, header : {2}, width : {2}, height : {1}, whole : BOOLEAN]
    \union [opens : {TRUE}, header : {2}, width : {3}, height : {1}, whole : {TRUE}]
    \union [opens : {TRUE}, header : {2}, width : {2}, height : {2, -1}, whole : {TRUE}]
    \union [opens : {FALSE, TRUE}, header : {0, 1}, width : {2}, height : {1}, whole : {FALSE}]
    \union [opens : {TRUE}, header : {2}, width : {4}, height : {1}, whole : {TRUE}]
    \union [opens : {TRUE}, header : {2}, width : {1}, height : {4}, whole : {TRUE}]
    \union [opens : {TRUE}, header : {2}, width : {8, -8}, height : {4, -8}, whole : {FALSE}]
=============================================================================
