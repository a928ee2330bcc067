---------------------------- MODULE MCLineTracer ----------------------------
(* Constants of LineTracerHistory and of Camera for TLC.                   *)
EXTENDS Camera

InnerPixels == minLeft .. maxRight

\* No line, one line or two lines, a pixel wide.
ThinLines == {{}} \union {{i, j} : i, j \in InnerPixels}

\* A dark margin on either side, and everything black.
Margins == LET Ends == {i \in InnerPixels : i % 3 = 1}
           IN {minLeft .. i : i \in Ends} \union {i .. maxRight : i \in Ends}

\* Two lanes, and more stripes than MaxRegions lets the search keep.
Lanes2 == {{minLeft, i, maxRight - 1} : i \in minLeft + 1 .. maxRight - 2}
Stripes == {{i \in InnerPixels : i % 2 = 0}, {i \in InnerPixels : i % 2 = 1}}

\* The widest lane lies behind the last border that is kept.
LostLane == {{1, 3, 5, 7, 10}}

\* The right line is a pixel wide and not counted as one; the left edge is
\* as far from the one computed as the search goes.
ThinRight == {{1, 2, 3, 4, 9}}

LineImages == ThinLines \union Margins \union Lanes2 \union Stripes
              \union LostLane \union ThinRight

\* Each of these images in black and white.
Contrast == {[i \in Img!Pixels |-> IF i \in img THEN 0 ELSE 2] :
               img \in LineImages}

\* Two grey lines on a track half in the shade, and a slope of brightness.
Shade == {[i \in Img!Pixels |-> (IF i \in {2, 8} THEN 0 ELSE 1)
                                + (IF i > j THEN 2 ELSE 0)] :
            j \in {3, 6}}
Slope == {[i \in Img!Pixels |-> i \div 3]}

Lines == Contrast \union Shade \union Slope

CameraImages == {ImageOf(raw) : raw \in Lines}

=============================================================================
