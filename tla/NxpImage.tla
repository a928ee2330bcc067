------------------------------ MODULE NxpImage ------------------------------
(***************************************************************************)
(* NxpImage / NxpImageAbstract: from the camera's raw line to the set of   *)
(* its black pixels, as pure operators.  A line is a function from pixels  *)
(* to brightness.                                                          *)
(*                                                                         *)
(* normalize() computes in floats.  Its operands are integers below 2^24   *)
(* and its quotients at most 255 with divisors at most 4095, so cutting    *)
(* the float off gives the exact integer quotient.                         *)
(***************************************************************************)
EXTENDS Integers, FiniteSetsExt

CONSTANTS
  LineLength,      \* TFC_CAMERA_LINE_LENGTH
  BlackCount,      \* BLACK_COUNT: pixels cut off on either side
  White,           \* COLOR_WHITE, the brightest normalised pixel
  WhiteOriginal,   \* COLOR_WHITE_ORIGINAL, the brightest raw pixel
  LowDiversity     \* LOW_DIVERSITY

Pixels == 0 .. LineLength - 1
Inner  == BlackCount .. LineLength - BlackCount - 1

RawImage == [Pixels -> 0 .. WhiteOriginal]

Levels(raw) == {v \in 0 .. WhiteOriginal : \E i \in Inner : raw[i] = v}

\* Mutated: the search for the minimum starts from COLOR_BLACK.
DarkestFromBlack(raw) == Min(Levels(raw) \union {0})

Darkest(raw)   == Min(Levels(raw))
Brightest(raw) == Max(Levels(raw))
Diversity(raw) == Brightest(raw) - Darkest(raw)

isLowDiversity(raw) == Diversity(raw) < LowDiversity

\* The margins are painted in the brightest colour found.
Cut(raw) ==
  [i \in Pixels |-> IF i \in Inner THEN raw[i] ELSE Brightest(raw)]

\* In a uniform line every pixel is 0.0f / 0, which the processor's
\* conversion makes zero.
Normalized(raw) ==
  LET dark == Darkest(raw)  range == Diversity(raw)
  IN [i \in Pixels |-> IF range = 0 THEN 0
                       ELSE ((raw[i] - dark) * White) \div range]

\* Mutated: the sum is not divided.
getAverageThresholdUndivided(norm) ==
  (MapThenSumSet(LAMBDA i : norm[i], Inner) - 2 * BlackCount) % 65536

\* A uint16_t: a dark line wraps it to a value above every pixel.
getAverageThreshold(norm) ==
  ((MapThenSumSet(LAMBDA i : norm[i], Inner) \div LineLength) - 2 * BlackCount)
    % 65536

\* The black pixels of thresholdedImage_.
Black(raw) ==
  IF isLowDiversity(raw) THEN {}
  ELSE LET norm   == Normalized(Cut(raw))
           thresh == getAverageThreshold(norm)
       IN {i \in Pixels : norm[i] < thresh}

=============================================================================
