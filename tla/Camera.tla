------------------------------- MODULE Camera -------------------------------
(***************************************************************************)
(* The car's eye: each update() takes a raw line from the camera, prepares *)
(* it with NxpImage and gives its black pixels to the tracer and to the    *)
(* frame for the observers.  The tracer looks at minLeft .. maxRight only. *)
(***************************************************************************)
EXTENDS TelemetryFrame

CONSTANTS
  White, WhiteOriginal, LowDiversity,   \* see NxpImage
  RawLines                              \* what the camera may give

VARIABLE sentImage     \* sendData_.image, which the image is prepared in

cvars == <<tvars, sentImage>>

Img == INSTANCE NxpImage

ImageOf(raw) == Img!Black(raw) \intersect (minLeft .. maxRight)

\* What the tracer sees of each line.
Seen == [raw \in RawLines |-> ImageOf(raw)]

\* With LOW_DIVERSITY zero no image counts as low in diversity: the tracer's
\* and the car's branches for such images are dead and left out.
ASSUME CameraAssumption ==
  /\ White \in 1 .. 255 /\ WhiteOriginal \in 1 .. 4095
  /\ LowDiversity = 0
  /\ RawLines \subseteq Img!RawImage
  /\ \A raw \in RawLines : Seen[raw] \in Images

CInit == TInit /\ sentImage = [i \in Img!Pixels |-> 0]

CUpdate(raw) == sentImage' = Img!Cut(raw) /\ TAddImage(Seen[raw])

CReset == TReset /\ UNCHANGED sentImage

CNext == (\E raw \in RawLines : CUpdate(raw)) \/ CReset

CSpec == CInit /\ [][CNext]_cvars

-----------------------------------------------------------------------------
(* Properties.                                                             *)

\* The line under another light: brighter by a factor, or by stray light.
Lit(raw, gain, stray) == [i \in Img!Pixels |-> gain * raw[i] + stray]

\* The light does not matter: as long as the sensor is not saturated, the
\* same line under any other light has the same black pixels, rounding of
\* the normalisation and of the threshold included.
LightingInvariant ==
  LET black == Img!Black(sentImage)
  IN \A gain \in 1 .. WhiteOriginal, stray \in 0 .. WhiteOriginal :
       gain * Img!Brightest(sentImage) + stray <= WhiteOriginal
         => Img!Black(Lit(sentImage, gain, stray)) = black

\* A track is seen whatever else is on the line: when the brightest pixels
\* alone outweigh the margins cut off, the 16-bit threshold does not wrap,
\* the darkest pixels are black and the brightest are white.
TrackSeen ==
  LET At(v) == {i \in Img!Inner : sentImage[i] = v}
      bright == At(Img!Brightest(sentImage))
  IN /\ Img!Diversity(sentImage) > 0
     /\ Cardinality(bright) * White >= (2 * BlackCount + 1) * LineLength
     => /\ At(Img!Darkest(sentImage)) \subseteq Img!Black(sentImage)
        /\ bright \intersect Img!Black(sentImage) = {}

=============================================================================
