--------------------------- MODULE MCSignRouting ---------------------------
(* Two patients and a hospital; boards of two destinations and directions,   *)
(* seen in part, with any score on each letter and arrow; images of up to     *)
(* three contours.                                                            *)
EXTENDS SignRouting, FiniteSets

MCPatients  == {"PATIENT_1", "PATIENT_2"}
MCHospitals == {"HOSPITAL_1"}

Detector == INSTANCE SignDetector WITH
    LETTERS <- MCPatients \cup MCHospitals,
    ARROWS <- Directions,
    LETTERBOX_SIZE <- 512,
    SCORE_THRESHOLD <- 80,
    PAIR_MAX_DX_MULT <- 2,
    PAIR_MAX_DY_MULT <- 5

Evaluation == INSTANCE SignEvaluation WITH
    LETTERS <- MCPatients \cup MCHospitals,
    ARROWS <- Directions,
    LETTERBOX_SIZE <- 512,
    SCORE_THRESHOLD <- 80,
    PAIR_MAX_DX_MULT <- 2,
    PAIR_MAX_DY_MULT <- 5,
    score <- 55

\* Of a camera image of 320 by 240, glyphs of so many pixels on a pitch of 40,
\* arrows 20 below their letters.
Glyph(name, score, cx, cy, size) ==
    Detector!Letterbox([ name |-> name, score |-> score, cx |-> cx, cy |-> cy,
                         w |-> size, h |-> size ], 320, 240)

\* Two letters and their arrows, the scores of the four, and how far the arrows
\* are off to the side.
Legends == { <<a, b, d, e>> \in
                (MCPatients \cup MCHospitals) \X (MCPatients \cup MCHospitals)
                   \X Directions \X Directions : a # b /\ d # e }
Scores == {60, 85, 90} \X {60, 85, 90} \X {60, 90} \X {60, 90}

Outputs(legend, scores, off, size) ==
    << Glyph(legend[1], scores[1], 180, 40, size),
       Glyph(legend[2], scores[2], 220, 40, size),
       Glyph(legend[3], scores[3], 180 + off, 60, size),
       Glyph(legend[4], scores[4], 220 + off, 60, size) >>

Board(legend) ==
    [l \in MCPatients \cup MCHospitals |->
        CASE l = legend[1] -> legend[3]
          [] l = legend[2] -> legend[4]
          [] OTHER -> None]

MCSightings ==
    { [ board |-> Board(x), table |-> Detector!Table(Outputs(x, y, off, 11)) ] :
        x \in Legends, y \in Scores, off \in {-2, 2} }

\* These boards are what the theorem about TableIsTrue asks for; with letters
\* of twice the size on the same pitch they would not be.
ASSUME BoardsAreLegible ==
    \A x \in Legends, y \in Scores, off \in {-2, 2} :
        /\ Detector!Legible(Detector!Collect(Outputs(x, y, off, 11)), Board(x))
        /\ \E z \in Scores :
              ~ Detector!Legible(Detector!Collect(Outputs(x, z, off, 24)), Board(x))

\* What the evaluation calls exact, and what the node makes of the same images.
Compared(size) ==
    { Evaluation!Verdict(Evaluation!Truth(o), Detector!Table(o)) :
        o \in { p \in { Outputs(x, y, 2, size) : x \in Legends, y \in Scores } :
                   Evaluation!Verdict(Evaluation!Truth(p), Evaluation!Evaluated(p))
                      = "exact" } }

\* The node asks for a higher score than the evaluation.  Where a letter
\* reaches the next one's arrow too, that costs more than entries: it may take
\* that one for an arrow the node dropped, and a table that is exact to the
\* evaluation ("kept identical to the runtime node so results transfer") is
\* wrong in the node.
ASSUME EvaluationAtAnotherScore ==
    {"exact", "partial", "wrong"} \subseteq Compared(24)

\* Every way to install the detector; only one of them makes it speak.
MCInstallations == [torch : BOOLEAN, weights : BOOLEAN, loads : BOOLEAN]

MCPublished ==
    { s \in MCSightings :
        \E i \in MCInstallations : Detector!Published(i, s.table) }

Edges == INSTANCE EdgeVectors WITH VECTOR_MAGNITUDE_MINIMUM <- 2

\* Contours at the borders, and beside the middle a boundary that leans to the
\* right and one that leans to the left.
MCContours ==
    { [ top |-> rows[1], bottom |-> rows[2],
        distance |-> distance, magnitude |-> magnitude ] :
        rows \in { << <<0>>, <<0>> >>, << <<4, 5>>, <<1, 2>> >>,
                   << <<3, 4>>, <<5, 7>> >>, << <<8>>, <<8>> >> },
        distance \in {1, 2}, magnitude \in {2, 3} }

MCFrames == { Edges!Frame(c) :
                c \in { d \in SUBSET MCContours : Cardinality(d) <= 3 } }
=============================================================================
