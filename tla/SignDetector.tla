---------------------------- MODULE SignDetector ----------------------------
(***************************************************************************)
(* What node "detect" (b3rb_ros_object_recog.py) makes of one camera frame:*)
(* the classifier's outputs, filtered, and the table of directions that    *)
(* pairing letters with arrows yields.  The classifier itself is external. *)
(*                                                                         *)
(* A detection is a record of its name, its score and its box: centre cx,  *)
(* cy and size w, h.  The text the node publishes and the buggy parses     *)
(* again ("A:LEFT,X:STRAIGHT") carries exactly the table, as both ends     *)
(* know the same letters and directions, and is left out.                  *)
(***************************************************************************)
EXTENDS Integers, FiniteSetsExt, Functions

CONSTANTS
    None,
    LETTERBOX_SIZE,     \* of the classifier's square input
    LETTERS,            \* the destinations
    ARROWS,             \* the directions
    SCORE_THRESHOLD,    \* per cent
    PAIR_MAX_DX_MULT,   \* reach sideways, in widths of the letter
    PAIR_MAX_DY_MULT    \* reach downwards, in heights of the letter

\* _load_model: of an installation that lacks torch or the weights, or whose
\* checkpoint does not load, the node runs on and has no model.
Loaded(installation) ==
    installation.torch /\ installation.weights /\ installation.loads

\* letterbox: where a glyph of a camera image of width w and height h lies in
\* the square, which the longer side fills.
Letterbox(glyph, w, h) ==
    LET longer    == Max({w, h})
        scaled(n) == (n * LETTERBOX_SIZE) \div longer
    IN  [ glyph EXCEPT
            !.cx = (LETTERBOX_SIZE - scaled(w)) \div 2 + scaled(@),
            !.cy = (LETTERBOX_SIZE - scaled(h)) \div 2 + scaled(@),
            !.w  = scaled(@),
            !.h  = scaled(@) ]

\* _collect.  What is dropped leaves a gap: detections are compared by index,
\* so numbering them anew would change nothing.
Collect(outputs) ==
    Restrict(outputs, { i \in DOMAIN outputs :
                            outputs[i].score >= SCORE_THRESHOLD })

Aside(letter, arrow) ==
    IF arrow.cx >= letter.cx THEN arrow.cx - letter.cx ELSE letter.cx - arrow.cx

\* The arrow is below the letter, and near enough for the letter's size.
Reaches(letter, arrow) ==
    /\ arrow.cy > letter.cy
    /\ arrow.cy - letter.cy <= PAIR_MAX_DY_MULT * letter.h
    /\ Aside(letter, arrow) <= PAIR_MAX_DX_MULT * letter.w

\* Alignment counts double.
Cost(letter, arrow) == 2 * Aside(letter, arrow) + arrow.cy - letter.cy

LettersOf(detections) ==
    { i \in DOMAIN detections : detections[i].name \in LETTERS }
ArrowsOf(detections) ==
    { i \in DOMAIN detections : detections[i].name \in ARROWS }

\* Of the letters left, the one detected most surely, the first of equals.
Surest(detections, left) ==
    CHOOSE i \in left : \A j \in left :
        \/ detections[i].score > detections[j].score
        \/ detections[i].score = detections[j].score /\ i <= j

\* Of the arrows near a letter, the one that costs least, the first of equals.
Nearest(detections, letter, near) ==
    CHOOSE i \in near : \A j \in near :
        LET here  == Cost(detections[letter], detections[i])
            there == Cost(detections[letter], detections[j])
        IN  here < there \/ (here = there /\ i <= j)

\* The surest letter takes the nearest arrow that it reaches and that is not
\* yet taken.
Pick(detections, acc) ==
    LET letter == Surest(detections, acc.left)
        near   == { i \in ArrowsOf(detections) \ acc.used :
                       Reaches(detections[letter], detections[i]) }
        arrow  == Nearest(detections, letter, near)
        picked == [acc EXCEPT !.left = @ \ {letter}]
    IN  IF near = {} THEN picked
        ELSE [picked EXCEPT
                 !.used = @ \cup {arrow},
                 !.table[detections[letter].name] = detections[arrow].name]

\* pair_letters_with_arrows: one letter after the other picks.
PairLettersWithArrows(detections) ==
    LET n == Cardinality(LettersOf(detections))
        after[k \in 0 .. n] ==
            IF k = 0
            THEN [left  |-> LettersOf(detections), used |-> {},
                  table |-> [l \in LETTERS |-> None]]
            ELSE Pick(detections, after[k - 1])
    IN  after[n].table

\* camera_image_callback: the table of a frame, by what the classifier reports
\* in the square.  Without a model nothing is published, nor is a table without
\* entries.
Table(outputs) == PairLettersWithArrows(Collect(outputs))
Published(installation, table) ==
    Loaded(installation) /\ \E l \in LETTERS : table[l] # None

-----------------------------------------------------------------------------
\* A board of which a letter reaches no arrow but the one it goes with,
\* whatever else of it was detected: the reach is a multiple of the letter's
\* own size, and letters of a board are further apart.
Legible(detections, board) ==
    \A i \in LettersOf(detections), j \in ArrowsOf(detections) :
        Reaches(detections[i], detections[j])
            => board[detections[i].name] = detections[j].name
=============================================================================
