----------------------------- MODULE EdgeVectors -----------------------------
(***************************************************************************)
(* What node "edge_vectors_publisher" (b3rb_ros_edge_vectors.py) makes of  *)
(* the contours of one camera frame.  A contour is a record of the image   *)
(* columns of its top and of its bottom row, in the order they are found,  *)
(* its distance from the buggy and its magnitude; finding contours is      *)
(* external.                                                               *)
(***************************************************************************)
EXTENDS Integers, SequencesExt

CONSTANTS
    IMAGE_WIDTH,
    VECTOR_MAGNITUDE_MINIMUM

\* get_vector_angle_in_radians: the angle is positive; upright is a right angle.
LeansRight(contour) == Head(contour.top) >= Head(contour.bottom)

\* The column of a vector's middle, between the first pixel of each row but,
\* on the side it leans to, the last.
Middle(contour) ==
    (IF LeansRight(contour)
     THEN Max(Range(contour.top)) + Head(contour.bottom)
     ELSE Head(contour.top) + Max(Range(contour.bottom))) \div 2

\* compute_vectors_from_image
Vectors(contours) == { c \in contours : c.magnitude > VECTOR_MAGNITUDE_MINIMUM }

\* The nearest vector of one half of the image, if there is one.
Nearest(vectors) ==
    IF vectors = {} THEN << >>
    ELSE << Middle(CHOOSE v \in vectors :
                \A u \in vectors : v.distance <= u.distance) >>

\* process_image_for_edge_vectors and camera_image_callback: the columns of
\* vector_1 and vector_2, of which vector_count are there.
Frame(contours) ==
    LET vectors == Vectors(contours)
    IN  Nearest({ v \in vectors : 2 * Middle(v) < IMAGE_WIDTH })
          \o Nearest({ v \in vectors : 2 * Middle(v) >= IMAGE_WIDTH })
=============================================================================
