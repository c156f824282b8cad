----------------------------- MODULE QrDetector -----------------------------
(***************************************************************************)
(* The QR detector node (class QRDetector of b3rb_ros_qr_detector.py): one *)
(* camera frame in, at most one text out.  It keeps nothing from frame to  *)
(* frame but what it logs.                                                 *)
(***************************************************************************)
EXTENDS Sequences

CONSTANT PYZBAR_AVAILABLE   \* libzbar is an optional package

\* _try_pyzbar: what pyzbar makes of a picture, less the codes it has located
\* without reading them; << >> if it raises.
TryPyzbar(texts) == SelectSeq(texts, LAMBDA text : text # "")

\* detect_qr_code: all that would be found in the enlarged grayscale picture,
\* in the equalised one and by cv2 in colour, in the order they are tried.
Strategies(frame) ==
    (IF PYZBAR_AVAILABLE
     THEN TryPyzbar(frame.gray) \o TryPyzbar(frame.equalised) ELSE << >>)
        \o TryPyzbar(<< frame.cv >>)

\* camera_image_callback: the text published of each of these frames, the
\* first one found.  A frame that is no image yields none.
PublishedOf(frames) ==
    { Head(Strategies(f)) :
        f \in { f \in frames : f.image /\ Strategies(f) # << >> } }
=============================================================================
