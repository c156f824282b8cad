--------------------------- MODULE SignEvaluation ---------------------------
(***************************************************************************)
(* eval_sign_detector.py, as far as routing goes: the table that is read   *)
(* off an annotated image with the same pairing as the node's, but at a    *)
(* score of its own, and the verdict on it.                                *)
(***************************************************************************)
EXTENDS SignDetector

CONSTANT score      \* per cent; an option of the script

Preds(outputs) ==
    Restrict(outputs, { i \in DOMAIN outputs : outputs[i].score >= score })

\* The annotations are paired as detections that nobody doubts.
Truth(annotations) ==
    PairLettersWithArrows([ i \in DOMAIN annotations |->
                               [annotations[i] EXCEPT !.score = 100] ])

Evaluated(outputs) == PairLettersWithArrows(Preds(outputs))

\* Wrong is a table with a direction the image does not show; an image that
\* shows none does not count.
Verdict(truth, table) ==
    CASE \A l \in LETTERS : truth[l] = None -> "uncounted"
      [] /\ \E l \in LETTERS : truth[l] # None
         /\ \E l \in LETTERS : table[l] \notin {None, truth[l]} -> "wrong"
      [] /\ \E l \in LETTERS : truth[l] # None
         /\ table = truth -> "exact"
      [] OTHER -> "partial"
=============================================================================
