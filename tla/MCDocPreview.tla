----------------------------- MODULE MCDocPreview -----------------------------
(* DocPreview with a text that renders, one that does not, and the results  *)
(* "x", "y" and "z", of which the last two have one fingerprint, as two     *)
(* tables of the same lengths do.                                           *)
EXTENDS DocPreview

MCTexts == {"text", "void"}
MCUnrendered == {"void"}
MCFingerprint == [o \in Outs |-> IF o = "x" THEN "none" ELSE "lengths"]
MCSlots == Sites \X (Widths \cup {0})

\* The page and the help are larger than the other rasters.
MCBytes == [site \in Sites |-> IF site \in {"doc_preview", "help"} THEN 3 ELSE 1]
=============================================================================
