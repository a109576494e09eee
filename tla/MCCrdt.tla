------------------------------- MODULE MCCrdt -------------------------------
(* Two clients; the first edit is a's, another one b's.                    *)
EXTENDS CrdtDocsProperties

CONSTANTS a, b, ea, eb

MCAuthor == [e \in Edits |-> IF e = ea THEN a ELSE b]

(* The clients and their edits change places together.                     *)
Swap == {[x \in {a, b, ea, eb} |->
            CASE x = a -> b [] x = b -> a [] x = ea -> eb [] x = eb -> ea]}
=============================================================================
