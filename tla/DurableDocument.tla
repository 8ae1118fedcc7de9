--------------------------- MODULE DurableDocument ---------------------------
(***************************************************************************)
(* What a document room promises about the document it keeps, whatever     *)
(* happens to the object that runs it: the document as it would be loaded  *)
(* from storage only ever grows by one edit, or is replaced by an earlier  *)
(* version once the document it replaces has been saved as a version.      *)
(* Restarts, checkpoints and the trimming of the log do not show.          *)
(***************************************************************************)
EXTENDS Sequences

CONSTANTS
    Edits,   \* what is committed; each at most once
    Versions \* contents of the versions that can be restored

VARIABLES
    document, \* the document in storage, as the sequence of edits it holds
    saved     \* documents saved as versions before they were replaced

Init ==
    /\ document = <<>>
    /\ saved = {}

Add ==
    /\ \E e \in Edits :
          /\ \A i \in DOMAIN document : document[i] # e
          /\ document' = Append(document, e)
    /\ UNCHANGED saved

Save ==
    /\ saved' = saved \cup {document}
    /\ UNCHANGED document

Replace ==
    /\ document \in saved
    /\ \E v \in Versions : document' = <<v>>
    /\ UNCHANGED saved

Next == Add \/ Save \/ Replace

Spec == Init /\ [][Next]_<<document, saved>>
=============================================================================
