--------------------------- MODULE DocumentDelivery ---------------------------
(***************************************************************************)
(* What the stream of documents promises its reader, without bytes, chunks *)
(* and brackets: documents are handed over in the order in which they were *)
(* given, all that have arrived at a time, and none is taken back; the     *)
(* stream breaks only with a document that it still owes, and hands over   *)
(* nothing afterwards.  DocumentSplitter implements it.                    *)
(***************************************************************************)
EXTENDS Naturals, Sequences

CONSTANTS Texts     \* what the documents say

VARIABLES given,     \* the documents of the gateway
          returned,  \* those the reader has
          stream     \* "open", "ended" between two documents, or "broken"

deliveryVars == <<given, returned, stream>>

DeliveryInit == given = <<>> /\ returned = <<>> /\ stream = "open"

Give ==
    /\ stream = "open"
    /\ \E text \in Texts : given' = Append(given, text)
    /\ UNCHANGED <<returned, stream>>

\* Only the last document can still be on its way.
Return ==
    /\ stream = "open"
    /\ \E n \in {Len(given) - 1, Len(given)} :
          n > Len(returned) /\ returned' = SubSeq(given, 1, n)
    /\ UNCHANGED <<given, stream>>

Break ==
    /\ stream = "open" /\ Len(returned) < Len(given)
    /\ stream' = "broken"
    /\ UNCHANGED <<given, returned>>

End ==
    /\ stream = "open" /\ Len(given) <= Len(returned) + 1
    /\ stream' = "ended"
    /\ UNCHANGED <<given, returned>>

DeliveryNext == Give \/ Return \/ Break \/ End

DeliverySpec == DeliveryInit /\ [][DeliveryNext]_deliveryVars
===============================================================================
