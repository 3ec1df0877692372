------------------------------ MODULE MCSupport ------------------------------
(***************************************************************************)
(* A small instance of each component around the order flow, for TLC.      *)
(* The components share no rows, so their steps are not interleaved:       *)
(* focus picks the one that acts in a behaviour.                           *)
(***************************************************************************)
EXTENDS Campaigns, PromoCodes, SellerRegistration, SeenMarks, EventDelivery, ReceiptFiles, TLC

VARIABLE focus

supportVars == <<focus, campaignVars, promoVars, registrationVars, seenVars, noteVars, receiptVars>>

(***************************************************************************)
(* An amount off and a percentage: two edits can leave a percentage of     *)
(* 150, which no seller may enter at once.                                 *)
(***************************************************************************)
FirstPromo == [percent |-> FALSE, value |-> 50, active |-> TRUE, limit |-> 1, perUser |-> 0]
MCPromoRows ==
    {FirstPromo,
     [percent |-> TRUE, value |-> 50, active |-> TRUE, limit |-> 2, perUser |-> 1],
     [percent |-> FALSE, value |-> 150, active |-> TRUE, limit |-> 2, perUser |-> 0],
     [percent |-> TRUE, value |-> 150, active |-> TRUE, limit |-> 2, perUser |-> 0]}

SupportInit ==
    /\ focus \in {"campaign", "promo", "registration", "seen", "note", "receipt"}
    /\ CampaignInit
    /\ PromoInit /\ (focus = "promo" \/ promo = FirstPromo)
    /\ RegistrationInit
    /\ SeenInit /\ (focus = "seen" \/ notice = "absent")
    /\ NoteInit /\ (focus = "note" \/ noteEvent = "order")
    /\ ReceiptInit

SupportNext ==
    \/ /\ focus = "campaign"
       /\ CampaignNext
       /\ UNCHANGED <<focus, promoVars, registrationVars, seenVars, noteVars, receiptVars>>
    \/ /\ focus = "promo"
       /\ PromoNext
       /\ UNCHANGED <<focus, campaignVars, registrationVars, seenVars, noteVars, receiptVars>>
    \/ /\ focus = "registration"
       /\ RegistrationNext
       /\ UNCHANGED <<focus, campaignVars, promoVars, seenVars, noteVars, receiptVars>>
    \/ /\ focus = "seen"
       /\ SeenNext
       /\ UNCHANGED <<focus, campaignVars, promoVars, registrationVars, noteVars, receiptVars>>
    \/ /\ focus = "note"
       /\ NoteNext
       /\ UNCHANGED <<focus, campaignVars, promoVars, registrationVars, seenVars, receiptVars>>
    \/ /\ focus = "receipt"
       /\ ReceiptNext
       /\ UNCHANGED <<focus, campaignVars, promoVars, registrationVars, seenVars, noteVars>>

SupportSpec == SupportInit /\ [][SupportNext]_supportVars

(***************************************************************************)
(* The state of every component has its type.                              *)
(***************************************************************************)
TypesOK ==
    /\ CampaignTypeOK
    /\ PromoTypeOK
    /\ RegistrationTypeOK
    /\ SeenTypeOK
    /\ NoteTypeOK
    /\ ReceiptTypeOK

Symmetry == Permutations(Sessions) \cup Permutations(Recipients)
=============================================================================
