------------------------ MODULE Cw20MarketingProofs ------------------------
(***************************************************************************)
(* Theorems about Cw20Marketing, for any accounts, texts and logos.  The   *)
(* token with its record is the token of Cw20Base, so that what            *)
(* Cw20BaseProofs proves of that one holds of this one too.                *)
(***************************************************************************)
EXTENDS Cw20Marketing, Cw20BaseProofs

(* The inductive invariant: the types, both items in agreement, and no     *)
(* marketing account where there is no record.                             *)
MarketingInv ==
    /\ MarketingTypeOK
    /\ LogoRecorded
    /\ ~marketing_info.kept => marketing_info = NoMarketing

(* What logo_info makes of a logo, and of none.                            *)
LEMMA LogoInfo ==
    /\ NoLogo \notin Logo
    /\ logo_info(NoLogo) = "none"
    /\ \A l \in Logo : logo_info(l) \in {"url", "embedded"}
  BY DEF Logo, NoLogo, logo_info

LEMMA RecordStart == ASSUME FullInit PROVE MarketingInv
  <1>1. CASE marketing_info = NoMarketing /\ logo = NoLogo
    BY <1>1, LogoInfo
    DEF MarketingInv, MarketingTypeOK, MarketingInfo, NoMarketing, LogoRecorded
  <1>2. ASSUME NEW msg \in Campaigns, msg.logo # NoLogo => verify_logo(msg.logo),
               logo = msg.logo,
               marketing_info =
                   [kept |-> TRUE, project |-> msg.project,
                    description |-> msg.description, marketing |-> msg.marketing,
                    logo |-> logo_info(msg.logo)]
        PROVE  MarketingInv
    <2>1. msg \in [balances : [Users -> Nat], minter : Users \cup {Nobody},
                   project : BOOLEAN, description : BOOLEAN,
                   marketing : Users \cup {Nobody}, logo : Logo \cup {NoLogo}]
      BY <1>2, Cw20MarketingAssumption
    <2>2. logo_info(msg.logo) \in {"none", "url", "embedded"}
      BY <2>1, LogoInfo
    <2>3. marketing_info \in MarketingInfo
      BY <1>2, <2>1, <2>2 DEF MarketingInfo
    <2> QED
      BY <1>2, <2>1, <2>3 DEF MarketingInv, MarketingTypeOK, LogoRecorded
  <1> QED
    BY <1>1, <1>2 DEF FullInit

LEMMA RecordUpdated ==
    ASSUME MarketingInv, NEW u \in Users, NEW project \in Texts,
           NEW description \in Texts, NEW promoter \in Promoters,
           UpdateMarketing(u, project, description, promoter)
    PROVE  MarketingInv'
  <1> DEFINE info == [marketing_info EXCEPT
                         !.project = Updated(marketing_info.project, project),
                         !.description = Updated(marketing_info.description, description),
                         !.marketing = IF promoter = Kept THEN marketing_info.marketing
                                                          ELSE promoter]
  <1>1. marketing_info.kept /\ logo' = logo
    BY DEF UpdateMarketing, IsMarketing
  <1>2. marketing_info' = IF Empty(info) THEN NoMarketing ELSE info
    BY DEF UpdateMarketing
  <1>3. /\ Updated(marketing_info.project, project) \in BOOLEAN
        /\ Updated(marketing_info.description, description) \in BOOLEAN
    BY DEF Updated, MarketingInv, MarketingTypeOK, MarketingInfo
  <1>4. info \in MarketingInfo /\ info.kept /\ info.logo = marketing_info.logo
    BY <1>1, <1>3, Cw20MarketingAssumption DEF MarketingInv, MarketingTypeOK, MarketingInfo
  <1> HIDE DEF info
  <1>5. CASE Empty(info)
    <2>1. marketing_info' = NoMarketing /\ logo_info(logo) = "none"
      BY <1>2, <1>4, <1>5 DEF Empty, MarketingInv, LogoRecorded
    <2>2. logo = NoLogo
      BY <2>1, LogoInfo DEF MarketingInv, MarketingTypeOK
    <2> QED
      BY <1>1, <2>1, <2>2, LogoInfo
      DEF MarketingInv, MarketingTypeOK, MarketingInfo, NoMarketing, LogoRecorded
  <1>6. CASE ~Empty(info)
    BY <1>1, <1>2, <1>4, <1>6
    DEF MarketingInv, MarketingTypeOK, LogoRecorded, logo_info, verify_logo
  <1> QED
    BY <1>5, <1>6

LEMMA LogoUploaded ==
    ASSUME MarketingInv, NEW u \in Users, NEW l \in Logos, UploadLogo(u, l)
    PROVE  MarketingInv'
  <1>1. l \in Logo /\ verify_logo(l) /\ logo' = l /\ marketing_info.kept
    BY Cw20MarketingAssumption DEF UploadLogo, IsMarketing
  <1>2. marketing_info' = [marketing_info EXCEPT !.logo = logo_info(l)]
    BY DEF UploadLogo
  <1>3. logo_info(l) \in {"none", "url", "embedded"}
    BY <1>1, LogoInfo
  <1>4. marketing_info' \in MarketingInfo /\ marketing_info'.kept
        /\ marketing_info'.logo = logo_info(l)
    BY <1>1, <1>2, <1>3 DEF MarketingInv, MarketingTypeOK, MarketingInfo
  <1> QED
    BY <1>1, <1>4 DEF MarketingInv, MarketingTypeOK, LogoRecorded, logo_info, verify_logo

(* The types and the agreement of the two items are inductive.             *)
THEOREM RecordInvariant == FullSpec => []MarketingInv
  <1>1. ASSUME MarketingInv, [FullNext]_fullVars PROVE MarketingInv'
    <2>1. CASE UNCHANGED marketing
      BY <1>1, <2>1
      DEF marketing, MarketingInv, MarketingTypeOK, LogoRecorded, logo_info, verify_logo
    <2>2. CASE MarketingStep
      BY <1>1, <2>2, RecordUpdated, LogoUploaded DEF MarketingStep
    <2> QED
      BY <1>1, <2>1, <2>2 DEF FullNext, fullVars, marketing
  <1> QED
    BY <1>1, RecordStart, PTL DEF FullSpec

(* MarketingInfo and DownloadLogo agree in every state, whatever is        *)
(* uploaded, emptied and removed.                                          *)
THEOREM LogoAgrees == FullSpec => []LogoRecorded
  BY RecordInvariant, PTL DEF MarketingInv

(* A record given up stays as it is for good.                              *)
THEOREM RecordGone == FullSpec => MarketingGoneForGood
  <1>1. ASSUME [FullNext]_fullVars, marketing_info.marketing = Nobody
        PROVE  UNCHANGED marketing
    <2>1. \A u \in Users : ~IsMarketing(u)
      BY <1>1, Cw20BaseAssumption DEF IsMarketing
    <2>2. ~MarketingStep
      BY <2>1 DEF MarketingStep, UpdateMarketing, UploadLogo
    <2> QED
      BY <1>1, <2>2 DEF FullNext, fullVars, marketing
  <1> QED
    BY <1>1, PTL DEF FullSpec, MarketingGoneForGood

(* The record takes nothing from the token and adds nothing to it: what is *)
(* proved of Cw20Base holds with the record too.                           *)
THEOREM StillTheToken == FullSpec => Spec
  <1>1. FullInit => Init
    BY DEF FullInit
  <1>2. [FullNext]_fullVars => [Next]_vars
    BY DEF FullNext, MarketingStep, UpdateMarketing, UploadLogo, fullVars
  <1> QED
    BY <1>1, <1>2, PTL DEF FullSpec, Spec
=============================================================================
