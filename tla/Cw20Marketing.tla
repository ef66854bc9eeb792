--------------------------- MODULE Cw20Marketing ---------------------------
(***************************************************************************)
(* The cw20-base token with its marketing record: a description of the     *)
(* project, kept in MARKETING_INFO, and its logo, kept in LOGO, of which   *)
(* MARKETING_INFO says what kind it is.                                    *)
(*                                                                         *)
(* Of the texts only their presence is kept, of a logo its kind and what   *)
(* verify_logo looks at.                                                   *)
(***************************************************************************)
EXTENDS Cw20Base

CONSTANTS
    Campaigns,  \* InstantiateMsg.marketing, with the token it comes with
    Texts,      \* project and description of an UpdateMarketing
    Promoters,  \* its marketing: an account, Nobody (a blank) or Kept (none)
    Logos       \* logo of an UploadLogo

(* Option<String> of an update: none, a blank, or a text.                  *)
Text == {"none", "blank", "text"}

Logo == [kind : {"url", "svg", "png"}, headed : BOOLEAN, size : Nat]
NoLogo == [kind |-> "none", headed |-> FALSE, size |-> 0]

(* MarketingInfoResponse; kept is FALSE where nothing is stored.           *)
MarketingInfo ==
    [kept : BOOLEAN, project : BOOLEAN, description : BOOLEAN,
     marketing : Users \cup {Nobody}, logo : {"none", "url", "embedded"}]

NoMarketing ==
    [kept |-> FALSE, project |-> FALSE, description |-> FALSE,
     marketing |-> Nobody, logo |-> "none"]

LOGO_SIZE_CAP == 5 * 1024

ASSUME Cw20MarketingAssumption ==
    /\ Kept \notin Users \cup {Nobody}
    /\ Campaigns \subseteq [balances : [Users -> Nat], minter : Users \cup {Nobody},
                            project : BOOLEAN, description : BOOLEAN,
                            marketing : Users \cup {Nobody}, logo : Logo \cup {NoLogo}]
    /\ Texts \subseteq Text
    /\ Promoters \subseteq Users \cup {Nobody, Kept}
    /\ Logos \subseteq Logo

VARIABLES
    marketing_info, \* MARKETING_INFO
    logo            \* LOGO

marketing == <<marketing_info, logo>>
fullVars == <<vars, marketing_info, logo>>

-----------------------------------------------------------------------------

(* verify_logo: an XML preamble or a PNG header, and the size.             *)
verify_logo(l) == l.kind # "url" => l.headed /\ l.size <= LOGO_SIZE_CAP

(* LogoInfo of a logo.                                                     *)
logo_info(l) ==
    CASE l = NoLogo -> "none"
      [] l.kind = "url" -> "url"
      [] OTHER -> "embedded"

FullInit ==
    /\ Init
    /\ \/ marketing_info = NoMarketing /\ logo = NoLogo
       \/ \E msg \in Campaigns :
             /\ current
             /\ balances = msg.balances
             /\ minter = msg.minter
             /\ msg.logo # NoLogo => verify_logo(msg.logo)
             /\ logo = msg.logo
             /\ marketing_info =
                   [kept |-> TRUE, project |-> msg.project,
                    description |-> msg.description, marketing |-> msg.marketing,
                    logo |-> logo_info(msg.logo)]

(* Mutant: anybody may take up a record that nobody markets.               *)
IsMarketingOrNone(u) == marketing_info.kept /\ marketing_info.marketing \in {u, Nobody}

IsMarketing(u) == marketing_info.kept /\ marketing_info.marketing = u

(* What an update makes of a text.                                         *)
Updated(text, update) ==
    CASE update = "none" -> text
      [] update = "blank" -> FALSE
      [] OTHER -> TRUE

(* Mutant: the logo is not looked at.                                      *)
NothingToTell(info) == ~info.project /\ ~info.description /\ info.marketing = Nobody

(* A record of nothing is removed.                                         *)
Empty(info) ==
    ~info.project /\ ~info.description /\ info.marketing = Nobody /\ info.logo = "none"

UpdateMarketing(u, project, description, promoter) ==
    LET info == [marketing_info EXCEPT
                    !.project = Updated(marketing_info.project, project),
                    !.description = Updated(marketing_info.description, description),
                    !.marketing = IF promoter = Kept THEN marketing_info.marketing
                                                     ELSE promoter]
    IN  /\ current
        /\ IsMarketing(u)
        /\ marketing_info' = IF Empty(info) THEN NoMarketing ELSE info
        /\ UNCHANGED <<vars, logo>>

UploadLogo(u, l) ==
    /\ current
    /\ IsMarketing(u)
    /\ verify_logo(l)
    /\ logo' = l
    /\ marketing_info' = [marketing_info EXCEPT !.logo = logo_info(l)]
    /\ UNCHANGED vars

MarketingStep ==
    \E u \in Users :
        \/ \E project, description \in Texts, promoter \in Promoters :
              UpdateMarketing(u, project, description, promoter)
        \/ \E l \in Logos : UploadLogo(u, l)

FullNext == (Next /\ UNCHANGED marketing) \/ MarketingStep

FullSpec == FullInit /\ [][FullNext]_fullVars

-----------------------------------------------------------------------------
(* Properties.                                                             *)

(* The types of the marketing record.                                      *)
MarketingTypeOK == marketing_info \in MarketingInfo /\ logo \in Logo \cup {NoLogo}

(* The two items never disagree: MarketingInfo announces the kind of logo  *)
(* that DownloadLogo finds, one that passed verify_logo, also after the    *)
(* record was emptied and removed (contract.rs:479, 509).                  *)
LogoRecorded ==
    /\ marketing_info.logo = logo_info(logo)
    /\ logo # NoLogo => marketing_info.kept /\ verify_logo(logo)

(* A record whose marketing account gave it up stays as it is, logo        *)
(* included: neither updates nor uploads nor a removal bring anybody back. *)
MarketingGoneForGood ==
    [][marketing_info.marketing = Nobody => UNCHANGED marketing]_fullVars
=============================================================================
