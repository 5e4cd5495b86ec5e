------------------------------ MODULE XcmAssets ------------------------------
(***************************************************************************)
(* The asset identity and reserve resolvers of                             *)
(* src/polkadot-parachains/shell-runtime/src/xcm_config.rs:               *)
(* CurrencyIdConvert (lines 100-144), the matcher of LocalAssetTransactor  *)
(* (lines 167-179), the fee asset SelfReserve of the Trader (lines 76-79,  *)
(* 271) and the IsReserve filter built on AbsoluteAndRelativeReserve       *)
(* (lines 205-225, 266, 368-373).                                          *)
(*                                                                         *)
(* A MultiLocation is a record of its parents count and its interior, a   *)
(* sequence of junctions.  The state is the asset an inbound message       *)
(* carries; every step presents another one, so that TLC evaluates the     *)
(* resolvers on every asset of the bounded domain.                         *)
(***************************************************************************)
EXTENDS Naturals, Sequences

CONSTANTS
  SelfParaId,    \* ParachainInfo::parachain_id() of this chain
  OtherParaId,   \* the id of another parachain
  TeerKey,       \* the 32 bytes b"TEER0000..." of TEER_GENERAL_KEY
  OtherKey,      \* any other general key
  AccountKey,    \* an AccountId32 key
  MaxParents,    \* bound on MultiLocation.parents in the domain
  MaxInterior    \* bound on the number of junctions in the domain

VARIABLE asset   \* the MultiAsset of the inbound message

Parachain(id) == [kind |-> "Parachain", id |-> id]
GeneralKey(k) == [kind |-> "GeneralKey", id |-> k]
AccountId32(k) == [kind |-> "AccountId32", id |-> k]

Junctions ==
  {Parachain(SelfParaId), Parachain(OtherParaId), GeneralKey(TeerKey),
   GeneralKey(OtherKey), AccountId32(AccountKey)}

MultiLocation(n, interior) == [parents |-> n, interior |-> interior]

Locations ==
  {MultiLocation(n, i) :
     n \in 0..MaxParents,
     i \in UNION {[1..len -> Junctions] : len \in 0..MaxInterior}}

Here == MultiLocation(0, <<>>)

(* A MultiAsset's id: Concrete(location) or an Abstract id.                *)
Assets == [id : {"Concrete"}, loc : Locations] \cup [id : {"Abstract"}]

NoCurrency == "None"

(* TEER_GENERAL_KEY: GeneralKey { length: 4, data: TEER_KEY }.             *)
TEER_GENERAL_KEY == GeneralKey(TeerKey)

(* SelfReserve: the location the Trader charges fees in.                   *)
SelfReserve == MultiLocation(0, <<TEER_GENERAL_KEY>>)

(* SelfLocationAbsolute: this chain seen from the relay chain.             *)
SelfLocationAbsolute == MultiLocation(1, <<Parachain(SelfParaId)>>)

(* CurrencyIdConvert: CurrencyId -> Option<MultiLocation>.                 *)
CurrencyIdToLocation(id) ==
  MultiLocation(1, <<Parachain(SelfParaId), TEER_GENERAL_KEY>>)

(* The conversion with the check of the parachain id left out.             *)
LocationToCurrencyIdAnyPara(l) ==
  IF \/ /\ l.parents = 1
        /\ Len(l.interior) = 2
        /\ l.interior[1].kind = "Parachain"
        /\ l.interior[2] = TEER_GENERAL_KEY
     \/ /\ l.parents = 0
        /\ l.interior = <<TEER_GENERAL_KEY>>
  THEN "TEER"
  ELSE NoCurrency

(* CurrencyIdConvert: MultiLocation -> Option<CurrencyId>.                 *)
LocationToCurrencyId(l) ==
  IF \/ /\ l.parents = 1
        /\ l.interior = <<Parachain(SelfParaId), TEER_GENERAL_KEY>>
     \/ /\ l.parents = 0
        /\ l.interior = <<TEER_GENERAL_KEY>>
  THEN "TEER"
  ELSE NoCurrency

(* CurrencyIdConvert: MultiAsset -> Option<CurrencyId>.                    *)
AssetToCurrencyId(a) ==
  IF a.id = "Concrete" THEN LocationToCurrencyId(a.loc) ELSE NoCurrency

(* IsNativeConcrete<CurrencyId, CurrencyIdConvert>: the transactor takes   *)
(* a concrete asset whose location converts to some CurrencyId.           *)
MatchesFungible(a) ==
  a.id = "Concrete" /\ LocationToCurrencyId(a.loc) # NoCurrency

(* is_chain_junction(location.first_interior()): the first junction       *)
(* exists and is a Parachain.                                              *)
FirstIsChain(l) == l.interior # <<>> /\ Head(l.interior).kind = "Parachain"

(* MultiLocation::chain_part: the chain an asset location lies in, as     *)
(* seen from here; none when it names no chain.                            *)
ChainPart(l) ==
  CASE l.parents = 1 /\ FirstIsChain(l) -> {MultiLocation(1, <<Head(l.interior)>>)}
    [] l.parents = 1 -> {MultiLocation(1, <<>>)}
    [] l.parents = 0 /\ FirstIsChain(l) -> {MultiLocation(0, <<Head(l.interior)>>)}
    [] OTHER -> {}

(* RelativeReserveProvider::reserve: a local asset (no parents, first     *)
(* junction not a chain) is reserved here, any other at its chain part.    *)
(* The result is a set holding the Some value, or empty for None.          *)
RelativeReserve(a) ==
  IF a.id # "Concrete" THEN {}
  ELSE IF a.loc.parents = 0 /\ ~FirstIsChain(a.loc)
       THEN {Here}
       ELSE ChainPart(a.loc)

(* AbsoluteAndRelativeReserve::reserve without the collapse of the         *)
(* absolute self location.                                                 *)
ReserveWithoutCollapse(a) == RelativeReserve(a)

(* AbsoluteAndRelativeReserve::reserve: the relative reserve, with the     *)
(* absolute location of this chain replaced by MultiLocation::here().      *)
Reserve(a) ==
  {IF r = SelfLocationAbsolute THEN Here ELSE r : r \in RelativeReserve(a)}

(* MultiNativeAsset<..>::contains: the origin is accepted as the reserve   *)
(* of the asset it deposits iff it is the asset's reserve.                 *)
IsReserve(a, origin) == origin \in Reserve(a)

Init == asset \in Assets

(* The executor is handed the next inbound asset.                          *)
Receive == asset' \in Assets

Spec == Init /\ [][Receive]_asset

-----------------------------------------------------------------------------
TypeOK == asset \in Assets

(* The assets of this chain addressed from here and addressed absolutely   *)
(* from the relay chain: (0, rest) and (1, Parachain(self) ++ rest).       *)
AbsoluteForm(l) ==
  MultiLocation(1, <<Parachain(SelfParaId)>> \o l.interior)

(* The locations CurrencyIdConvert, the transactor's matcher and the       *)
(* Trader agree on: the asset is TEER exactly when its location is the     *)
(* form CurrencyIdConvert produces for TEER or the Trader's SelfReserve,   *)
(* and no location naming another parachain with the TEER key is taken    *)
(* for TEER.                                                               *)
TeerRecognisedExactly ==
  /\ MatchesFungible(asset) <=> AssetToCurrencyId(asset) = "TEER"
  /\ asset.id = "Concrete"
     => ((AssetToCurrencyId(asset) = "TEER")
           <=> asset.loc \in {CurrencyIdToLocation("TEER"), SelfReserve})

(* A user may name an asset of this chain in the relative or the          *)
(* absolute form: both give the same reserve, and for TEER that reserve    *)
(* is this chain, so no other chain is accepted as the reserve of TEER.    *)
ReserveAgreesAcrossForms ==
  /\ asset.id = "Concrete"
     /\ asset.loc.parents = 0
     /\ ~FirstIsChain(asset.loc)
     /\ Len(asset.loc.interior) < MaxInterior
     => Reserve([id |-> "Concrete", loc |-> AbsoluteForm(asset.loc)])
          = Reserve(asset)
  /\ AssetToCurrencyId(asset) = "TEER"
     => \A origin \in Locations : IsReserve(asset, origin) <=> origin = Here
=============================================================================
