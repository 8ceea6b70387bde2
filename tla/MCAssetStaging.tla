---------------------------- MODULE MCAssetStaging ----------------------------
(***************************************************************************)
(* Instance of AssetStaging: a data file and its metadata, whose hrefs end  *)
(* in one file name, a file that is not on S3 and one without a checksum.   *)
(***************************************************************************)
EXTENDS AssetStaging, TLC

CONSTANTS data, metadata, browse, h5, xml

MCNameOf    == <<1, 1, 2, 3>>
MCRoleOf    == <<data, metadata, data, browse>>
MCEndingsOf == <<{h5}, {h5, xml}, {}, {}>>

Type(d, e) == [type |-> d, extensions |-> e]

\* No list, an empty one, one type, one with an extension, two, one that nothing has, and one
\* that is listed twice.
MCAgreements ==
  { NoTypes, << >>, <<Type(data, {})>>, <<Type(data, {h5})>>,
    <<Type(data, {xml}), Type(metadata, {h5})>>, <<Type(browse, {})>>,
    <<Type(data, {h5}), Type(data, {xml})>> }
=============================================================================
