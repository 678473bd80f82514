------------------------------ MODULE MCZkClob ------------------------------
(* Small instances of ZkClob for TLC. *)
EXTENDS ZkClob

CONSTANTS alice, fees, eth, tok

OneAsset  == <<eth>>
TwoAssets == <<eth, tok>>
==============================================================================
