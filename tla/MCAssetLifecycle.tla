-------------------------- MODULE MCAssetLifecycle --------------------------
(* AssetLifecycle for TLC; the cfg gives the bounds.                       *)
EXTENDS AssetLifecycle
=============================================================================
