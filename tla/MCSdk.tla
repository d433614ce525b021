--------------------------------- MODULE MCSdk ---------------------------------
(***************************************************************************)
(* The SDK with the values of MCPrefs, MCModeration and MCRichText.        *)
(***************************************************************************)
EXTENDS Sdk, MCModeration, MCRichText
================================================================================
