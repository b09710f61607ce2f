----------------------------- MODULE MCLimiterList -----------------------------
(* Values of LimiterList's constants for TLC. *)
EXTENDS LimiterList, TLC

CONSTANTS long, hex

(* The digest of the over-long id is the text hex, which a caller may send *)
(* as a tenant id too.                                                     *)
MCDigest == long :> hex
================================================================================
