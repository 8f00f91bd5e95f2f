---------------------------- MODULE MCCaptivePages -----------------------------
(***************************************************************************)
(* Small instances of CaptivePages for TLC.                                *)
(***************************************************************************)
EXTENDS CaptivePages

\* A site whose argument decoding splits, one whose query does not fit, and one
\* whose query fits until it is encoded.
FewSites == {<<"escaped">>, <<"plain", "long">>, <<"plain", "plain">>}
=============================================================================
