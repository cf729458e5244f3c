------------------------------- MODULE MCStartup -------------------------------
(***************************************************************************)
(* Small instances of Startup for TLC.                                     *)
(***************************************************************************)
EXTENDS Startup, TLC

CONSTANTS prompt, ahead, promptHex, aheadHex, aheadHex0x

\* A login signed at the client's time, and one whose client's clock is ahead.
MCSignedAt == (prompt :> 0) @@ (ahead :> 2)

\* The second is also sent with 0x in front of it.
MCSignatureOf ==
  (promptHex :> prompt) @@ (aheadHex :> ahead) @@ (aheadHex0x :> ahead)

\* Every signature spelled as the wallet gives it.
MCPlainly == (promptHex :> prompt) @@ (aheadHex :> ahead)

=============================================================================
