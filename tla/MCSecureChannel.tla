-------------------------- MODULE MCSecureChannel --------------------------
(* One SecureChannel for TLC.  A secured channel without connectivity check  *)
(* is left out: see "Known deviations" in README.md.                         *)
EXTENDS SecureChannelProperties

Usual ==
  {c \in [secured : BOOLEAN, session : {TRUE}, check : BOOLEAN, diligent : BOOLEAN] :
     c.secured => c.check}
=============================================================================
