----------------------------- MODULE MCWalletApi -----------------------------
(* Three requests: one runs, one fills the channel, one waits for room.    *)
EXTENDS WalletApi

CONSTANTS pay, again, other

ThreeRequests == {pay, again, other}

(* Two payments, or a command that may write files before or after one.    *)
MixedKinds == [r \in ThreeRequests |->
  CASE r = pay -> {"Pay"} [] r = again -> {"Pay", "Command"} [] r = other -> {"Plan"}]
=============================================================================
