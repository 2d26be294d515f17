------------------------ MODULE MCCaptureConnection -------------------------
(* Two browser profiles and an application that is served, ends and is     *)
(* served again; or no browser to speak of, and vaults being made.         *)
EXTENDS CaptureConnection

CONSTANTS home, chrome

Setup(vaults, commands, failures, connects, holder, items) ==
  [vaults |-> vaults, given |-> Commands - commands, mishaps |-> Mishaps - failures,
   clicks |-> Clicks - connects, holder |-> holder, items |-> items]

MCSetups ==
  {Setup({home}, 1, 1, 1, chrome, {chrome}), Setup({home}, 1, 0, 2, None, {}),
   Setup({home}, 2, 0, 1, chrome, {}), Setup({}, 2, 2, 0, None, {})}
=============================================================================
