-------------------------- MODULE MCCaptureStartup --------------------------
(* A page whose queue is watched and a NowCoder result page, open since    *)
(* before the extension or opened later, with few failures, restarts, user *)
(* actions and messages each.                                              *)
EXTENDS CaptureStartup

CONSTANTS front, judge

Setup(open, opens, faults, stops, users, messages, most) ==
  [open |-> open, opens |-> opens, faults |-> faults, stops |-> stops,
   users |-> users, messages |-> messages, most |-> most,
   supported |-> most # 0]

MCSetups ==
  {Setup({front}, 0, 2, 0, 0, 2, 2), Setup({front}, 0, 1, 1, 0, 2, 2),
   Setup({front}, 0, 0, 0, 0, 3, 2), Setup({front}, 0, 1, 0, 1, 0, 2),
   Setup({judge}, 1, 1, 0, 0, 0, 2), Setup({judge}, 1, 0, 1, 0, 0, 2),
   Setup({}, 1, 1, 0, 0, 0, 2), Setup({}, 1, 0, 1, 0, 0, 2),
   Setup({}, 2, 0, 0, 0, 0, 2), Setup({front, judge}, 0, 1, 1, 0, 0, 2),
   Setup({front, judge}, 0, 2, 1, 0, 0, 1), Setup({front, judge}, 0, 2, 0, 1, 0, 1),
   Setup({front, judge}, 0, 1, 0, 1, 0, 0)}
=============================================================================
